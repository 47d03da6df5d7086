------------------------------- MODULE Fido2 -------------------------------
(***************************************************************************)
(* The FIDO2 authenticator of hiya-fido2d (src/fido2): PIN state, table of  *)
(* resident credentials, signature counters, pending assertions and         *)
(* enumerations, fingerprint templates, the file the state is saved to and  *)
(* the wrap key the file is encrypted with.                                 *)
(*                                                                          *)
(* bio_fido2_process runs each command under ctx->mutex, so a command is    *)
(* one action; commands of different clients interleave.  Authorization (a  *)
(* PIN token or the fingerprint callback, which hiya-fido2d always sets)    *)
(* either refuses a command or has no further effect: a refused command is  *)
(* Refused.  A credential ID stands for the key wrapped in it.              *)
(***************************************************************************)
EXTENDS Naturals, Sequences, FiniteSets, Functions

CONSTANTS Rps, Users, Protections,   \* relying parties, users, credProtect levels
          Pins, NoPin, NoRp,
          MaxCredentials,            \* CTAP2_MAX_CREDENTIALS_STORED
          MaxRetries,                \* CTAP2_MAX_PIN_RETRIES
          MaxTemplates, Samples,     \* CTAP2_MAX_BIO_TEMPLATES, captures needed
          Environments,              \* see env
          MaxIds, MaxCount, MaxStarts  \* bounds: credentials made, counters, starts

ASSUME Fido2Assumption ==
  /\ NoPin \notin Pins /\ NoRp \notin Rps
  /\ {MaxCredentials, MaxRetries, MaxTemplates, Samples} \subseteq Nat \ {0}
  /\ Protections \subseteq 1..3
  /\ {MaxIds, MaxCount, MaxStarts} \subseteq Nat
  /\ \A e \in Environments :
       /\ e.ids \in 0..MaxIds /\ e.old \in BOOLEAN
       /\ e.old => Pins # {}
       /\ (e.old /\ "cred" \in e.commands) => MaxIds > 0 /\ MaxCount > 0 /\ 1 \in Protections

VARIABLES
  env,        \* fixed for a behaviour: the faults it may suffer ("save", "seal",
              \* "unseal"), the commands clients send, whether an older version
              \* left its files, and a bound on the credentials made
  up,         \* hiya-fido2d runs
  early,      \* less than ten seconds have passed since the start
  ctx,        \* the saved part of bio_fido2_ctx_t
  assertion,  \* what GetNextAssertion has yet to return, and for whom
  enum,       \* g_cred_enum: what the getNext subcommands have yet to return
  bio,        \* g_bio_templates, g_bio_template_count, g_bio_enroll_active
  file,       \* credentials.bin
  keys,       \* g_wrap_key, and the keys in wrap_key.sealed and wrap_key; 0: none
  starts,
  issued,     \* history: RP and wrap key of each credential ID given out
  accepted,   \* history: the PINs clients may take to be in force
  wrong,      \* history: wrong PINs since the last right or new one
  shown       \* history: the highest counter an assertion showed, per credential
              \* and, since the last reset, of the global one

vars == <<env, up, early, ctx, assertion, enum, bio, file, keys, starts,
          issued, accepted, wrong, shown>>
histories == <<issued, accepted, wrong, shown>>

Slots == 1..MaxCredentials
Templates == 1..MaxTemplates
Ids == 1..MaxIds
Free == [id |-> 0]
Credential == [id : Ids, rp : Rps, user : Users, protect : Protections, count : 1..MaxCount]
Pin == [hash : Pins \cup {NoPin}, retries : 0..MaxRetries, blocked : BOOLEAN]
Ctx == [credentials : [Slots -> Credential \cup {Free}], count : Nat, global : 0..MaxCount, pin : Pin]
Keys == 0..MaxStarts + 1
File == [key : Keys, pin : Pin, count : Nat, global : 0..MaxCount, credentials : Seq(Credential)]
NoFile == [key |-> 0, count |-> 0]   \* no magic number to read
NewPin == [hash |-> NoPin, retries |-> MaxRetries, blocked |-> FALSE]
Blank == [credentials |-> [s \in Slots |-> Free], count |-> 0, global |-> 0, pin |-> NewPin]
NoAssertion == [rp |-> NoRp, rest |-> <<>>]
NoEnum == [rps |-> <<>>, rp |-> NoRp, slots |-> <<>>]
NoBio == [left |-> [t \in Templates |-> Samples + 1], count |-> 0, active |-> 0]

InUse(c) == {s \in Slots : c.credentials[s] # Free}
First(S) == CHOOSE s \in S : \A t \in S : s <= t

(* The slots of a set, in the order of a loop over the table. *)
InOrder(S) ==
  CHOOSE q \in [1..Cardinality(S) -> S] : \A i, j \in DOMAIN q : i < j => q[i] < q[j]
-----------------------------------------------------------------------------
(***************************************************************************)
(* The file.  bio_fido2_save_credentials writes a temporary file and        *)
(* renames it: the file is the whole image or what it was before.           *)
(***************************************************************************)
Image(c) ==
  LET used == InOrder(InUse(c))
  IN  [key |-> keys.wrap, pin |-> c.pin, count |-> c.count, global |-> c.global,
       credentials |-> [i \in DOMAIN used |-> c.credentials[used[i]]]]

SaveResults == IF "save" \in env.faults THEN BOOLEAN ELSE {TRUE}

Saved(c, ok) == IF ok THEN Image(c) ELSE file

(* A save whose result the handler ignores, or only logs. *)
SaveAnyway(c) == \E ok \in SaveResults : file' = Saved(c, ok)

(* The entries of a file that can be read fill the table from its start;    *)
(* the header says how many there are.                                      *)
Entries(f) ==
  LET n == First({f.count, Len(f.credentials), MaxCredentials})
  IN  [credentials |-> [s \in Slots |-> IF s <= n THEN f.credentials[s] ELSE Free],
       count |-> n, global |-> f.global, pin |-> f.pin]

(* bio_fido2_load_credentials with wrap key k.  The global counter is in    *)
(* the clear and is set before decryption is tried.  Key 0 marks the        *)
(* unencrypted format of version 1.                                         *)
Load(f, k) ==
  IF f = NoFile THEN Blank
  ELSE IF f.key \in {0, k} THEN Entries(f)
  ELSE [Blank EXCEPT !.global = f.global]

(* A file of version 1 with credentials is saved again, encrypted.          *)
Upgrade(c, k) ==
  IF file # NoFile /\ file.key = 0 /\ c.count > 0
  THEN \E ok \in SaveResults : file' = IF ok THEN [Image(c) EXCEPT !.key = k] ELSE file
  ELSE UNCHANGED file

(* ensure_wrap_key: the sealed key, else the raw key, else a new one.  The  *)
(* latter two are sealed if the TPM does it; the raw file goes only once    *)
(* the sealed one is written.  A failed write leaves a truncated file.      *)
EnsureWrapKey(unseal, seal, written) ==
  IF keys.sealed # 0 /\ unseal THEN [keys EXCEPT !.wrap = keys.sealed]
  ELSE LET k == IF keys.raw # 0 THEN keys.raw ELSE starts + 2
       IN  [wrap |-> k,
            sealed |-> IF ~seal THEN keys.sealed ELSE IF written THEN k ELSE 0,
            raw |-> IF seal /\ written THEN 0 ELSE keys.raw]

Outcomes(fault) == IF fault \in env.faults THEN BOOLEAN ELSE {TRUE}

(* What an older version may have left: the raw key 1, and an unencrypted   *)
(* file with a PIN and, where clients use credentials, one of those.        *)
OldCredential(rp, u) == [id |-> 1, rp |-> rp, user |-> u, protect |-> 1, count |-> 1]
OldFile(cs) ==
  [key |-> 0, pin |-> [NewPin EXCEPT !.hash = CHOOSE p \in Pins : TRUE],
   count |-> Len(cs), global |-> Len(cs), credentials |-> cs]

Init ==
  /\ env \in Environments
  /\ up = FALSE /\ early = FALSE
  /\ ctx = Blank /\ assertion = NoAssertion /\ enum = NoEnum /\ bio = NoBio
  /\ keys = [wrap |-> 0, sealed |-> 0, raw |-> IF env.old THEN 1 ELSE 0]
  /\ IF ~env.old THEN file = NoFile /\ issued = <<>>
     ELSE \E rp \in Rps, u \in Users :
            IF "cred" \in env.commands
            THEN /\ file = OldFile(<<OldCredential(rp, u)>>)
                 /\ issued = <<[rp |-> rp, key |-> 1]>>
            ELSE file = OldFile(<<>>) /\ issued = <<>>
  /\ starts = 0
  /\ accepted = {IF file = NoFile THEN NoPin ELSE file.pin.hash}
  /\ wrong = 0
  /\ shown = [own |-> [i \in Ids |-> 0], global |-> 0]
-----------------------------------------------------------------------------
(***************************************************************************)
(* Start and end of the process.                                            *)
(***************************************************************************)

(* bio_fido2_init.  A load that fails is not fatal. *)
Start ==
  /\ ~up /\ starts < MaxStarts
  /\ \E unseal \in Outcomes("unseal"), seal \in Outcomes("seal"), written \in Outcomes("seal") :
       keys' = EnsureWrapKey(unseal, seal, written)
  /\ ctx' = Load(file, keys'.wrap)
  /\ Upgrade(ctx', keys'.wrap)
  /\ up' = TRUE /\ early' = TRUE /\ starts' = starts + 1
  /\ UNCHANGED <<env, assertion, enum, bio, histories>>

Ended ==
  /\ up' = FALSE /\ early' = FALSE
  /\ ctx' = Blank /\ assertion' = NoAssertion /\ enum' = NoEnum /\ bio' = NoBio
  /\ keys' = [keys EXCEPT !.wrap = 0]
  /\ UNCHANGED <<env, starts, histories>>

Crash == up /\ Ended /\ UNCHANGED file

(* bio_fido2_cleanup saves, and ignores whether it could. *)
Cleanup == up /\ SaveAnyway(ctx) /\ Ended

TenSeconds ==
  /\ early /\ early' = FALSE
  /\ UNCHANGED <<env, up, ctx, assertion, enum, bio, file, keys, starts, histories>>
-----------------------------------------------------------------------------
(* Mutant: a command leaves the pending assertions alone. *)
KeepsAssertions(k) ==
  up /\ k \in env.commands /\ UNCHANGED <<env, up, early, assertion, keys, starts>>

(* bio_fido2_process: a command of class k; any but GetNextAssertion drops  *)
(* the pending assertions.                                                  *)
Command(k) ==
  /\ up /\ k \in env.commands
  /\ assertion' = NoAssertion
  /\ UNCHANGED <<env, up, early, keys, starts>>

(* A command that is refused, or that only reads (GetInfo, Selection, ...). *)
Refused ==
  /\ \E k \in env.commands : Command(k)
  /\ UNCHANGED <<ctx, enum, bio, file, histories>>
-----------------------------------------------------------------------------
(***************************************************************************)
(* ClientPIN.                                                               *)
(***************************************************************************)
SetPin(p) ==
  /\ Command("pin")
  /\ ctx.pin.hash = NoPin
  /\ LET c == [ctx EXCEPT !.pin.hash = p, !.pin.retries = MaxRetries]
     IN  \E ok \in SaveResults :
           /\ file' = Saved(c, ok)
           /\ ctx' = IF ok THEN c ELSE [c EXCEPT !.pin.hash = NoPin]
           /\ accepted' = IF ok THEN {p} ELSE accepted
           /\ wrong' = IF ok THEN 0 ELSE wrong
  /\ UNCHANGED <<enum, bio, issued, shown>>

(* Mutant: the counter is not persisted. *)
UnsavedWrongPin ==
  /\ ctx' = [ctx EXCEPT !.pin.retries = @ - 1, !.pin.blocked = ctx.pin.retries <= 1]
  /\ wrong' = wrong + 1
  /\ UNCHANGED <<file, accepted>>

(* The answer to a wrong PIN, in each subcommand that takes one. *)
WrongPin ==
  /\ ctx' = [ctx EXCEPT !.pin.retries = @ - 1, !.pin.blocked = ctx.pin.retries <= 1]
  /\ SaveAnyway(ctx')
  /\ wrong' = wrong + 1
  /\ UNCHANGED accepted

(* getPinToken and getPinUvAuthTokenUsingPinWithPermissions.  The restored  *)
(* retries are not saved.                                                   *)
GetPinToken(p) ==
  /\ Command("pin")
  /\ ctx.pin.hash # NoPin /\ ~ctx.pin.blocked
  /\ \/ p # ctx.pin.hash /\ WrongPin
     \/ /\ p = ctx.pin.hash
        /\ ctx' = [ctx EXCEPT !.pin.retries = MaxRetries]
        /\ wrong' = 0
        /\ UNCHANGED <<file, accepted>>
  /\ UNCHANGED <<enum, bio, issued, shown>>

(* Mutant: a change that could not be saved is not rolled back. *)
KeepUnsavedPin(p) ==
  LET c == [ctx EXCEPT !.pin = [NewPin EXCEPT !.hash = p]]
  IN  \E ok \in SaveResults :
        /\ file' = Saved(c, ok)
        /\ ctx' = c
        /\ accepted' = IF ok THEN {p} ELSE accepted
        /\ wrong' = IF ok THEN 0 ELSE wrong

ReplacePin(p) ==
  LET c == [ctx EXCEPT !.pin = [NewPin EXCEPT !.hash = p]]
  IN  \E ok \in SaveResults :
        /\ file' = Saved(c, ok)
        /\ ctx' = IF ok THEN c ELSE ctx
        /\ accepted' = IF ok THEN {p} ELSE accepted
        /\ wrong' = IF ok THEN 0 ELSE wrong

ChangePin(old, new) ==
  /\ Command("pin")
  /\ ctx.pin.hash # NoPin /\ ~ctx.pin.blocked
  /\ \/ old # ctx.pin.hash /\ WrongPin
     \/ old = ctx.pin.hash /\ ReplacePin(new)
  /\ UNCHANGED <<enum, bio, issued, shown>>

(* ctap2_reset.  It reports success whether or not the save worked, and     *)
(* keeps the wrap key.                                                      *)
Reset ==
  /\ \E k \in env.commands : Command(k)
  /\ early
  /\ ctx' = Blank /\ enum' = NoEnum /\ bio' = NoBio
  /\ \E ok \in SaveResults :
       /\ file' = Saved(Blank, ok)
       /\ accepted' = IF ok THEN {NoPin} ELSE accepted \cup {NoPin}
  /\ wrong' = 0
  /\ shown' = [shown EXCEPT !.global = 0]
  /\ UNCHANGED issued
-----------------------------------------------------------------------------
(***************************************************************************)
(* MakeCredential.                                                          *)
(***************************************************************************)

(* The slot a resident credential goes to: the one of the same account,     *)
(* else the first free one, else none.                                      *)
TargetSlot(rp, u) ==
  LET same == {s \in InUse(ctx) : ctx.credentials[s].rp = rp /\ ctx.credentials[s].user = u}
      free == Slots \ InUse(ctx)
  IN  IF same # {} THEN First(same) ELSE IF free # {} THEN First(free) ELSE 0

NewId == Len(issued) + 1
GiveOut(rp) == issued' = Append(issued, [rp |-> rp, key |-> keys.wrap])
Counted == [ctx EXCEPT !.global = @ + 1]

MakeNonResident(rp) ==
  /\ Command("cred")
  /\ NewId <= env.ids /\ ctx.global < MaxCount
  /\ ctx' = Counted
  /\ GiveOut(rp)
  /\ UNCHANGED <<enum, bio, file, accepted, wrong, shown>>

(* A failed save frees the slot, also one that held another credential.     *)
(* credential_count is then what it was before the command.                 *)
MakeResident(rp, u, protect) ==
  /\ Command("cred")
  /\ NewId <= env.ids /\ ctx.global < MaxCount
  /\ LET slot == TargetSlot(rp, u)
         cred == [id |-> NewId, rp |-> rp, user |-> u, protect |-> protect,
                  count |-> Counted.global]
         c == [Counted EXCEPT !.credentials[slot] = cred,
                              !.count = IF slot \in InUse(ctx) THEN @ ELSE @ + 1]
     IN  \/ slot = 0 /\ ctx' = Counted /\ UNCHANGED <<file, issued>>
         \/ /\ slot # 0
            /\ \E ok \in SaveResults :
                 /\ file' = Saved(c, ok)
                 /\ ctx' = IF ok THEN c
                           ELSE [c EXCEPT !.credentials[slot] = Free, !.count = ctx.count]
                 /\ IF ok THEN GiveOut(rp) ELSE UNCHANGED issued
  /\ UNCHANGED <<enum, bio, accepted, wrong, shown>>
-----------------------------------------------------------------------------
(***************************************************************************)
(* Assertions.  The response carries the credential's own counter if it is  *)
(* found in the table, and the global one if its ID unwraps.                *)
(***************************************************************************)
Higher(a, b) == IF a < b THEN b ELSE a

(* build_assertion_response for a slot of the table. *)
SignOwn(slot) ==
  LET n == ctx.credentials[slot].count + 1
      id == ctx.credentials[slot].id
  IN  /\ n <= MaxCount
      /\ ctx' = [ctx EXCEPT !.credentials[slot].count = n]
      /\ shown' = [shown EXCEPT !.own[id] = Higher(@, n)]

(* build_assertion_response for an unwrapped key. *)
SignGlobal ==
  /\ ctx.global < MaxCount
  /\ ctx' = Counted
  /\ shown' = [shown EXCEPT !.global = Higher(@, ctx.global + 1)]

(* unwrap_credential_id *)
Unwraps(id, rp) == issued[id] = [rp |-> rp, key |-> keys.wrap]

(* The first match is signed and the rest left to GetNextAssertion; no      *)
(* match is refused.                                                        *)
AssertFirst(rp, matches) ==
  IF matches = <<>> THEN assertion' = NoAssertion /\ UNCHANGED <<ctx, file, shown>>
  ELSE /\ SignOwn(Head(matches))
       /\ SaveAnyway(ctx')
       /\ assertion' = [rp |-> rp, rest |-> Tail(matches)]

(* GetAssertion without an allow list. *)
GetAssertionAny(rp) ==
  /\ up /\ "cred" \in env.commands
  /\ AssertFirst(rp, InOrder({s \in InUse(ctx) : /\ ctx.credentials[s].rp = rp
                                                  /\ ctx.credentials[s].protect < 3}))
  /\ UNCHANGED <<env, up, early, enum, bio, keys, starts, issued, accepted, wrong>>

(* GetAssertion with one.  The first ID that unwraps is signed for at once, *)
(* whatever matched in the table.                                           *)
GetAssertionOf(rp, allow) ==
  /\ up /\ "cred" \in env.commands
  /\ LET listed == {i \in DOMAIN allow : Unwraps(allow[i], rp)}
         slots(i) == InOrder({s \in InUse(ctx) : /\ ctx.credentials[s].id = allow[i]
                                                 /\ ctx.credentials[s].rp = rp})
         matches == IF Len(allow) = 1 THEN slots(1) ELSE slots(1) \o slots(2)
     IN  IF listed # {}
         THEN SignGlobal /\ SaveAnyway(ctx') /\ assertion' = NoAssertion
         ELSE AssertFirst(rp, matches)
  /\ UNCHANGED <<env, up, early, enum, bio, keys, starts, issued, accepted, wrong>>

(* Mutant: the counter of a further assertion is not persisted. *)
UnsavedNextAssertion ==
  /\ SignOwn(Head(assertion.rest))
  /\ assertion' = [assertion EXCEPT !.rest = Tail(@)]
  /\ UNCHANGED file

NextAssertion ==
  /\ SignOwn(Head(assertion.rest))
  /\ assertion' = [assertion EXCEPT !.rest = Tail(@)]
  /\ SaveAnyway(ctx')

(* GetNextAssertion, within thirty seconds or later. *)
GetNextAssertion ==
  /\ up /\ assertion.rest # <<>>
  /\ \/ NextAssertion
     \/ assertion' = NoAssertion /\ UNCHANGED <<ctx, file, shown>>
  /\ UNCHANGED <<env, up, early, enum, bio, keys, starts, issued, accepted, wrong>>
-----------------------------------------------------------------------------
(***************************************************************************)
(* CredentialManagement.  Every subcommand but the getNext ones drops both  *)
(* enumerations.                                                            *)
(***************************************************************************)
Manage == Command("manage") /\ UNCHANGED <<bio, histories>>

EnumerateRpsBegin ==
  /\ Manage
  /\ LET firsts == InOrder({s \in InUse(ctx) :
                      ~\E t \in InUse(ctx) : t < s /\ ctx.credentials[t].rp = ctx.credentials[s].rp})
         rps == [i \in DOMAIN firsts |-> ctx.credentials[firsts[i]].rp]
     IN  enum' = [NoEnum EXCEPT !.rps = IF rps = <<>> THEN rps ELSE Tail(rps)]
  /\ UNCHANGED <<ctx, file>>

EnumerateRpsNext ==
  /\ Manage
  /\ enum.rps # <<>> /\ enum' = [enum EXCEPT !.rps = Tail(@)]
  /\ UNCHANGED <<ctx, file>>

EnumerateCredsBegin(rp) ==
  /\ Manage
  /\ LET slots == InOrder({s \in InUse(ctx) : ctx.credentials[s].rp = rp})
     IN  enum' = [NoEnum EXCEPT !.rp = rp, !.slots = IF slots = <<>> THEN slots ELSE Tail(slots)]
  /\ UNCHANGED <<ctx, file>>

EnumerateCredsNext ==
  /\ Manage
  /\ enum.slots # <<>> /\ enum' = [enum EXCEPT !.slots = Tail(@)]
  /\ UNCHANGED <<ctx, file>>

(* Mutant: a deletion leaves the enumeration in place. *)
DeleteKeepingEnum(slot) ==
  /\ Manage
  /\ ctx' = [ctx EXCEPT !.credentials[slot] = Free, !.count = @ - 1]
  /\ SaveAnyway(ctx')
  /\ UNCHANGED enum

(* Mutant: a deletion is not saved. *)
DeleteUnsaved(slot) ==
  /\ Manage
  /\ enum' = NoEnum
  /\ ctx' = [ctx EXCEPT !.credentials[slot] = Free, !.count = @ - 1]
  /\ UNCHANGED file

DeleteCredential(slot) ==
  /\ Manage
  /\ enum' = NoEnum
  /\ ctx' = [ctx EXCEPT !.credentials[slot] = Free, !.count = IF @ > 0 THEN @ - 1 ELSE 0]
  /\ SaveAnyway(ctx')

(* updateUserInformation changes names only, which are not modelled. *)
UpdateUserInformation ==
  /\ Manage /\ InUse(ctx) # {}
  /\ enum' = NoEnum
  /\ SaveAnyway(ctx)
  /\ UNCHANGED ctx

(* getCredsMetadata, or an ID that is not in the table. *)
ManageOther == Manage /\ enum' = NoEnum /\ UNCHANGED <<ctx, file>>
-----------------------------------------------------------------------------
(***************************************************************************)
(* BioEnrollment.  left[t] is samples_remaining, Samples + 1 if not in use. *)
(***************************************************************************)
Enroll == Command("bio") /\ UNCHANGED <<ctx, enum, file, histories>>
Unused == Samples + 1

(* An enrollment that is under way is dropped, by Begin and by Cancel. *)
Abandoned ==
  IF bio.active # 0 /\ bio.left[bio.active] \in 1..Samples
  THEN [left |-> [bio.left EXCEPT ![bio.active] = Unused], count |-> bio.count - 1, active |-> 0]
  ELSE bio

EnrollBegin ==
  /\ Enroll
  /\ LET free == {t \in Templates : Abandoned.left[t] = Unused}
         t == First(free)
     IN  bio' = IF free = {} THEN Abandoned
                ELSE [left |-> [Abandoned.left EXCEPT ![t] = Samples],
                      count |-> Abandoned.count + 1, active |-> t]

EnrollCaptureNext ==
  /\ Enroll /\ bio.active # 0
  /\ bio.left[bio.active] # Unused
  /\ LET n == IF bio.left[bio.active] > 0 THEN bio.left[bio.active] - 1 ELSE 0
     IN  bio' = [bio EXCEPT !.left[bio.active] = n, !.active = IF n = 0 THEN 0 ELSE @]

CancelEnrollment == Enroll /\ bio' = Abandoned

(* Mutant: the enrollment under way is not forgotten with its template. *)
RemoveKeepingActive(t) ==
  /\ Enroll /\ bio.left[t] # Unused
  /\ bio' = [bio EXCEPT !.left[t] = Unused, !.count = @ - 1]

RemoveEnrollment(t) ==
  /\ Enroll /\ bio.left[t] # Unused
  /\ bio' = [left |-> [bio.left EXCEPT ![t] = Unused],
             count |-> IF bio.count > 0 THEN bio.count - 1 ELSE 0,
             active |-> IF bio.active = t THEN 0 ELSE bio.active]
-----------------------------------------------------------------------------
Known == DOMAIN issued
AllowLists == {<<i>> : i \in Known} \cup {<<i, j>> : i, j \in Known}

Next ==
  \/ Start \/ Crash \/ Cleanup \/ TenSeconds \/ Refused \/ Reset
  \/ \E p \in Pins : SetPin(p) \/ GetPinToken(p)
  \/ \E p, q \in Pins : ChangePin(p, q)
  \/ \E rp \in Rps :
       \/ MakeNonResident(rp) \/ GetAssertionAny(rp) \/ EnumerateCredsBegin(rp)
       \/ \E u \in Users, protect \in Protections : MakeResident(rp, u, protect)
       \/ \E allow \in AllowLists : GetAssertionOf(rp, allow)
  \/ GetNextAssertion
  \/ EnumerateRpsBegin \/ EnumerateRpsNext \/ EnumerateCredsNext
  \/ \E s \in InUse(ctx) : DeleteCredential(s)
  \/ UpdateUserInformation \/ ManageOther
  \/ EnrollBegin \/ EnrollCaptureNext \/ CancelEnrollment
  \/ \E t \in Templates : RemoveEnrollment(t)

Spec == Init /\ [][Next]_vars
-----------------------------------------------------------------------------
(* The fields of the context, of g_cred_enum, of the template table and of  *)
(* the key files keep their ranges.                                         *)
TypeOK ==
  /\ env \in Environments /\ up \in BOOLEAN /\ early \in BOOLEAN
  /\ ctx \in Ctx
  /\ assertion \in [rp : Rps \cup {NoRp}, rest : Seq(Slots)]
  /\ enum \in [rps : Seq(Rps), rp : Rps \cup {NoRp}, slots : Seq(Slots)]
  /\ bio \in [left : [Templates -> 0..Unused], count : Nat, active : 0..MaxTemplates]
  /\ file \in File \cup {NoFile}
  /\ keys \in [wrap : Keys, sealed : Keys, raw : Keys]
  /\ starts \in 0..MaxStarts
  /\ issued \in Seq([rp : Rps, key : Keys]) /\ Len(issued) <= MaxIds
  /\ accepted \subseteq Pins \cup {NoPin} /\ wrong \in Nat
  /\ shown \in [own : [Ids -> 0..MaxCount], global : 0..MaxCount]

(* The wrap key survives restarts: the TPM unseals it, and if it may fail   *)
(* to seal, there is the raw key of an older version to fall back on.       *)
KeyKept == "unseal" \notin env.faults /\ ("seal" \in env.faults => env.old)

(* However often the daemon is restarted or crashes, no more than           *)
(* CTAP2_MAX_PIN_RETRIES wrong PINs are taken in a row: a wrong PIN is      *)
(* counted on disk before it is answered ("PIN-PERSIST" in                  *)
(* ctap2_client_pin), and a success restores the retries in memory only.    *)
TriesBounded == KeyKept /\ "save" \notin env.faults => wrong <= MaxRetries

(* The PIN in force is the last one that was reported set or changed, after *)
(* saves that failed (setPIN and changePIN roll back), crashes, and the     *)
(* migration of the wrap key to the TPM.  A reset that could not be saved   *)
(* may be undone by a restart.                                              *)
PinInForce == up /\ KeyKept => ctx.pin.hash \in accepted

(* While saves succeed, the file holds the credentials and the PIN of the   *)
(* running authenticator, so a crash at any point loses none: every command *)
(* that changes them saves them.  Retries and the global counter may be     *)
(* ahead in memory, never behind.                                           *)
StateIsOnDisk ==
  up /\ env.faults = {} /\ file # NoFile =>
    /\ file.key \in {0, keys.wrap}
    /\ Range(file.credentials) = {ctx.credentials[s] : s \in InUse(ctx)}
    /\ file.pin.hash = ctx.pin.hash /\ file.pin.blocked = ctx.pin.blocked
    /\ file.pin.retries <= ctx.pin.retries /\ file.global <= ctx.global

(* credential_count, which the file's header carries and a load trusts,     *)
(* never falls below the number of credentials in use, so that none is left *)
(* out; it is exact unless a save failed (a replaced credential that could  *)
(* not be saved is dropped and still counted).                              *)
CountCoversTable ==
  up => /\ Cardinality(InUse(ctx)) <= ctx.count
        /\ "save" \notin env.faults => ctx.count = Cardinality(InUse(ctx))

(* The tables keep their types, agree with their count and are on disk.     *)
StoreConsistent == TypeOK /\ StateIsOnDisk /\ CountCoversTable

(* GetNextAssertion returns live credentials of the relying party of the    *)
(* last GetAssertion only, whatever other clients did in between: the       *)
(* matches are pointers into the table, and bio_fido2_process drops them on *)
(* any other command.                                                       *)
NextIsOfSameRp ==
  \A s \in Range(assertion.rest) :
    s \in InUse(ctx) /\ ctx.credentials[s].rp = assertion.rp

(* Slots that an enumeration has yet to return hold credentials of its      *)
(* relying party, and relying parties it has yet to return have             *)
(* credentials, although MakeCredential does not drop the enumeration.      *)
EnumerationIsLive ==
  "save" \notin env.faults =>
    /\ \A s \in Range(enum.slots) : s \in InUse(ctx) /\ ctx.credentials[s].rp = enum.rp
    /\ \A rp \in Range(enum.rps) : \E s \in InUse(ctx) : ctx.credentials[s].rp = rp

(* No two assertions show the same value of a counter, restarts and crashes *)
(* included: the next value of a credential's own counter, and of the       *)
(* global one until it is reset, is above every one shown, because each     *)
(* assertion saves.  (The global counter that a registration shows is not   *)
(* saved if the credential is not resident.)                                *)
CountersNeverRepeat ==
  up /\ KeyKept /\ "save" \notin env.faults =>
    /\ \A s \in InUse(ctx) : shown.own[ctx.credentials[s].id] <= ctx.credentials[s].count
    /\ shown.global <= ctx.global

(* The only incomplete template is the one of the enrollment under way, and *)
(* the count is exact: begin, capture, cancel and remove agree.             *)
OneIncompleteTemplate ==
  /\ {t \in Templates : bio.left[t] \in 1..Samples} = IF bio.active = 0 THEN {} ELSE {bio.active}
  /\ bio.count = Cardinality({t \in Templates : bio.left[t] # Unused})
=============================================================================
