------------------------------- MODULE Vault -------------------------------
(***************************************************************************)
(* The vaults hiya-authd serves: the slots of the daemon, one per user     *)
(* (src/daemon/bio_daemon.c), the handle behind a slot and its file        *)
(* (src/pm/pm_vault_store.c), the entries and their history                *)
(* (src/pm/pm_entry_store.c, pm_history.c), and the sidecar file with the  *)
(* sealed wrapping key (src/pm/pm_bio_wrap.c).                             *)
(*                                                                          *)
(* Every call runs on the main thread and none of them iterates the main    *)
(* context, so a call is one step.  A save may fail, the daemon may end at  *)
(* any time, also between the rename of the file and the answer, and        *)
(* another program may create a vault, anew too, at any time.               *)
(***************************************************************************)
EXTENDS Naturals, Sequences

CONSTANTS Users,
          Uuids,        \* identifiers drawn at random for entries
          TotpIds,      \* identifiers made from the time in seconds
          Loads,        \* the workloads: which inputs occur together
          MaxVaults,    \* BIO_MAX_VAULTS
          MaxEntries,   \* PM_PAYLOAD_MAX_ENTRIES
          MaxHistory,   \* PM_HISTORY_MAX_REVISIONS
          None

\* A workload: users, identifiers, urls, relying parties, texts and keys; the
\* factor sets (modes) and wrapping keys vaults are created with; the values
\* of vault_idle_timeout_seconds.  Two bounds: idle times are not told apart
\* above "idle", and "seq" is the largest sequence number (UINT64_MAX).
ASSUME VaultAssumption ==
  /\ MaxVaults \in Nat \ {0} /\ MaxEntries \in Nat /\ MaxHistory \in Nat \ {0}
  /\ Uuids \cap TotpIds = {}
  /\ \A l \in Loads :
       /\ l.users \subseteq Users /\ l.ids \subseteq Uuids \cup TotpIds
       /\ l.seq \in Nat \ {0} /\ l.idle \in Nat /\ l.timeouts \subseteq 0..l.idle
       /\ None \notin Users \cup l.wraps \cup l.rps \cup l.keys \cup l.texts

VARIABLES
  load,       \* the workload of this behaviour
  disk,       \* the vault file of each user
  sidecar,    \* the wrapping key each user's sidecar file unseals to
  vaults,     \* d->vaults
  timeout,    \* d->config.vault_idle_timeout_seconds
  timer,      \* whether the idle timer was created
  announced,  \* the Locked property, as last signalled
  may         \* the contents a client may expect under each identifier

vars == <<load, disk, sidecar, vaults, timeout, timer, announced, may>>

Ids == Uuids \cup TotpIds
Slots == 1..MaxVaults
NoUrl == ""
Absent == None
Secret == "secret"     \* a master key that needs a password or a key file
Biometric == {"biometric"}

-----------------------------------------------------------------------------
(* Entries.  "text" stands for the fields a revision keeps (title, user     *)
(* name, password, notes, ...); "url" is told apart from them because it    *)
(* is kept twice; "rp" and "key" are the custom fields, which a revision    *)
(* does not keep.  "rest" says that the payload still has what it had       *)
(* besides its entries: groups, attachments, recycle bin, unknown fields.   *)

Entry(id, url, text, rp, key) ==
  [id |-> id, url |-> url, urls |-> IF url = NoUrl THEN <<>> ELSE <<url>>,
   text |-> text, rp |-> rp, key |-> key, history |-> <<>>]
NewPayload == [entries |-> <<>>, rest |-> TRUE]

\* entry_clone ends with ensure_entry_url_alias: the first of the list wins.
EntryClone(e) ==
  IF e.urls # <<>> THEN [e EXCEPT !.url = Head(e.urls)]
                   ELSE IF e.url # NoUrl THEN [e EXCEPT !.urls = <<e.url>>] ELSE e

RevisionFromEntry(e) == [url |-> e.url, text |-> e.text]

\* Mutant: a full history makes no room.
HistoryPushFull(e, rev) ==
  IF Len(e.history) < MaxHistory THEN [e EXCEPT !.history = Append(@, rev)] ELSE e

HistoryPush(e, rev) ==
  [e EXCEPT !.history = IF Len(@) < MaxHistory THEN Append(@, rev)
                                               ELSE Append(Tail(@), rev)]

Has(p, id) == \E i \in DOMAIN p.entries : p.entries[i].id = id
At(p, id) == CHOOSE i \in DOMAIN p.entries : p.entries[i].id = id
Get(p, id) == p.entries[At(p, id)]

EntryUpdate(p, id, new) ==
  [entries |-> [i \in DOMAIN p.entries |->
      IF p.entries[i].id # id THEN p.entries[i]
      ELSE EntryClone(HistoryPush(EntryClone(new), RevisionFromEntry(p.entries[i])))],
   rest |-> FALSE]

\* No two entries have the same id, so this is every entry with it.
EntryRemove(p, id) ==
  LET i == At(p, id)
  IN  [entries |-> SubSeq(p.entries, 1, i - 1) \o SubSeq(p.entries, i + 1, Len(p.entries)),
       rest |-> FALSE]

EntryAdd(p, e) ==
  IF Has(p, e.id) THEN EntryUpdate(p, e.id, e)
                  ELSE [p EXCEPT !.entries = Append(@, EntryClone(e))]
RoomFor(p, id) == Has(p, id) \/ Len(p.entries) < MaxEntries

\* The index of the first passkey of the relying party, if there is one.
FindPasskey(p, rp) ==
  {i \in DOMAIN p.entries : /\ p.entries[i].rp = rp
                            /\ \A j \in 1..(i - 1) : p.entries[j].rp # rp}

\* What a client knows of an entry.
Seen(e) == [url |-> e.url, text |-> e.text, key |-> e.key]
Value(p, id) == IF Has(p, id) THEN Seen(Get(p, id)) ELSE Absent

-----------------------------------------------------------------------------
(* Slots and handles.                                                       *)

SlotsOf(u) == {i \in Slots : vaults[i] # None /\ vaults[i].uid = u}
FreeSlots == {i \in Slots : vaults[i] = None}
IsLocked(i) == vaults[i].payload = None

\* pm_vault_open: salt, mode and sequence are read here and never again.
VaultOpen(u) ==
  [uid |-> u, mode |-> disk[u].mode, seq |-> disk[u].seq,
   key |-> None, payload |-> None, idle |-> 0]

\* ensure_user_vault_handle: a slot found or allocated, freed again if the
\* file cannot be opened.
Available(u) == SlotsOf(u) # {} \/ (FreeSlots # {} /\ disk[u] # None)
SlotFor(u) == IF SlotsOf(u) # {} THEN CHOOSE i \in SlotsOf(u) : \A j \in SlotsOf(u) : i <= j
                                 ELSE CHOOSE i \in FreeSlots : \A j \in FreeSlots : i <= j
Ensured(u) == IF SlotsOf(u) # {} THEN vaults ELSE [vaults EXCEPT ![SlotFor(u)] = VaultOpen(u)]

\* The user's slot, if it is unlocked.
Unlocked(u) == {i \in SlotsOf(u) : ~IsLocked(i)}

VaultLock(h) == [h EXCEPT !.key = None, !.payload = None]
LockAll(set) == [i \in Slots |-> IF i \in set THEN VaultLock(vaults[i]) ELSE vaults[i]]
AllUnlocked == {i \in Slots : vaults[i] # None /\ ~IsLocked(i)}
Closed == [i \in Slots |-> None]

Init ==
  /\ load \in Loads
  /\ disk = [u \in Users |-> None]
  /\ sidecar = [u \in Users |-> None]
  /\ vaults = Closed
  /\ timeout \in load.timeouts
  /\ timer = (timeout > 0)
  /\ announced = "none"
  /\ may = [u \in Users |-> [id \in Ids |-> {Absent}]]

Config == <<load, timeout, timer>>
Files == <<disk, sidecar, may>>

-----------------------------------------------------------------------------
(* Another program provisions a vault: the wrapping key is sealed into the  *)
(* sidecar file, and pm_vault_create replaces the vault file.               *)

SealWrappingKey(u, w) ==
  /\ sidecar' = [sidecar EXCEPT ![u] = w]
  /\ UNCHANGED <<disk, vaults, Config, announced, may>>

\* With the biometric factor alone the master key is the wrapping key.
MasterKey(mode, w) == IF mode = Biometric THEN w ELSE Secret

VaultCreate(u, mode, w) ==
  /\ disk' = [disk EXCEPT ![u] = [mode |-> mode, key |-> MasterKey(mode, w),
                                  seq |-> 1, payload |-> NewPayload]]
  /\ may' = [may EXCEPT ![u] = [id \in Ids |-> IF Unlocked(u) # {} THEN @[id] \cup {Absent}
                                                                   ELSE {Absent}]]
  /\ UNCHANGED <<sidecar, vaults, Config, announced>>

-----------------------------------------------------------------------------
(* Locking and unlocking.                                                   *)

\* Mutant: the unlocked vault shows what it showed before.
DecryptNothing(u) == NewPayload

Decrypt(u) == disk[u].payload

\* auto_unlock_user_vault, after a verification.  A vault that is unlocked
\* already counts as a success and keeps its idle time.
AlreadyUnlocked(u) ==
  /\ Unlocked(u) # {}
  /\ announced' = "unlocked"
  /\ UNCHANGED <<Files, vaults, Config>>

AutoUnlock(u) ==
  /\ Available(u) /\ Unlocked(u) = {}
  /\ LET i == SlotFor(u) IN
     /\ Ensured(u)[i].mode = Biometric
     /\ disk[u] # None /\ sidecar[u] # None /\ sidecar[u] = disk[u].key
     /\ vaults' = [Ensured(u) EXCEPT ![i].key = sidecar[u], ![i].payload = Decrypt(u),
                                     ![i].idle = 0]
  /\ announced' = "unlocked"
  /\ UNCHANGED <<Files, Config>>

\* VaultStatus, the Locked property, LockVault of a locked vault, and every
\* call that is refused after ensure_user_vault_handle, an unlock that fails
\* included: the slot may be allocated.
Status(u) ==
  /\ Available(u)
  /\ vaults' = Ensured(u)
  /\ UNCHANGED <<Files, Config, announced>>

\* Mutant: the vault is locked without a signal.
LockSilently(set) ==
  /\ vaults' = LockAll(set)
  /\ UNCHANGED <<Files, Config, announced>>

LockAndAnnounce(set) ==
  /\ vaults' = LockAll(set)
  /\ announced' = IF set = {} THEN announced ELSE "locked"
  /\ UNCHANGED <<Files, Config>>

LockVault(u) == Unlocked(u) # {} /\ LockAndAnnounce(Unlocked(u))

\* The Lock signal of a session and PrepareForSleep(true).
SessionLock == LockAndAnnounce(AllUnlocked)

\* Mutant: the idle time must exceed the timeout by more than it can.
IdleTooLong(i) == vaults[i].idle > load.idle

Idle(i) == vaults[i].idle >= timeout

CheckVaultIdleTimeout ==
  /\ timer /\ timeout > 0
  /\ LockAndAnnounce({i \in AllUnlocked : Idle(i)})

Tick ==
  /\ \E i \in Slots : vaults[i] # None /\ vaults[i].idle < load.idle
  /\ vaults' = [i \in Slots |-> IF vaults[i] = None \/ vaults[i].idle = load.idle THEN vaults[i]
                                ELSE [vaults[i] EXCEPT !.idle = @ + 1]]
  /\ UNCHANGED <<Files, Config, announced>>

\* A reload takes the new timeout over and leaves the timer as it is.
Reload(t) ==
  /\ timeout' = t
  /\ UNCHANGED <<load, Files, vaults, timer, announced>>

\* The daemon ends, cleanly or not, and is started again.
Fresh ==
  /\ vaults' = Closed
  /\ announced' = "none"
  /\ timer' = (timeout > 0)
  /\ UNCHANGED <<load, timeout>>
Restart == Fresh /\ UNCHANGED Files

-----------------------------------------------------------------------------
(* Reading.                                                                 *)

\* The vault is used, which restarts its idle time.
Refreshed(f, i) == [f EXCEPT ![i].idle = 0]
Reads(u) ==
  /\ Unlocked(u) # {}
  /\ vaults' = Refreshed(vaults, SlotFor(u))
  /\ UNCHANGED <<Files, Config, announced>>
Payload(u) == vaults[SlotFor(u)].payload

SearchCredentials(u) == Reads(u)
\* Answers with empty fields when there is no match.
GetAllCredentials(u) == Reads(u)
ListPasskeys(u) == Reads(u)
SearchAdvanced(u) == Reads(u)
Search(u) == Reads(u)
ListGroups(u) == Reads(u)
\* These fail, and leave the idle time alone, when there is nothing to return.
GetCredential(u, url) ==
  /\ Unlocked(u) # {} /\ \E i \in DOMAIN Payload(u).entries : Payload(u).entries[i].url = url
  /\ Reads(u)
GetPasskey(u, rp) == Unlocked(u) # {} /\ FindPasskey(Payload(u), rp) # {} /\ Reads(u)
GetEntry(u, id) == Unlocked(u) # {} /\ Has(Payload(u), id) /\ Reads(u)
GetEntryHistory(u, id) == GetEntry(u, id)
ListEntryAttachments(u, id) == GetEntry(u, id)
GetTOTP(u, id) == id \in TotpIds /\ GetEntry(u, id)

-----------------------------------------------------------------------------
(* Changing.  The payload is changed in memory first and stays changed when *)
(* the save fails.                                                          *)

\* pm_vault_save: the file gets the next sequence number.
VaultFile(h, p) == [mode |-> h.mode, key |-> h.key, seq |-> h.seq + 1, payload |-> p]

Saved(u, p) ==
  /\ vaults[SlotFor(u)].seq < load.seq
  /\ disk' = [disk EXCEPT ![u] = VaultFile(vaults[SlotFor(u)], p)]

\* The change to payload p of the entry id, after which want stands there.
Acknowledged(u, p, id, want) ==
  LET i == SlotFor(u) IN
  /\ Saved(u, p)
  /\ vaults' = Refreshed([vaults EXCEPT ![i].payload = p, ![i].seq = @ + 1], i)
  /\ may' = [may EXCEPT ![u][id] = {want}]
  /\ UNCHANGED <<sidecar, Config, announced>>

\* Mutant: the answer comes although nothing was written.
SaveFailsUnnoticed(u, p, id, want) ==
  /\ vaults' = [vaults EXCEPT ![SlotFor(u)].payload = p]
  /\ may' = [may EXCEPT ![u][id] = {want}]
  /\ UNCHANGED <<disk, sidecar, Config, announced>>

SaveFails(u, p, id, want) ==
  /\ vaults' = [vaults EXCEPT ![SlotFor(u)].payload = p]
  /\ may' = [may EXCEPT ![u][id] = @ \cup {want}]
  /\ UNCHANGED <<disk, sidecar, Config, announced>>

\* The daemon ends after the rename and before the answer.
DiesAfterRename(u, p, id, want) ==
  /\ Saved(u, p) /\ Fresh
  /\ may' = [may EXCEPT ![u][id] = @ \cup {want}]
  /\ UNCHANGED sidecar

Stores(u, p, id, want) ==
  \/ Acknowledged(u, p, id, want)
  \/ SaveFails(u, p, id, want)
  \/ DiesAfterRename(u, p, id, want)

FreshUuids == {id \in Uuids \cap load.ids : \A u \in Users : may[u][id] = {Absent}}

SaveCredential(u, url, text) == \E id \in FreshUuids :
  LET e == Entry(id, url, text, None, None) IN
  /\ Unlocked(u) # {} /\ RoomFor(Payload(u), id)
  /\ Stores(u, EntryAdd(Payload(u), e), id, Seen(e))

\* An entry of the relying party takes the new user and key.
PasskeyUpdated(e, text, key) == [e EXCEPT !.text = text, !.key = key]
Passkey(id, rp, text, key) == Entry(id, rp, text, rp, key)

SavePasskey(u, rp, text, key) ==
  /\ Unlocked(u) # {}
  /\ LET p == Payload(u) IN
        \/ \E i \in FindPasskey(p, rp) :
             LET e == PasskeyUpdated(p.entries[i], text, key) IN
             Stores(u, EntryUpdate(p, e.id, e), e.id, Seen(e))
        \/ /\ FindPasskey(p, rp) = {}
           /\ \E id \in FreshUuids :
                LET e == Passkey(id, rp, text, key) IN
                RoomFor(p, id) /\ Stores(u, EntryAdd(p, e), id, Seen(e))

\* The id is made from the time; an entry that has it is not replaced.
ImportTOTP(u, id, text) ==
  LET e == Entry(id, NoUrl, text, None, None) IN
  /\ Unlocked(u) # {} /\ ~Has(Payload(u), id) /\ RoomFor(Payload(u), id)
  /\ Stores(u, EntryAdd(Payload(u), e), id, Seen(e))

DeleteEntry(u, id) ==
  /\ Unlocked(u) # {} /\ Has(Payload(u), id)
  /\ Stores(u, EntryRemove(Payload(u), id), id, Absent)

\* Sets the url of the entry, not its list of urls; no url means no change.
UpdateEntry(u, id, url, text) ==
  /\ Unlocked(u) # {} /\ Has(Payload(u), id)
  /\ LET e == Get(Payload(u), id)
         new == [e EXCEPT !.url = IF url = NoUrl THEN @ ELSE url, !.text = text]
     IN Stores(u, EntryUpdate(Payload(u), id, new), id, Seen(new))

RestoreFromRevision(e, rev) ==
  [e EXCEPT !.url = rev.url, !.text = rev.text,
            !.urls = IF rev.url = NoUrl THEN <<>> ELSE <<rev.url>>]

RestoreEntryRevision(u, id, n) ==
  /\ Unlocked(u) # {} /\ Has(Payload(u), id)
  /\ n \in DOMAIN Get(Payload(u), id).history
  /\ LET e == Get(Payload(u), id)
         new == RestoreFromRevision(e, e.history[n])
     IN Stores(u, EntryUpdate(Payload(u), id, new), id, Seen(new))

-----------------------------------------------------------------------------
Changes(u) ==
  \/ \E url \in load.urls, text \in load.texts : SaveCredential(u, url, text)
  \/ \E rp \in load.rps, text \in load.texts, key \in load.keys : SavePasskey(u, rp, text, key)
  \/ \E id \in TotpIds \cap load.ids, text \in load.texts : ImportTOTP(u, id, text)
  \/ \E id \in load.ids : DeleteEntry(u, id)
  \/ \E id \in load.ids, url \in load.urls \cup {NoUrl}, text \in load.texts : UpdateEntry(u, id, url, text)
  \/ \E id \in load.ids, n \in 1..MaxHistory : RestoreEntryRevision(u, id, n)

Queries(u) ==
  \/ SearchCredentials(u) \/ GetAllCredentials(u) \/ ListPasskeys(u)
  \/ SearchAdvanced(u) \/ Search(u) \/ ListGroups(u)
  \/ \E url \in load.urls : GetCredential(u, url)
  \/ \E rp \in load.rps : GetPasskey(u, rp)
  \/ \E id \in load.ids : GetEntry(u, id) \/ GetEntryHistory(u, id)
                     \/ ListEntryAttachments(u, id) \/ GetTOTP(u, id)

Next ==
  \/ \E u \in load.users : \/ \E w \in load.wraps : SealWrappingKey(u, w)
                      \/ \E mode \in load.modes, w \in load.wraps : VaultCreate(u, mode, w)
                      \/ AlreadyUnlocked(u) \/ AutoUnlock(u) \/ Status(u) \/ LockVault(u)
                      \/ Changes(u) \/ Queries(u)
  \/ SessionLock \/ CheckVaultIdleTimeout \/ Tick \/ Restart
  \/ \E t \in load.timeouts : Reload(t)

\* Time passes and the timer of the main loop fires.
Spec == Init /\ [][Next]_vars /\ WF_vars(Tick) /\ WF_vars(CheckVaultIdleTimeout)

-----------------------------------------------------------------------------
(* Properties.                                                              *)

\* What the workloads draw from.
Urls == (UNION {l.urls : l \in Loads}) \cup (UNION {l.rps : l \in Loads}) \cup {NoUrl}
Texts == UNION {l.texts : l \in Loads}
Rps == (UNION {l.rps : l \in Loads}) \cup {None}
Passkeys == (UNION {l.keys : l \in Loads}) \cup {None}
Wraps == UNION {l.wraps : l \in Loads}
Modes == UNION {l.modes : l \in Loads}

Revisions == [url : Urls, text : Texts]
Entries == [id : Ids, url : Urls, urls : Seq(Urls), text : Texts, rp : Rps, key : Passkeys,
            history : Seq(Revisions)]
Payloads == [entries : Seq(Entries), rest : BOOLEAN]
Handles == [uid : Users, mode : Modes, seq : Nat, key : Wraps \cup {None},
            payload : Payloads \cup {None}, idle : Nat]
VaultFiles == [mode : Modes, key : Wraps \cup {Secret}, seq : Nat, payload : Payloads]
Contents == [url : Urls, text : Texts, key : Passkeys]

\* None is none of the values it stands in for.
ASSUME NoneAssumption ==
  /\ None \notin Payloads /\ None \notin Handles /\ None \notin VaultFiles
  /\ None \notin Contents /\ None \notin [Ids -> Contents \cup {None}]

\* Slots hold a vault of a user; only an unlocked one has a key and a payload.
TypeOK ==
  /\ load \in Loads
  /\ disk \in [Users -> VaultFiles \cup {None}]
  /\ sidecar \in [Users -> Wraps \cup {None}]
  /\ vaults \in [Slots -> Handles \cup {None}]
  /\ \A i \in Slots : vaults[i] # None =>
       /\ (vaults[i].key = None) = (vaults[i].payload = None)
       /\ vaults[i].seq \in 1..load.seq /\ vaults[i].idle \in 0..load.idle
  /\ timeout \in load.timeouts /\ timer \in BOOLEAN
  /\ may \in [Users -> [Ids -> SUBSET (Contents \cup {Absent})]]

\* The same but for the url.
Agree(v, w) ==
  v = w \/ (v # Absent /\ w # Absent /\ v.text = w.text /\ v.key = w.key)

\* What SaveCredential, SavePasskey, UpdateEntry, DeleteEntry and the others
\* acknowledged is in the file, whatever saves of other entries failed, and
\* whenever the daemon ended; an answer that was an error or never came leaves
\* the old or the new contents.  (The url is left
\* out: UpdateEntry sets it where the copy of the entry does not keep it.)
AckedOnDisk ==
  \A u \in Users, id \in Ids : disk[u] # None =>
    \E v \in may[u][id] : Agree(Value(disk[u].payload, id), v)

\* SavePasskey never leaves two passkeys for one relying party, in memory or in
\* the file, so GetPasskey always finds the last key saved.
PasskeysUnique ==
  LET OneFor(p, rp) == \A i, j \in DOMAIN p.entries :
                         (p.entries[i].rp = rp /\ p.entries[j].rp = rp) => i = j IN
  \A rp \in load.rps :
    /\ \A u \in Users : disk[u] # None => OneFor(disk[u].payload, rp)
    /\ \A i \in AllUnlocked : OneFor(vaults[i].payload, rp)

\* Slots and files keep their shape, hold what was acknowledged and no passkey
\* twice.
StoreConsistent == TypeOK /\ AckedOnDisk /\ PasskeysUnique

\* pm_vault_entry_update keeps what it overwrites: an entry that changes has its
\* former title, user name, password and url as the last revision, also when
\* the history is full.
Latest(history) == history[Len(history)]
HistoryRecorded(u) ==
  (Unlocked(u) # {} /\ Unlocked(u)' # {}) =>
    \A id \in Ids :
      (Has(Payload(u), id) /\ Has(Payload(u)', id) /\ Get(Payload(u)', id) # Get(Payload(u), id)) =>
        /\ Get(Payload(u)', id).history # <<>>
        /\ Latest(Get(Payload(u)', id).history) = RevisionFromEntry(Get(Payload(u), id))
HistoryRecords == [][\A u \in Users : HistoryRecorded(u)]_vars

\* When the last Locked signal of the daemon said unlocked, a vault is unlocked:
\* no path that locks or closes vaults forgets the signal.
AnnouncedUnlockedIsReal == announced = "unlocked" => AllUnlocked # {}

\* A save of the daemon never writes a file with a sequence number that is not
\* larger than the one it replaces, although the handle reads the number once,
\* when it is opened, and the file may be created anew meanwhile.
SequenceGrown(u) ==
  (disk[u] # None /\ Unlocked(u) # {} /\ disk'[u] # disk[u]) =>
    disk'[u].seq > disk[u].seq \/ disk'[u].payload = NewPayload
SequenceGrows == [][\A u \in Users : SequenceGrown(u)]_vars

\* A change of an entry adds to its history and a save to the sequence.
ChangesAreRecorded == HistoryRecords /\ SequenceGrows

\* An idle time of zero again, or an unlock.
NotUsed ==
  \A i \in Slots : (vaults'[i] # None /\ vaults'[i].payload # None) =>
    /\ vaults[i] # None /\ vaults[i].payload # None
    /\ vaults'[i].idle >= vaults[i].idle

\* check_vault_idle_timeout: once no vault is used any more, all of them get
\* locked, provided the timer was created and the timeout stays positive.
IdleLocks ==
  (<>[][NotUsed]_vars /\ <>[](timer /\ timeout > 0)) => <>[](AllUnlocked = {})

\* The vault of a user keeps the promise: what is stored changes only by whole
\* changes of one entry, an unlocked vault shows what was stored plus the
\* changes since, and users do not touch each other's vaults.
Table(p) == [id \in Ids |-> Value(p, id)]
Promise == INSTANCE VaultPromise WITH
  Locked <- None,
  stored <- [u \in Users |-> IF disk[u] = None THEN [id \in Ids |-> Absent]
                                               ELSE Table(disk[u].payload)],
  view <- [u \in Users |-> IF Unlocked(u) = {} THEN None ELSE Table(Payload(u))]
ImplementsPromise == Promise!Spec
=============================================================================
