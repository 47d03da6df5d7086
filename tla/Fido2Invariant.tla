--------------------------- MODULE Fido2Invariant --------------------------
(***************************************************************************)
(* Fido2: the inductive invariant that ties the context, credentials.bin,   *)
(* the wrap keys and what clients have been told together, and the steps    *)
(* that keep the saved part of it: here the commands that change the PIN    *)
(* and the end of the process.  Fido2Steps has the commands that change     *)
(* credentials and the start of the process, Fido2Proofs the other steps    *)
(* and the theorems.                                                        *)
(***************************************************************************)
EXTENDS Fido2, TLAPS

USE SMTT(30), ZenonT(30)

-----------------------------------------------------------------------------
(* Slots in the order of the table.                                         *)

LEMMA SlotIsNat ==
  /\ MaxCredentials \in Nat \ {0}
  /\ \A s \in Slots : s \in Nat /\ s > 0
  <1>1. MaxCredentials \in Nat \ {0}  BY Fido2Assumption, Zenon
  <1> QED  BY <1>1 DEF Slots

\* What the steps below use of the number and the order of slots.  They take it
\* as an assumption; Fido2Proofs derives it from the theorems on finite sets.
Counts ==
  /\ \A n \in 0..MaxCredentials : Cardinality(1..n) = n
  /\ \A S \in SUBSET Slots :
       /\ IsFiniteSet(S) /\ Cardinality(S) \in Nat /\ Cardinality(S) <= MaxCredentials
       /\ S = {} <=> Cardinality(S) = 0
       /\ S # {} => First(S) \in S /\ \A s \in S : First(S) <= s
       /\ \A s \in S : Cardinality(S \ {s}) = Cardinality(S) - 1
       /\ \A s \in Slots \ S : Cardinality(S \cup {s}) = Cardinality(S) + 1
       /\ InOrder(S) \in [1..Cardinality(S) -> S] /\ InOrder(S) \in Seq(S)
       /\ Len(InOrder(S)) = Cardinality(S)
       /\ \A i, j \in 1..Cardinality(S) : InOrder(S)[i] = InOrder(S)[j] => i = j
       /\ Range(InOrder(S)) = S

\* Its parts, cited one by one.
LEMMA SlotsFinite ==
  ASSUME Counts, NEW S \in SUBSET Slots
  PROVE  /\ IsFiniteSet(S) /\ Cardinality(S) \in Nat
         /\ Cardinality(S) <= MaxCredentials
         /\ S = {} <=> Cardinality(S) = 0
  BY Zenon DEF Counts
LEMMA InOrderIs ==
  ASSUME Counts, NEW S \in SUBSET Slots
  PROVE  /\ InOrder(S) \in [1..Cardinality(S) -> S] /\ InOrder(S) \in Seq(S)
         /\ Len(InOrder(S)) = Cardinality(S)
         /\ \A i, j \in 1..Cardinality(S) : InOrder(S)[i] = InOrder(S)[j] => i = j
         /\ Range(InOrder(S)) = S
  BY Zenon DEF Counts
LEMMA FirstIs ==
  ASSUME Counts, NEW S \in SUBSET Slots, S # {}
  PROVE  First(S) \in S /\ \A s \in S : First(S) <= s
  BY Zenon DEF Counts

-----------------------------------------------------------------------------
(* The file.                                                                *)

\* What is in use is not free, and a file with a magic number is a file.
LEMMA RecordsDiffer ==
  /\ \A k \in Credential : k # Free
  /\ \A f \in File : f # NoFile
  <1>1. \A k \in Credential : k.id # 0  BY Fido2Assumption DEF Credential, Ids
  <1>2. Free.id = 0  BY Zenon DEF Free
  <1>3. ASSUME NEW f \in File  PROVE f # NoFile
    <2>1. "pin" \in DOMAIN f  BY Zenon DEF File
    <2>2. "pin" \notin DOMAIN NoFile  BY Zenon DEF NoFile
    <2> QED  BY <2>1, <2>2, Zenon
  <1> QED  BY <1>1, <1>2, <1>3, Zenon

\* What is read of a file: its entries, as many as the header, the file and the
\* table have room for.
LEMMA EntriesIs ==
  ASSUME Counts, NEW f \in File
  PROVE  \E n \in 0..MaxCredentials :
           /\ n <= f.count /\ n <= Len(f.credentials)
           /\ n = f.count \/ n = Len(f.credentials) \/ n = MaxCredentials
           /\ Entries(f) \in Ctx
           /\ Entries(f).count = n /\ Entries(f).global = f.global /\ Entries(f).pin = f.pin
           /\ InUse(Entries(f)) = 1..n /\ Cardinality(InUse(Entries(f))) = n
           /\ \A s \in 1..n : Entries(f).credentials[s] = f.credentials[s]
  <1> DEFINE S == {f.count, Len(f.credentials), MaxCredentials}
             n == First(S)
  <1>1. /\ f.count \in Nat /\ Len(f.credentials) \in Nat /\ MaxCredentials \in Nat
        /\ f.credentials \in Seq(Credential) /\ f.global \in 0..MaxCount /\ f.pin \in Pin
    BY SlotIsNat DEF File
  <1> USE <1>1
  <1>2. n \in S /\ \A t \in S : n <= t
    <2>1. \E x \in S : \A t \in S : x <= t  OBVIOUS
    <2> QED  BY <2>1, Zenon DEF First
  <1>3. n \in 0..MaxCredentials /\ n <= f.count /\ n <= Len(f.credentials)
    BY <1>2
  <1> USE <1>3
  <1>4. Entries(f) = [credentials |-> [s \in Slots |-> IF s <= n THEN f.credentials[s] ELSE Free],
                      count |-> n, global |-> f.global, pin |-> f.pin]
    BY Zenon DEF Entries
  <1> USE <1>4
  <1>5. n = f.count \/ n = Len(f.credentials) \/ n = MaxCredentials
    BY <1>2, Zenon
  <1> HIDE DEF n
  <1>6. \A s \in 1..n : s \in Slots /\ f.credentials[s] \in Credential
    BY DEF Slots
  <1> USE <1>6
  <1>7. \A s \in Slots : s <= n <=> s \in 1..n  BY SlotIsNat
  <1> USE <1>7
  <1>8. Entries(f) \in Ctx
    BY DEF Ctx
  <1>9. InUse(Entries(f)) = 1..n
    BY RecordsDiffer DEF InUse
  <1>10. Cardinality(InUse(Entries(f))) = n  BY <1>9, Zenon DEF Counts
  <1>11. Entries(f).count = n /\ Entries(f).global = f.global /\ Entries(f).pin = f.pin
    OBVIOUS
  <1>12. \A s \in 1..n : Entries(f).credentials[s] = f.credentials[s]
    OBVIOUS
  <1> QED  BY <1>5, <1>8, <1>9, <1>10, <1>11, <1>12, Zenon

\* What a save writes.
LEMMA ImageIs ==
  ASSUME Counts, NEW c \in Ctx, keys.wrap \in Keys
  PROVE  /\ Image(c) \in File
         /\ Image(c).key = keys.wrap /\ Image(c).pin = c.pin
         /\ Image(c).count = c.count /\ Image(c).global = c.global
         /\ Len(Image(c).credentials) = Cardinality(InUse(c))
         /\ \A i \in 1..Cardinality(InUse(c)) :
              /\ InOrder(InUse(c))[i] \in InUse(c)
              /\ Image(c).credentials[i] = c.credentials[InOrder(InUse(c))[i]]
         /\ Range(Image(c).credentials) = {c.credentials[s] : s \in InUse(c)}
  <1> DEFINE U == InUse(c)
             n == Cardinality(U)
             q == InOrder(U)
             table == [i \in 1..n |-> c.credentials[q[i]]]
  <1>1. U \in SUBSET Slots  BY Zenon DEF InUse
  <1>2. n \in Nat  BY <1>1, SlotsFinite, Zenon
  <1>3. /\ q \in [1..n -> U] /\ q \in Seq(U) /\ Len(q) = n /\ Range(q) = U
    BY <1>1, InOrderIs, Zenon
  <1> USE <1>3
  <1>4. \A s \in U : c.credentials[s] \in Credential  BY Zenon DEF InUse, Ctx
  <1>5. Image(c) = [key |-> keys.wrap, pin |-> c.pin, count |-> c.count, global |-> c.global,
                    credentials |-> table]
    BY Zenon DEF Image
  <1> HIDE DEF U, n, q
  <1>6. table \in Seq(Credential) /\ Len(table) = n
    <2>1. \A i \in 1..n : table[i] \in Credential  BY <1>4, Zenon
    <2>2. table \in [1..n -> Credential]  BY <2>1, Zenon
    <2> QED  BY <1>2, <2>2
  <1>7. Range(table) = {c.credentials[s] : s \in U}
    BY DEF Range
  <1> HIDE DEF table
  <1>8. Image(c) \in File  BY <1>5, <1>6 DEF File, Ctx
  <1>9. \A i \in 1..n : q[i] \in U /\ table[i] = c.credentials[q[i]]  BY Zenon DEF table
  <1> QED  BY <1>5, <1>6, <1>7, <1>8, <1>9 DEF U, n, q

-----------------------------------------------------------------------------
(* The invariant.                                                           *)

Safe == KeyKept /\ "save" \notin env.faults

\* The wrap key that a start finds, 0 if it makes one.
Held == IF keys.sealed # 0 THEN keys.sealed ELSE keys.raw

\* The key of the file is the one in use, and the one the next start will use.
KeysOk ==
  KeyKept => /\ file # NoFile => file.key \in {0, Held}
             /\ up => keys.wrap = Held /\ Held # 0
             /\ env.old => Held # 0

\* What a start would load from the file.
Content(f) == IF f = NoFile THEN Blank ELSE Entries(f)

\* No entry of the file will be left out.
FileShape ==
  file # NoFile => Len(file.credentials) <= file.count /\ Len(file.credentials) <= MaxCredentials

\* Every wrong PIN has cost a try.
TriesGood(c, w) == w + c.pin.retries <= MaxRetries

\* Credentials have IDs that were given out, each its own, and no counter is
\* behind what was shown.
CountersGood(c, n, sh) ==
  /\ \A s \in InUse(c) : /\ c.credentials[s].id <= n
                         /\ sh.own[c.credentials[s].id] <= c.credentials[s].count
  /\ \A s, t \in InUse(c) : c.credentials[s].id = c.credentials[t].id => s = t
  /\ sh.global <= c.global

\* A context, in memory or on disk, agrees with what clients have been told.
Book(c) ==
  /\ c.pin.retries = 0 => c.pin.blocked
  /\ KeyKept => c.pin.hash \in accepted
  /\ Safe => TriesGood(c, wrong) /\ CountersGood(c, Len(issued), shown)

\* IDs not given out yet have not been used.
Unshown == Safe => \A i \in Ids : i > Len(issued) => shown.own[i] = 0

CoreTypes ==
  /\ env \in Environments /\ up \in BOOLEAN /\ early \in BOOLEAN
  /\ ctx \in Ctx
  /\ file \in File \cup {NoFile}
  /\ keys \in [wrap : Keys, sealed : Keys, raw : Keys]
  /\ starts \in 0..MaxStarts
HistoryTypes ==
  /\ issued \in Seq([rp : Rps, key : Keys]) /\ Len(issued) <= MaxIds
  /\ accepted \subseteq Pins \cup {NoPin} /\ wrong \in Nat
  /\ shown \in [own : [Ids -> 0..MaxCount], global : 0..MaxCount]

Core ==
  /\ CoreTypes /\ HistoryTypes
  /\ KeysOk /\ FileShape
  /\ up => Book(ctx)
  /\ Book(Content(file))
  /\ CountCoversTable /\ StateIsOnDisk /\ Unshown

Bio == [left : [Templates -> 0..Unused], count : Nat, active : 0..MaxTemplates]
Taken(b) == {t \in Templates : b.left[t] # Unused}
Incomplete(b) == {t \in Templates : b.left[t] \in 1..Samples}
BioGood(b) ==
  /\ b \in Bio
  /\ Incomplete(b) = IF b.active = 0 THEN {} ELSE {b.active}
  /\ b.count = Cardinality(Taken(b))

\* What is not saved: pending assertions and enumerations, and the templates.
Sides ==
  /\ assertion \in [rp : Rps \cup {NoRp}, rest : Seq(Slots)]
  /\ enum \in [rps : Seq(Rps), rp : Rps \cup {NoRp}, slots : Seq(Slots)]
  /\ ~up => assertion = NoAssertion /\ enum = NoEnum
  /\ NextIsOfSameRp /\ EnumerationIsLive
  /\ BioGood(bio)

Fido2Inv == Core /\ Sides

-----------------------------------------------------------------------------
(* Saving and loading.                                                      *)

LEMMA BlankIs ==
  ASSUME Counts
  PROVE
  /\ Blank \in Ctx /\ InUse(Blank) = {} /\ Cardinality(InUse(Blank)) = 0
  /\ Blank.count = 0 /\ Blank.global = 0
  /\ Blank.pin = NewPin /\ NewPin \in Pin /\ NewPin.hash = NoPin
  /\ NewPin.retries = MaxRetries /\ NewPin.blocked = FALSE /\ MaxRetries \in Nat \ {0}
  <1>1. MaxRetries \in Nat \ {0} /\ MaxCount \in Nat  BY Fido2Assumption, Zenon
  <1> USE <1>1
  <1>2. NewPin \in Pin  BY DEF NewPin, Pin
  <1>3. Blank \in Ctx  BY <1>2 DEF Blank, Ctx
  <1>4. InUse(Blank) = {}  BY Zenon DEF InUse, Blank
  <1>5. Cardinality(InUse(Blank)) = 0  BY <1>4, SlotsFinite, Zenon
  <1> QED  BY <1>2, <1>3, <1>4, <1>5, Zenon DEF Blank, NewPin

\* A save and a load give back the same PIN, counters and credentials, moved to
\* the front of the table.
LEMMA Compacted ==
  ASSUME Counts, NEW c \in Ctx, keys.wrap \in Keys, Cardinality(InUse(c)) <= c.count
  PROVE  /\ Content(Image(c)) = Entries(Image(c))
         /\ Entries(Image(c)) \in Ctx
         /\ Entries(Image(c)).pin = c.pin /\ Entries(Image(c)).global = c.global
         /\ \A n, sh : CountersGood(c, n, sh) => CountersGood(Entries(Image(c)), n, sh)
  <1> DEFINE f == Image(c)
             e == Entries(f)
             U == InUse(c)
             q == InOrder(U)
  <1>1. /\ f \in File /\ f.pin = c.pin /\ f.count = c.count /\ f.global = c.global
        /\ Len(f.credentials) = Cardinality(U)
        /\ \A i \in 1..Cardinality(U) : q[i] \in U /\ f.credentials[i] = c.credentials[q[i]]
    BY ImageIs, Zenon
  <1> USE <1>1
  <1>2. U \in SUBSET Slots  BY Zenon DEF InUse
  <1>3. Cardinality(U) \in Nat /\ Cardinality(U) <= MaxCredentials  BY <1>2, SlotsFinite, Zenon
  <1>4. \A i, j \in 1..Cardinality(U) : q[i] = q[j] => i = j  BY <1>2, InOrderIs, Zenon
  <1>5. PICK n \in 0..MaxCredentials :
           /\ n <= f.count /\ n <= Len(f.credentials)
           /\ n = f.count \/ n = Len(f.credentials) \/ n = MaxCredentials
           /\ e \in Ctx
           /\ e.count = n /\ e.global = f.global /\ e.pin = f.pin
           /\ InUse(e) = 1..n
           /\ \A s \in 1..n : e.credentials[s] = f.credentials[s]
    BY EntriesIs, Zenon
  <1> USE <1>5
  <1>6. f # NoFile  BY RecordsDiffer, Zenon
  <1>7. c.count \in Nat  BY Zenon DEF Ctx
  <1>8. n = Cardinality(U)  BY <1>3, <1>7, SlotIsNat
  <1>9. Content(f) = e  BY <1>6, Zenon DEF Content
  <1> HIDE DEF f, e, U, q
  <1>10. ASSUME NEW m, NEW sh, CountersGood(c, m, sh)  PROVE CountersGood(e, m, sh)
    <2>1. \A s \in InUse(e) : q[s] \in U /\ e.credentials[s] = c.credentials[q[s]]
      BY <1>8, Zenon
    <2>2. \A s, t \in InUse(e) : q[s] = q[t] => s = t  BY <1>4, <1>8, Zenon
    <2> DEFINE old == c.credentials
               new == e.credentials
    <2>3. /\ \A s \in U : old[s].id <= m /\ sh.own[old[s].id] <= old[s].count
          /\ \A s, t \in U : old[s].id = old[t].id => s = t
          /\ sh.global <= e.global
      BY <1>10, Zenon DEF CountersGood, U
    <2> USE <2>3
    <2> HIDE DEF old, new
    <2>4. \A s \in InUse(e) : q[s] \in U /\ new[s] = old[q[s]]  BY <2>1, Zenon DEF old, new
    <2>5. ASSUME NEW s \in InUse(e)  PROVE new[s].id <= m /\ sh.own[new[s].id] <= new[s].count
      BY <2>4, Zenon
    <2>6. ASSUME NEW s \in InUse(e), NEW t \in InUse(e), new[s].id = new[t].id  PROVE s = t
      <3>1. q[s] \in U /\ q[t] \in U /\ old[q[s]].id = old[q[t]].id  BY <2>4, <2>6, Zenon
      <3>2. q[s] = q[t]  BY <3>1, Zenon
      <3> QED  BY <2>2, <3>2, Zenon
    <2> QED  BY <2>5, <2>6, Zenon DEF CountersGood, new
  <1> QED  BY <1>9, <1>10, Zenon DEF f, e

\* A command: the context it leaves is in order, and either it is saved or the
\* file is in order still.
Edits ==
  /\ up /\ up' /\ early' \in BOOLEAN /\ UNCHANGED <<env, keys, starts>>
  /\ ctx' \in Ctx
  /\ HistoryTypes'
  /\ Book(ctx)' /\ CountCoversTable' /\ Unshown'
  /\ \/ file' = Image(ctx')
     \/ /\ file' = file /\ Book(Content(file))'
        /\ env.faults = {} =>
             /\ ctx'.credentials = ctx.credentials
             /\ ctx'.pin.hash = ctx.pin.hash /\ ctx'.pin.blocked = ctx.pin.blocked
             /\ ctx.pin.retries <= ctx'.pin.retries /\ ctx.global <= ctx'.global

LEMMA EditsCore ==
  ASSUME Counts, Core, Edits
  PROVE  Core'
  <1>1. keys.wrap \in Keys /\ ctx \in Ctx /\ ctx' \in Ctx /\ env \in Environments
    BY Zenon DEF Core, CoreTypes, Edits
  <1> USE <1>1
  <1>2. KeyKept' = KeyKept /\ Held' = Held /\ Safe' = Safe
    BY Zenon DEF Edits, KeyKept, Held, Safe
  <1>3. CASE file' = file /\ file' # Image(ctx')
    <2> USE <1>3
    <2>1. CoreTypes' /\ KeysOk' /\ FileShape'
      BY <1>2, Zenon DEF Core, CoreTypes, KeysOk, FileShape, Edits
    <2>2. StateIsOnDisk'
      <3> SUFFICES ASSUME env.faults = {}, file # NoFile
                   PROVE  /\ file.key \in {0, keys.wrap}
                          /\ Range(file.credentials) = {ctx'.credentials[s] : s \in InUse(ctx')}
                          /\ file.pin.hash = ctx'.pin.hash /\ file.pin.blocked = ctx'.pin.blocked
                          /\ file.pin.retries <= ctx'.pin.retries /\ file.global <= ctx'.global
        BY Zenon DEF StateIsOnDisk, Edits
      <3>1. /\ file.key \in {0, keys.wrap}
            /\ Range(file.credentials) = {ctx.credentials[s] : s \in InUse(ctx)}
            /\ file.pin.hash = ctx.pin.hash /\ file.pin.blocked = ctx.pin.blocked
            /\ file.pin.retries <= ctx.pin.retries /\ file.global <= ctx.global
        BY Zenon DEF Core, StateIsOnDisk, Edits
      <3>2. /\ ctx'.credentials = ctx.credentials
            /\ ctx'.pin.hash = ctx.pin.hash /\ ctx'.pin.blocked = ctx.pin.blocked
            /\ ctx.pin.retries <= ctx'.pin.retries /\ ctx.global <= ctx'.global
        BY Zenon DEF Edits
      <3>3. InUse(ctx') = InUse(ctx)  BY <3>2, Zenon DEF InUse
      <3>4. file \in File  BY Zenon DEF Core, CoreTypes
      <3>5. /\ file.pin.retries \in Nat /\ ctx.pin.retries \in Nat /\ ctx'.pin.retries \in Nat
            /\ file.global \in Nat /\ ctx.global \in Nat /\ ctx'.global \in Nat
        <4>1. MaxRetries \in Nat /\ MaxCount \in Nat  BY Fido2Assumption, Zenon
        <4>2. \A p \in Pin : p.retries \in 0..MaxRetries  BY Zenon DEF Pin
        <4>3. file.pin \in Pin /\ file.global \in 0..MaxCount  BY <3>4, Zenon DEF File
        <4>4. \A c \in Ctx : c.pin \in Pin /\ c.global \in 0..MaxCount  BY Zenon DEF Ctx
        <4> QED  BY <4>1, <4>2, <4>3, <4>4
      <3> QED  BY <3>1, <3>2, <3>3, <3>5
    <2> QED  BY <2>1, <2>2, Zenon DEF Core, Edits
  <1>4. CASE file' = Image(ctx')
    <2> USE <1>4
    <2>1. Cardinality(InUse(ctx')) <= ctx'.count  BY Zenon DEF Edits, CountCoversTable
    <2>2. /\ Image(ctx') \in File /\ Image(ctx').key = keys.wrap /\ Image(ctx').pin = ctx'.pin
          /\ Image(ctx').count = ctx'.count /\ Image(ctx').global = ctx'.global
          /\ Len(Image(ctx').credentials) = Cardinality(InUse(ctx'))
          /\ Range(Image(ctx').credentials) = {ctx'.credentials[s] : s \in InUse(ctx')}
      BY ImageIs, Zenon
    <2> USE <2>2
    <2>3. InUse(ctx') \in SUBSET Slots  BY Zenon DEF InUse
    <2>4. Cardinality(InUse(ctx')) <= MaxCredentials  BY <2>3, SlotsFinite, Zenon
    <2>5. CoreTypes'  BY Zenon DEF Core, CoreTypes, Edits
    <2>6. KeysOk'  BY <1>2, Zenon DEF Core, KeysOk, Edits
    <2>7. FileShape'  BY <2>1, <2>4, Zenon DEF FileShape
    <2>8. Book(Content(file))'
      <3>1. /\ Content(Image(ctx')) = Entries(Image(ctx'))
            /\ Entries(Image(ctx')).pin = ctx'.pin
            /\ \A n, sh : CountersGood(ctx', n, sh) => CountersGood(Entries(Image(ctx')), n, sh)
        BY <2>1, Compacted, Zenon
      <3> DEFINE e == Content(file')
      <3>2. e.pin = ctx'.pin /\ \A n, sh : CountersGood(ctx', n, sh) => CountersGood(e, n, sh)
        BY <3>1, Zenon
      <3> HIDE DEF e
      <3>3. /\ ctx'.pin.retries = 0 => ctx'.pin.blocked
            /\ KeyKept' => ctx'.pin.hash \in accepted'
            /\ Safe' => TriesGood(ctx', wrong') /\ CountersGood(ctx', Len(issued'), shown')
        BY Zenon DEF Edits, Book
      <3>4. /\ e.pin.retries = 0 => e.pin.blocked
            /\ KeyKept' => e.pin.hash \in accepted'
            /\ Safe' => TriesGood(e, wrong') /\ CountersGood(e, Len(issued'), shown')
        BY <3>2, <3>3, Zenon DEF TriesGood
      <3> QED  BY <3>4, Zenon DEF Book, e
    <2>9. StateIsOnDisk'
      <3>1. ctx'.pin.retries \in Nat /\ ctx'.global \in Nat  BY Fido2Assumption DEF Ctx, Pin
      <3> QED  BY <3>1 DEF StateIsOnDisk, Edits
    <2> QED  BY <2>5, <2>6, <2>7, <2>8, <2>9, Zenon DEF Core, Edits
  <1> QED  BY <1>3, <1>4, Zenon DEF Edits

LEMMA SaveResultIs ==
  ASSUME NEW ok \in SaveResults
  PROVE  ok \in BOOLEAN /\ (~ok => "save" \in env.faults)
  BY Zenon DEF SaveResults

-----------------------------------------------------------------------------
(* ClientPIN.                                                               *)

PinRecord(h, r, b) == [hash |-> h, retries |-> r, blocked |-> b]

LEMMA PinEdit ==
  ASSUME NEW c \in Ctx, NEW p \in Pin
  PROVE  /\ [c EXCEPT !.pin = p] \in Ctx
         /\ [c EXCEPT !.pin = p].credentials = c.credentials
         /\ [c EXCEPT !.pin = p].count = c.count
         /\ [c EXCEPT !.pin = p].global = c.global
         /\ [c EXCEPT !.pin = p].pin = p
  BY Zenon DEF Ctx

LEMMA PinRecordIs ==
  ASSUME NEW h \in Pins \cup {NoPin}, NEW r \in 0..MaxRetries, NEW b \in BOOLEAN
  PROVE  /\ PinRecord(h, r, b) \in Pin /\ PinRecord(h, r, b).hash = h
         /\ PinRecord(h, r, b).retries = r /\ PinRecord(h, r, b).blocked = b
  BY Zenon DEF Pin, PinRecord

\* A command that changes nothing but the PIN.
PinStep(p) ==
  /\ up /\ up' /\ UNCHANGED <<env, early, keys, starts, issued, shown>>
  /\ p \in Pin /\ ctx' = [ctx EXCEPT !.pin = p]
  /\ accepted' \subseteq Pins \cup {NoPin} /\ wrong' \in Nat
  /\ KeyKept => p.hash \in accepted'
  /\ p.retries = 0 => p.blocked
  /\ Safe => wrong' + p.retries <= MaxRetries
  /\ \/ file' = Image(ctx')
     \/ /\ file' = file
        /\ KeyKept => Content(file).pin.hash \in accepted'
        /\ Safe => TriesGood(Content(file), wrong')
        /\ env.faults = {} => /\ p.hash = ctx.pin.hash /\ p.blocked = ctx.pin.blocked
                              /\ ctx.pin.retries <= p.retries

LEMMA PinStepEdits ==
  ASSUME Counts, Core, NEW p, PinStep(p)
  PROVE  Edits
  <1>1. ctx \in Ctx /\ p \in Pin /\ ctx.global \in Nat
    BY Fido2Assumption DEF Core, CoreTypes, Ctx, PinStep
  <1>2. /\ ctx' \in Ctx /\ ctx'.credentials = ctx.credentials
        /\ ctx'.count = ctx.count /\ ctx'.global = ctx.global /\ ctx'.pin = p
    BY <1>1, PinEdit, Zenon DEF PinStep
  <1> USE <1>2
  <1>3. KeyKept' = KeyKept /\ Safe' = Safe  BY Zenon DEF KeyKept, Safe, PinStep
  <1> USE <1>3
  <1>4. InUse(ctx') = InUse(ctx)  BY Zenon DEF InUse
  <1>5. HistoryTypes'  BY Zenon DEF Core, HistoryTypes, PinStep
  <1>6. CountCoversTable'  BY <1>4, Zenon DEF Core, CountCoversTable, PinStep
  <1>7. Unshown'  BY Zenon DEF Core, Unshown, PinStep
  <1>8. Book(ctx)'
    <2>1. KeyKept => ctx'.pin.hash \in accepted'  BY Zenon DEF PinStep
    <2>2. Safe => TriesGood(ctx', wrong')  BY Zenon DEF PinStep, TriesGood
    <2>3. Safe => CountersGood(ctx', Len(issued), shown)
      BY <1>4 DEF Core, Book, CountersGood, PinStep
    <2>4. ctx'.pin.retries = 0 => ctx'.pin.blocked  BY Zenon DEF PinStep
    <2> QED  BY <2>1, <2>2, <2>3, <2>4, Zenon DEF Book, PinStep
  <1>9. (file' = file /\ file' # Image(ctx')) => Book(Content(file))'
    <2> SUFFICES ASSUME file' = file, file' # Image(ctx')  PROVE Book(Content(file))'
      BY Zenon
    <2> DEFINE e == Content(file)
    <2>1. e = Content(file')  BY Zenon
    <2>2. Safe => CountersGood(e, Len(issued), shown)  BY Zenon DEF Core, Book
    <2>3. KeyKept => e.pin.hash \in accepted'  BY Zenon DEF PinStep
    <2>4. Safe => TriesGood(e, wrong')  BY Zenon DEF PinStep
    <2>5. e.pin.retries = 0 => e.pin.blocked  BY Zenon DEF Core, Book
    <2> HIDE DEF e
    <2> QED  BY <2>1, <2>2, <2>3, <2>4, <2>5, Zenon DEF Book, PinStep
  <1>10. (file' = file /\ file' # Image(ctx') /\ env.faults = {}) =>
           /\ ctx'.credentials = ctx.credentials
           /\ ctx'.pin.hash = ctx.pin.hash /\ ctx'.pin.blocked = ctx.pin.blocked
           /\ ctx.pin.retries <= ctx'.pin.retries /\ ctx.global <= ctx'.global
    BY <1>1 DEF PinStep
  <1>11. file' = file \/ file' = Image(ctx')  BY Zenon DEF PinStep
  <1>12. up /\ up' /\ early' \in BOOLEAN /\ UNCHANGED <<env, keys, starts>>
    BY Zenon DEF PinStep, Core, CoreTypes
  <1> QED  BY <1>5, <1>6, <1>7, <1>8, <1>9, <1>10, <1>11, <1>12, Zenon DEF Edits

\* What the file holds agrees with the histories as they are.
LEMMA FileBook ==
  ASSUME Counts, Core
  PROVE  /\ KeyKept => Content(file).pin.hash \in accepted
         /\ Safe => TriesGood(Content(file), wrong)
         /\ up => /\ ctx.pin.retries = 0 => ctx.pin.blocked
                  /\ KeyKept => ctx.pin.hash \in accepted
                  /\ Safe => wrong + ctx.pin.retries <= MaxRetries
         /\ ctx \in Ctx /\ ctx.pin \in Pin /\ ctx.pin.retries \in 0..MaxRetries
         /\ ctx.pin.hash \in Pins \cup {NoPin} /\ ctx.pin.blocked \in BOOLEAN
         /\ wrong \in Nat /\ accepted \subseteq Pins \cup {NoPin}
  <1>1. ctx \in Ctx /\ ctx.pin \in Pin  BY Zenon DEF Core, CoreTypes, Ctx
  <1>2. ctx.pin.retries \in 0..MaxRetries /\ ctx.pin.hash \in Pins \cup {NoPin} /\ ctx.pin.blocked \in BOOLEAN
    BY <1>1, Zenon DEF Pin
  <1> QED  BY <1>1, <1>2, Zenon DEF Core, HistoryTypes, Book, TriesGood

LEMMA SetPinEdits ==
  ASSUME Counts, Core, NEW p \in Pins, SetPin(p)
  PROVE  Edits
  <1> DEFINE c == [ctx EXCEPT !.pin.hash = p, !.pin.retries = MaxRetries]
             new(h) == PinRecord(h, MaxRetries, ctx.pin.blocked)
  <1>1. PICK ok \in SaveResults :
           /\ file' = Saved(c, ok)
           /\ ctx' = IF ok THEN c ELSE [c EXCEPT !.pin.hash = NoPin]
           /\ accepted' = IF ok THEN {p} ELSE accepted
           /\ wrong' = IF ok THEN 0 ELSE wrong
    BY Zenon DEF SetPin
  <1>2. ok \in BOOLEAN /\ (~ok => "save" \in env.faults)  BY SaveResultIs, Zenon
  <1>3. ctx \in Ctx /\ ctx.pin \in Pin  BY FileBook, Zenon
  <1> USE <1>3
  <1>4. c = [ctx EXCEPT !.pin = new(p)]
    <2>1. c.pin = new(p)  BY Zenon DEF Ctx, Pin, PinRecord
    <2>2. c = [ctx EXCEPT !.pin = c.pin]  BY Zenon DEF Ctx
    <2> QED  BY <2>1, <2>2, Zenon
  <1> USE <1>4
  <1>5. new(p) \in Pin /\ new(NoPin) \in Pin /\ MaxRetries \in Nat \ {0}
    BY Fido2Assumption DEF Pin, PinRecord
  <1> USE <1>5
  <1>6. \A h : new(h).hash = h /\ new(h).retries = MaxRetries /\ new(h).blocked = ctx.pin.blocked
    BY Zenon DEF PinRecord
  <1> USE <1>6
  <1>7. [c EXCEPT !.pin.hash = NoPin] = [ctx EXCEPT !.pin = new(NoPin)]
    <2> HIDE DEF c, new
    <2> DEFINE d == [c EXCEPT !.pin.hash = NoPin]
    <2>1. c \in Ctx /\ c.pin = new(p)  BY PinEdit, Zenon
    <2> USE <2>1
    <2>2. d.pin = PinRecord(NoPin, c.pin.retries, c.pin.blocked)  BY Zenon DEF Ctx, Pin, PinRecord
    <2>3. d = [c EXCEPT !.pin = d.pin]  BY Zenon DEF Ctx
    <2>4. d.pin = new(NoPin)  BY <2>2, Zenon DEF new
    <2>5. [c EXCEPT !.pin = d.pin] = [ctx EXCEPT !.pin = d.pin]
      BY Zenon DEF Ctx
    <2> QED  BY <2>3, <2>4, <2>5, Zenon
  <1>8. up /\ up' /\ UNCHANGED <<env, early, keys, starts, issued, shown>> /\ ctx.pin.hash = NoPin
    BY Zenon DEF SetPin, Command
  <1> HIDE DEF c, new
  <1>9. CASE ok
    <2>1. PinStep(new(p))  BY <1>1, <1>8, <1>9 DEF PinStep, Saved
    <2> QED  BY <2>1, PinStepEdits, Zenon
  <1>10. CASE ~ok
    <2>1. ~Safe /\ env.faults # {}  BY <1>2, <1>10, Zenon DEF Safe
    <2>2. PinStep(new(NoPin))
      BY <1>1, <1>7, <1>8, <1>10, <2>1, FileBook, Zenon DEF PinStep, Saved
    <2> QED  BY <2>2, PinStepEdits, Zenon
  <1> QED  BY <1>2, <1>9, <1>10, Zenon

LEMMA WrongPinEdits ==
  ASSUME Counts, Core, WrongPin, up, ~ctx.pin.blocked, up',
         UNCHANGED <<env, early, keys, starts, issued, shown>>
  PROVE  Edits
  <1> DEFINE new == PinRecord(ctx.pin.hash, ctx.pin.retries - 1, ctx.pin.retries <= 1)
  <1>1. ctx \in Ctx /\ ctx.pin \in Pin /\ ctx.pin.retries \in 0..MaxRetries /\ MaxRetries \in Nat
    BY FileBook, Fido2Assumption, Zenon
  <1> USE <1>1
  <1>2. ctx.pin.retries # 0  BY FileBook, Zenon
  <1>3. new \in Pin  BY <1>2 DEF Pin, PinRecord
  <1>4. ctx' = [ctx EXCEPT !.pin = new]
    <2>1. ctx'.pin = new  BY Zenon DEF WrongPin, Ctx, Pin, PinRecord
    <2>2. ctx' = [ctx EXCEPT !.pin = ctx'.pin]  BY Zenon DEF WrongPin, Ctx
    <2> QED  BY <2>1, <2>2, Zenon
  <1>5. new.hash = ctx.pin.hash /\ new.retries = ctx.pin.retries - 1 /\ (ctx.pin.retries <= 1 => new.blocked)
    BY Zenon DEF PinRecord
  <1> USE <1>5
  <1>6. PICK ok \in SaveResults : file' = Saved(ctx', ok)  BY Zenon DEF WrongPin, SaveAnyway
  <1>7. ok \in BOOLEAN /\ (~ok => "save" \in env.faults)  BY SaveResultIs, Zenon
  <1>8. wrong \in Nat /\ wrong' = wrong + 1 /\ accepted' = accepted
    BY FileBook, Zenon DEF WrongPin
  <1> USE <1>8
  <1> HIDE DEF new
  <1>9. new.retries = 0 => new.blocked  OBVIOUS
  <1>10. Safe => wrong' + new.retries <= MaxRetries  BY FileBook
  <1>11. KeyKept => new.hash \in accepted'  BY FileBook, Zenon
  <1>12. wrong' \in Nat /\ accepted' \subseteq Pins \cup {NoPin}  BY FileBook
  <1>13. CASE ok
    <2>1. PinStep(new)
      BY <1>3, <1>4, <1>6, <1>9, <1>10, <1>11, <1>12, <1>13, Zenon DEF PinStep, Saved
    <2> QED  BY <2>1, PinStepEdits, Zenon
  <1>14. CASE ~ok
    <2>1. ~Safe /\ env.faults # {}  BY <1>7, <1>14, Zenon DEF Safe
    <2>2. KeyKept => Content(file).pin.hash \in accepted'  BY FileBook, Zenon
    <2>3. PinStep(new)
      BY <1>3, <1>4, <1>6, <1>9, <1>11, <1>12, <1>14, <2>1, <2>2, Zenon DEF PinStep, Saved
    <2> QED  BY <2>3, PinStepEdits, Zenon
  <1> QED  BY <1>7, <1>13, <1>14, Zenon

LEMMA GetPinTokenEdits ==
  ASSUME Counts, Core, NEW p \in Pins, GetPinToken(p)
  PROVE  Edits
  <1>1. /\ up /\ up' /\ UNCHANGED <<env, early, keys, starts, issued, shown>>
        /\ ctx.pin.hash # NoPin /\ ~ctx.pin.blocked
    BY Zenon DEF GetPinToken, Command
  <1> USE <1>1
  <1>2. CASE WrongPin  BY <1>2, WrongPinEdits, Zenon
  <1>3. CASE /\ ctx' = [ctx EXCEPT !.pin.retries = MaxRetries]
             /\ wrong' = 0 /\ UNCHANGED <<file, accepted>>
    <2> USE <1>3
    <2> DEFINE new == PinRecord(ctx.pin.hash, MaxRetries, ctx.pin.blocked)
    <2>1. /\ ctx \in Ctx /\ ctx.pin \in Pin /\ ctx.pin.retries \in 0..MaxRetries
          /\ MaxRetries \in Nat \ {0} /\ wrong \in Nat
      BY FileBook, Fido2Assumption, Zenon
    <2> USE <2>1
    <2>2. new \in Pin  BY DEF Pin, PinRecord
    <2>3. ctx' = [ctx EXCEPT !.pin = new]
      <3>1. ctx'.pin = new  BY Zenon DEF Ctx, Pin, PinRecord
      <3>2. ctx' = [ctx EXCEPT !.pin = ctx'.pin]  BY Zenon DEF Ctx
      <3> QED  BY <3>1, <3>2, Zenon
    <2>4. new.hash = ctx.pin.hash /\ new.retries = MaxRetries /\ new.blocked = ctx.pin.blocked
      BY Zenon DEF PinRecord
    <2> HIDE DEF new
    <2>5. Content(file).pin.retries \in Nat
      <3>1. CASE file = NoFile  BY <3>1, BlankIs, Zenon DEF Content
      <3>2. CASE file # NoFile
        <4>1. file \in File  BY <3>2, Zenon DEF Core, CoreTypes
        <4>2. Content(file).pin = file.pin  BY <3>2, Zenon DEF Content, Entries
        <4> QED  BY <4>1, <4>2 DEF File, Pin
      <3> QED  BY <3>1, <3>2, Zenon
    <2>6. Safe => TriesGood(Content(file), wrong')
      BY <2>5, FileBook DEF TriesGood
    <2>7. /\ accepted' \subseteq Pins \cup {NoPin}
          /\ KeyKept => new.hash \in accepted'
          /\ KeyKept => Content(file).pin.hash \in accepted'
      BY <2>4, FileBook, Zenon
    <2>8. PinStep(new)
      BY <2>2, <2>3, <2>4, <2>6, <2>7 DEF PinStep
    <2> QED  BY <2>8, PinStepEdits, Zenon
  <1> QED  BY <1>2, <1>3, Zenon DEF GetPinToken

LEMMA ChangePinEdits ==
  ASSUME Counts, Core, NEW old \in Pins, NEW p \in Pins, ChangePin(old, p)
  PROVE  Edits
  <1>1. /\ up /\ up' /\ UNCHANGED <<env, early, keys, starts, issued, shown>>
        /\ ctx.pin.hash # NoPin /\ ~ctx.pin.blocked
    BY Zenon DEF ChangePin, Command
  <1> USE <1>1
  <1>2. CASE WrongPin  BY <1>2, WrongPinEdits, Zenon
  <1>3. CASE ReplacePin(p)
    <2> DEFINE new == [NewPin EXCEPT !.hash = p]
               c == [ctx EXCEPT !.pin = new]
    <2>1. PICK ok \in SaveResults :
             /\ file' = Saved(c, ok)
             /\ ctx' = IF ok THEN c ELSE ctx
             /\ accepted' = IF ok THEN {p} ELSE accepted
             /\ wrong' = IF ok THEN 0 ELSE wrong
      BY <1>3, Zenon DEF ReplacePin
    <2>2. ok \in BOOLEAN /\ (~ok => "save" \in env.faults)  BY SaveResultIs, Zenon
    <2>3. /\ new \in Pin /\ new.hash = p /\ new.retries = MaxRetries
          /\ new.blocked = FALSE /\ MaxRetries \in Nat \ {0}
      BY BlankIs, Zenon DEF Pin
    <2>4. ctx \in Ctx  BY FileBook, Zenon
    <2> HIDE DEF new
    <2>5. CASE ok
      <3>1. PinStep(new)  BY <2>1, <2>3, <2>5 DEF PinStep, Saved
      <3> QED  BY <3>1, PinStepEdits, Zenon
    <2>6. CASE ~ok
      <3>1. ~Safe /\ env.faults # {}  BY <2>2, <2>6, Zenon DEF Safe
      <3>2. ctx = [ctx EXCEPT !.pin = ctx.pin]  BY <2>4, Zenon DEF Ctx
      <3>3. PinStep(ctx.pin)
        BY <2>1, <2>6, <3>1, <3>2, FileBook, Zenon DEF PinStep, Saved
      <3> QED  BY <3>3, PinStepEdits, Zenon
    <2> QED  BY <2>2, <2>5, <2>6, Zenon
  <1> QED  BY <1>2, <1>3, Zenon DEF ChangePin

\* ctap2_reset, saved or not.
LEMMA ResetEdits ==
  ASSUME Counts, Core, Reset
  PROVE  Edits
  <1>1. up /\ up' /\ early' \in BOOLEAN /\ UNCHANGED <<env, early, keys, starts>>
    BY DEF Reset, Command, Core, CoreTypes
  <1> USE <1>1
  <1>2. PICK ok \in SaveResults :
           /\ file' = Saved(Blank, ok)
           /\ accepted' = IF ok THEN {NoPin} ELSE accepted \cup {NoPin}
    BY Zenon DEF Reset
  <1>3. ok \in BOOLEAN /\ (~ok => "save" \in env.faults)  BY SaveResultIs, Zenon
  <1>4. ctx' = Blank /\ wrong' = 0 /\ issued' = issued /\ shown' = [shown EXCEPT !.global = 0]
    BY Zenon DEF Reset
  <1> USE <1>2, <1>4
  <1>5. KeyKept' = KeyKept /\ Safe' = Safe  BY Zenon DEF KeyKept, Safe
  <1>6. /\ shown' \in [own : [Ids -> 0..MaxCount], global : 0..MaxCount]
        /\ shown'.own = shown.own /\ shown'.global = 0
    BY Fido2Assumption DEF Core, HistoryTypes
  <1> USE <1>6
  <1>7. HistoryTypes'  BY Zenon DEF Core, HistoryTypes
  <1>8. Book(ctx)'
    <2>1. CountersGood(Blank, Len(issued'), shown')  BY BlankIs DEF CountersGood
    <2>2. TriesGood(Blank, wrong')  BY BlankIs DEF TriesGood
    <2>3. Blank.pin.hash \in accepted' /\ Blank.pin.retries # 0  BY BlankIs, Zenon
    <2> QED  BY <2>1, <2>2, <2>3, Zenon DEF Book
  <1>9. CountCoversTable'  BY BlankIs DEF CountCoversTable
  <1>10. Unshown'  BY <1>5, Zenon DEF Core, Unshown
  <1>11. CASE ok
    <2>1. file' = Image(ctx')  BY <1>11, Zenon DEF Saved
    <2> QED  BY <1>7, <1>8, <1>9, <1>10, <2>1, BlankIs, Zenon DEF Edits
  <1>12. CASE ~ok
    <2>1. ~Safe /\ env.faults # {}  BY <1>3, <1>12, Zenon DEF Safe
    <2>2. file' = file /\ accepted \subseteq accepted'  BY <1>12, Zenon DEF Saved
    <2> USE <2>2
    <2>3. Book(Content(file))'
      <3> DEFINE e == Content(file)
      <3>1. e = Content(file')  BY Zenon
      <3>2. (e.pin.retries = 0 => e.pin.blocked) /\ (KeyKept => e.pin.hash \in accepted')
        BY Zenon DEF Core, Book
      <3> HIDE DEF e
      <3> QED  BY <1>5, <2>1, <3>1, <3>2, Zenon DEF Book
    <2> QED  BY <1>7, <1>8, <1>9, <1>10, <2>1, <2>3, BlankIs, Zenon DEF Edits
  <1> QED  BY <1>3, <1>11, <1>12, Zenon

\* A step that leaves the authenticator's saved state and its history alone.
LEMMA CoreSame ==
  ASSUME Counts, Core, early' \in BOOLEAN, UNCHANGED <<env, up, ctx, file, keys, starts, histories>>
  PROVE  Core'
  <1>1. /\ KeyKept' = KeyKept /\ Safe' = Safe /\ Held' = Held
        /\ issued' = issued /\ accepted' = accepted /\ wrong' = wrong /\ shown' = shown
    BY Zenon DEF KeyKept, Safe, Held, histories
  <1> USE <1>1
  <1>2. CoreTypes' /\ HistoryTypes' /\ KeysOk' /\ FileShape'
    BY Zenon DEF Core, CoreTypes, HistoryTypes, KeysOk, FileShape
  <1>4. CountCoversTable' /\ StateIsOnDisk' /\ Unshown'
    BY Zenon DEF Core, CountCoversTable, StateIsOnDisk, Unshown
  <1>5. (up => Book(ctx))'  BY Zenon DEF Core, Book
  <1>6. Book(Content(file))'  BY Zenon DEF Core, Book
  <1> QED  BY <1>2, <1>4, <1>5, <1>6, Zenon DEF Core

-----------------------------------------------------------------------------
(* The state as it is when a command is let through.                        *)

LEMMA ContentIs ==
  ASSUME Counts, Core
  PROVE  Content(file) \in Ctx
  <1>1. CASE file = NoFile  BY <1>1, BlankIs, Zenon DEF Content
  <1>2. CASE file # NoFile
    <2>1. file \in File  BY <1>2, Zenon DEF Core, CoreTypes
    <2>2. Entries(file) \in Ctx  BY <2>1, EntriesIs, Zenon
    <2> QED  BY <1>2, <2>2, Zenon DEF Content
  <1> QED  BY <1>1, <1>2, Zenon

LEMMA InUseIs ==
  ASSUME Counts, NEW c \in Ctx
  PROVE  /\ \A s \in InUse(c) :
              /\ s \in Slots /\ c.credentials[s] \in Credential
              /\ c.credentials[s].id \in Ids /\ c.credentials[s].id \in Nat
              /\ c.credentials[s].rp \in Rps
              /\ c.credentials[s].count \in 1..MaxCount /\ c.credentials[s].count \in Nat
         /\ InUse(c) \in SUBSET Slots
         /\ IsFiniteSet(InUse(c)) /\ Cardinality(InUse(c)) \in Nat
         /\ c.global \in Nat /\ c.global <= MaxCount /\ c.count \in Nat
         /\ MaxCount \in Nat /\ MaxIds \in Nat
  <1>1. MaxCount \in Nat /\ MaxIds \in Nat  BY Fido2Assumption, Zenon
  <1> USE <1>1
  <1>2. InUse(c) \in SUBSET Slots  BY Zenon DEF InUse
  <1>3. \A s \in InUse(c) : s \in Slots /\ c.credentials[s] \in Credential  BY Zenon DEF InUse, Ctx
  <1>4. \A k \in Credential : /\ k.id \in Ids /\ k.id \in Nat /\ k.rp \in Rps
                              /\ k.count \in 1..MaxCount /\ k.count \in Nat
    BY DEF Credential, Ids
  <1>5. c.global \in Nat /\ c.global <= MaxCount /\ c.count \in Nat  BY DEF Ctx
  <1> QED  BY <1>2, <1>3, <1>4, <1>5, SlotsFinite, Zenon

\* The number of slots in use when one slot changes.
LEMMA TableSize ==
  ASSUME Counts, NEW c \in Ctx, NEW slot \in Slots
  PROVE  /\ slot \notin InUse(c) => Cardinality(InUse(c) \cup {slot}) = Cardinality(InUse(c)) + 1
         /\ slot \in InUse(c) => Cardinality(InUse(c) \cup {slot}) = Cardinality(InUse(c))
         /\ slot \in InUse(c) => Cardinality(InUse(c) \ {slot}) = Cardinality(InUse(c)) - 1
         /\ slot \notin InUse(c) => Cardinality(InUse(c) \ {slot}) = Cardinality(InUse(c))
  <1>1. IsFiniteSet(InUse(c)) /\ Cardinality(InUse(c)) \in Nat  BY InUseIs, Zenon
  <1>2. /\ slot \in InUse(c) => InUse(c) \cup {slot} = InUse(c)
        /\ slot \notin InUse(c) => InUse(c) \ {slot} = InUse(c)
    BY Zenon
  <1>3. slot \notin InUse(c) => Cardinality(InUse(c) \cup {slot}) = Cardinality(InUse(c)) + 1
    BY InUseIs, Zenon DEF Counts
  <1>4. slot \in InUse(c) => Cardinality(InUse(c) \ {slot}) = Cardinality(InUse(c)) - 1
    BY InUseIs, Zenon DEF Counts
  <1> QED  BY <1>2, <1>3, <1>4, Zenon

LEMMA TableShrinks ==
  ASSUME Counts, NEW c \in Ctx, NEW slot \in Slots
  PROVE  /\ Cardinality(InUse(c) \ {slot}) \in Nat /\ Cardinality(InUse(c)) \in Nat
         /\ Cardinality(InUse(c) \ {slot}) <= Cardinality(InUse(c))
  <1>1. InUse(c) \subseteq Slots  BY Zenon DEF InUse
  <1>2. InUse(c) \ {slot} \subseteq Slots  BY <1>1, Zenon
  <1>3. Cardinality(InUse(c) \ {slot}) \in Nat /\ Cardinality(InUse(c)) \in Nat
    BY <1>1, <1>2, SlotsFinite, Zenon
  <1> QED  BY <1>3, TableSize

\* The histories as they are, for a command that is let through.
LEMMA Now ==
  ASSUME Counts, Core, up
  PROVE  /\ ctx \in Ctx /\ env \in Environments /\ env.ids \in 0..MaxIds
         /\ Safe => CountersGood(ctx, Len(issued), shown)
         /\ Safe => CountersGood(Content(file), Len(issued), shown)
         /\ Content(file) \in Ctx
         /\ issued \in Seq([rp : Rps, key : Keys]) /\ Len(issued) \in Nat /\ Len(issued) <= MaxIds
         /\ shown \in [own : [Ids -> 0..MaxCount], global : 0..MaxCount]
         /\ shown.own \in [Ids -> 0..MaxCount] /\ shown.global \in 0..MaxCount
         /\ Cardinality(InUse(ctx)) <= ctx.count
         /\ "save" \notin env.faults => ctx.count = Cardinality(InUse(ctx))
         /\ keys.wrap \in Keys /\ MaxIds \in Nat /\ MaxCount \in Nat
  <1>1. Len(issued) \in Nat  BY DEF Core, HistoryTypes
  <1>2. env.ids \in 0..MaxIds  BY Fido2Assumption, Zenon DEF Core, CoreTypes
  <1>3. keys.wrap \in Keys  BY Zenon DEF Core, CoreTypes
  <1> QED  BY <1>1, <1>2, <1>3, ContentIs, Fido2Assumption, Zenon
           DEF Core, CoreTypes, HistoryTypes, Book, CountCoversTable

\* Its parts, cited one by one.
LEMMA NowTypes ==
  ASSUME Counts, Core, up
  PROVE  /\ ctx \in Ctx /\ env \in Environments /\ env.ids \in 0..MaxIds
         /\ keys.wrap \in Keys /\ MaxIds \in Nat /\ MaxCount \in Nat
  BY Now, Zenon
LEMMA NowIssued ==
  ASSUME Counts, Core, up
  PROVE  /\ issued \in Seq([rp : Rps, key : Keys]) /\ Len(issued) \in Nat /\ Len(issued) <= MaxIds
         /\ MaxIds \in Nat
  BY Now, Zenon
LEMMA NowShown ==
  ASSUME Counts, Core, up
  PROVE  /\ shown \in [own : [Ids -> 0..MaxCount], global : 0..MaxCount]
         /\ shown.own \in [Ids -> 0..MaxCount] /\ shown.global \in 0..MaxCount
         /\ MaxCount \in Nat
  BY Now, Zenon
LEMMA NowGood ==
  ASSUME Counts, Core, up
  PROVE  Safe => CountersGood(ctx, Len(issued), shown)
  BY Now, Zenon
LEMMA FileGood ==
  ASSUME Counts, Core, up
  PROVE  Content(file) \in Ctx /\ (Safe => CountersGood(Content(file), Len(issued), shown))
  BY Now, Zenon
LEMMA NowCount ==
  ASSUME Counts, Core, up
  PROVE  /\ Cardinality(InUse(ctx)) <= ctx.count
         /\ "save" \notin env.faults => ctx.count = Cardinality(InUse(ctx))
  BY Now, Zenon

-----------------------------------------------------------------------------
(* The process ends, and what its next start loads.                         *)

\* With no authenticator running, the file is all there is.
LEMMA Down ==
  ASSUME CoreTypes', HistoryTypes', KeysOk', FileShape', Book(Content(file))', Unshown', ~up'
  PROVE  Core'
  BY Zenon DEF Core, CountCoversTable, StateIsOnDisk

LEMMA EndedCore ==
  ASSUME Counts, Core, up, Ended, file' = file \/ file' = Image(ctx)
  PROVE  Core'
  <1>1. /\ up' = FALSE /\ early' = FALSE /\ ctx' = Blank /\ keys' = [keys EXCEPT !.wrap = 0]
        /\ UNCHANGED <<env, starts, issued, accepted, wrong, shown>>
    BY Zenon DEF Ended, histories
  <1> USE <1>1
  <1>2. keys \in [wrap : Keys, sealed : Keys, raw : Keys] /\ 0 \in Keys
    BY Fido2Assumption DEF Core, CoreTypes, Keys
  <1>3. /\ keys' \in [wrap : Keys, sealed : Keys, raw : Keys]
        /\ keys'.sealed = keys.sealed /\ keys'.raw = keys.raw
    BY <1>2, Zenon
  <1> USE <1>3
  <1>4. KeyKept' = KeyKept /\ Safe' = Safe /\ Held' = Held
    BY Zenon DEF KeyKept, Safe, Held
  <1> USE <1>4
  <1>5. HistoryTypes'  BY Zenon DEF Core, HistoryTypes
  <1>6. Unshown'  BY Zenon DEF Core, Unshown
  <1>7. CASE file' = file
    <2>1. CoreTypes' /\ KeysOk' /\ FileShape'
      BY <1>7, BlankIs, Zenon DEF Core, CoreTypes, KeysOk, FileShape
    <2>2. Book(Content(file))'  BY <1>7, Zenon DEF Core, Book
    <2> QED  BY <1>5, <1>6, <2>1, <2>2, Down, Zenon
  <1>8. CASE file' = Image(ctx)
    <2> USE <1>8
    <2>1. ctx \in Ctx /\ keys.wrap \in Keys /\ Cardinality(InUse(ctx)) <= ctx.count  BY Now, Zenon
    <2> USE <2>1
    <2>2. /\ Image(ctx) \in File /\ Image(ctx).key = keys.wrap /\ Image(ctx).count = ctx.count
          /\ Len(Image(ctx).credentials) = Cardinality(InUse(ctx))
      BY ImageIs, Zenon
    <2> USE <2>2
    <2>3. Cardinality(InUse(ctx)) <= MaxCredentials  BY InUseIs, SlotsFinite, Zenon
    <2>4. CoreTypes'  BY BlankIs, Zenon DEF Core, CoreTypes
    <2>5. KeysOk'  BY Zenon DEF Core, KeysOk
    <2>6. FileShape'  BY <2>3, Zenon DEF FileShape
    <2>7. Book(Content(file))'
      <3> DEFINE e == Content(file')
      <3>1. e.pin = ctx.pin /\ \A n, sh : CountersGood(ctx, n, sh) => CountersGood(e, n, sh)
        BY Compacted, Zenon
      <3> HIDE DEF e
      <3>2. /\ e.pin.retries = 0 => e.pin.blocked
            /\ KeyKept' => e.pin.hash \in accepted'
            /\ Safe' => TriesGood(e, wrong') /\ CountersGood(e, Len(issued'), shown')
        BY <3>1, Zenon DEF Core, Book, TriesGood
      <3> QED  BY <3>2, Zenon DEF Book, e
    <2> QED  BY <1>5, <1>6, <2>4, <2>5, <2>6, <2>7, Down, Zenon
  <1> QED  BY <1>7, <1>8, Zenon

\* ensure_wrap_key finds the key that it found before, unless the files fail.
LEMMA WrapKeyIs ==
  ASSUME Counts, Core, starts < MaxStarts, env' = env,
         NEW unseal \in Outcomes("unseal"), NEW seal \in Outcomes("seal"),
         NEW written \in Outcomes("seal"), keys' = EnsureWrapKey(unseal, seal, written)
  PROVE  /\ keys' \in [wrap : Keys, sealed : Keys, raw : Keys]
         /\ KeyKept => keys'.wrap = Held' /\ Held' # 0 /\ (Held # 0 => Held' = Held)
  <1> DEFINE k == IF keys.raw # 0 THEN keys.raw ELSE starts + 2
  <1>1. /\ keys \in [wrap : Keys, sealed : Keys, raw : Keys] /\ starts \in Nat /\ MaxStarts \in Nat
        /\ KeysOk
    BY Fido2Assumption DEF Core, CoreTypes
  <1> USE <1>1
  <1>2. keys.sealed \in Keys /\ keys.raw \in Keys /\ 0 \in Keys  BY DEF Keys
  <1> USE <1>2
  <1>3. k \in Keys /\ k # 0  BY DEF Keys
  <1> USE <1>3
  <1>4. /\ KeyKept => unseal = TRUE
        /\ "seal" \notin env.faults => seal = TRUE /\ written = TRUE
        /\ seal \in BOOLEAN /\ written \in BOOLEAN
    BY Zenon DEF Outcomes, KeyKept
  <1> USE <1>4
  <1>5. CASE keys.sealed # 0 /\ unseal
    <2>1. keys' = [keys EXCEPT !.wrap = keys.sealed]  BY <1>5, Zenon DEF EnsureWrapKey
    <2>2. keys'.wrap = keys.sealed /\ keys'.sealed = keys.sealed  BY <2>1, Zenon
    <2>3. keys' \in [wrap : Keys, sealed : Keys, raw : Keys]  BY <2>1, Zenon
    <2> QED  BY <1>5, <2>2, <2>3, Zenon DEF Held
  <1>6. CASE ~(keys.sealed # 0 /\ unseal)
    <2> HIDE DEF k
    <2>1. keys' = [wrap |-> k,
                   sealed |-> IF ~seal THEN keys.sealed ELSE IF written THEN k ELSE 0,
                   raw |-> IF seal /\ written THEN 0 ELSE keys.raw]
      BY <1>6, Zenon DEF EnsureWrapKey, k
    <2>2. /\ keys'.wrap = k
          /\ keys'.sealed = IF ~seal THEN keys.sealed ELSE IF written THEN k ELSE 0
          /\ keys'.raw = IF seal /\ written THEN 0 ELSE keys.raw
      BY <2>1
    <2>3. keys' \in [wrap : Keys, sealed : Keys, raw : Keys]  BY <2>1
    <2>4. ASSUME KeyKept
          PROVE  keys'.wrap = Held' /\ Held' # 0 /\ (Held # 0 => Held' = Held)
      <3>1. keys.sealed = 0  BY <1>6, <2>4, Zenon
      <3>2. Held = keys.raw  BY <3>1, Zenon DEF Held
      <3> USE <3>2
      <3>3. keys.raw = 0 => seal /\ written  BY <2>4, Zenon DEF KeysOk, KeyKept
      <3>4. keys.raw # 0 => k = keys.raw  BY Zenon DEF k
      <3>5. CASE seal /\ written  BY <2>2, <3>4, <3>5, Zenon DEF Held
      <3>6. CASE ~(seal /\ written)  BY <2>2, <3>1, <3>3, <3>4, <3>6, Zenon DEF Held
      <3> QED  BY <3>5, <3>6, Zenon
    <2> QED  BY <2>3, <2>4, Zenon
  <1> QED  BY <1>5, <1>6, Zenon

\* A load gives what the file holds, or nothing if its key is another one.
LEMMA LoadIs ==
  ASSUME Counts, Core, NEW k
  PROVE  /\ Load(file, k) \in Ctx
         /\ Load(file, k).count = Cardinality(InUse(Load(file, k)))
         /\ \/ Load(file, k) = Content(file)
            \/ file # NoFile /\ file.key \notin {0, k} /\ Load(file, k).pin = NewPin
         /\ file # NoFile =>
              /\ file \in File
              /\ Range(file.credentials)
                   = {Content(file).credentials[s] : s \in InUse(Content(file))}
              /\ Content(file).pin = file.pin /\ Content(file).global = file.global
  <1>1. CASE file = NoFile  BY <1>1, BlankIs, Zenon DEF Load, Content
  <1>2. CASE file # NoFile
    <2> USE <1>2
    <2> DEFINE e == Entries(file)
    <2>1. file \in File /\ e = Content(file)  BY Zenon DEF Core, CoreTypes, Content
    <2> USE <2>1
    <2>2. PICK n \in 0..MaxCredentials :
             /\ n <= file.count /\ n <= Len(file.credentials)
             /\ n = file.count \/ n = Len(file.credentials) \/ n = MaxCredentials
             /\ e \in Ctx
             /\ e.count = n /\ e.global = file.global /\ e.pin = file.pin
             /\ InUse(e) = 1..n /\ Cardinality(InUse(e)) = n
             /\ \A s \in 1..n : e.credentials[s] = file.credentials[s]
      BY EntriesIs, Zenon
    <2> USE <2>2
    <2> HIDE DEF e
    <2>3. file.count \in Nat /\ Len(file.credentials) \in Nat /\ n \in Nat
      BY SlotIsNat DEF File
    <2>4. n = Len(file.credentials)  BY <2>3, SlotIsNat DEF Core, FileShape
    <2>5. Range(file.credentials) = {e.credentials[s] : s \in InUse(e)}
      <3>1. DOMAIN file.credentials = 1..n  BY <2>4 DEF File
      <3> QED  BY <3>1, Zenon DEF Range
    <2>6. CASE file.key \in {0, k}
      <3>1. Load(file, k) = e  BY <2>6, Zenon DEF Load, e
      <3> QED  BY <2>5, <3>1, Zenon
    <2>7. CASE file.key \notin {0, k}
      <3> DEFINE b == [Blank EXCEPT !.global = file.global]
      <3>1. Load(file, k) = b  BY <2>7, Zenon DEF Load
      <3>2. b \in Ctx /\ b.credentials = Blank.credentials /\ b.count = Blank.count /\ b.pin = Blank.pin
        BY BlankIs, Zenon DEF Ctx, File
      <3>3. InUse(b) = InUse(Blank)  BY <3>2, Zenon DEF InUse
      <3> HIDE DEF b
      <3> QED  BY <2>5, <2>7, <3>1, <3>2, <3>3, BlankIs, Zenon
    <2> QED  BY <2>6, <2>7, Zenon
  <1> QED  BY <1>1, <1>2, Zenon

=============================================================================
