---------------------------- MODULE VaultProofs ----------------------------
(***************************************************************************)
(* The steps of Vault that write a file keep its invariant and the promise *)
(* of VaultPromise; the theorems about Vault.                              *)
(***************************************************************************)
EXTENDS VaultInvariant

USE SMTT(30), ZenonT(30)

-----------------------------------------------------------------------------
(* Steps that write.                                                        *)

\* What was expected may still be expected when more is.
LEMMA ExpectedMore ==
  ASSUME NEW m, NEW n, NEW p, Expected(m, p), \A id \in Ids : m[id] \subseteq n[id]
  PROVE  Expected(n, p)
  BY Zenon DEF Expected

\* An edit is expected once its outcome is.
LEMMA ExpectedEdit ==
  ASSUME NEW m, NEW n, NEW p, NEW q, NEW id, NEW want, Expected(m, p), Edit(p, q, id, want),
         want \in n[id], \A other \in Ids \ {id} : n[other] = m[other]
  PROVE  Expected(n, q)
  BY Zenon DEF Expected, Edit

\* A new vault is empty.
LEMMA NewIsEmpty ==
  /\ Good(NewPayload) /\ NewPayload \in Payloads
  /\ \A id \in Ids : Value(NewPayload, id) = Absent
  /\ Table(NewPayload) = [id \in Ids |-> Absent]
  <1>1. <<>> \in Seq(Entries) /\ DOMAIN <<>> = {}  BY EmptySeq
  <1>2. NewPayload \in Payloads  BY <1>1, MakesPayload, Zenon DEF NewPayload
  <1>3. DOMAIN NewPayload.entries = {}  BY <1>1, Zenon DEF NewPayload
  <1>4. \A id \in Ids : Value(NewPayload, id) = Absent  BY <1>3, Zenon DEF Value, Has
  <1> QED  BY <1>2, <1>3, <1>4, Zenon DEF Good, Table

\* pm_vault_create replaces the file and leaves the slots alone.
LEMMA VaultCreateStep ==
  ASSUME VaultInv, NEW u \in load.users, NEW mode \in load.modes, NEW w \in load.wraps,
         VaultCreate(u, mode, w)
  PROVE  VaultInv' /\ Lawful
  <1> DEFINE file == [mode |-> mode, key |-> MasterKey(mode, w), seq |-> 1, payload |-> NewPayload]
  <1>1. u \in Users /\ load.seq \in Nat \ {0}  BY VaultAssumption, Zenon DEF VaultInv, TypeOK
  <1>2. /\ UNCHANGED <<load, sidecar, vaults, timeout, timer, announced>>
        /\ disk' = [disk EXCEPT ![u] = file]
    BY Zenon DEF VaultCreate, Config
  <1>3. file \in VaultFiles /\ file.seq = 1 /\ file.payload = NewPayload
    <2>1. mode \in Modes /\ w \in Wraps  BY Zenon DEF Modes, Wraps, VaultInv, TypeOK
    <2>2. MasterKey(mode, w) \in Wraps \cup {Secret}  BY <2>1, Zenon DEF MasterKey
    <2> QED  BY <2>1, <2>2, NewIsEmpty, Zenon DEF VaultFiles
  <1> HIDE DEF file
  <1>4. file # None  BY <1>3, NoneAssumption, Zenon
  <1>5. disk'[u] = file /\ \A v \in Users \ {u} : disk'[v] = disk[v]
    BY <1>1, <1>2, Zenon DEF VaultInv, TypeOK
  <1>6. /\ \A v \in Users \ {u} : may'[v] = may[v]
        /\ \A id \in Ids : Absent \in may'[u][id]
        /\ Unlocked(u) # {} => \A id \in Ids : may[u][id] \subseteq may'[u][id]
        /\ may' \in [Users -> [Ids -> SUBSET (Contents \cup {Absent})]]
    <2>1. may \in [Users -> [Ids -> SUBSET (Contents \cup {Absent})]]  BY Zenon DEF VaultInv, TypeOK
    <2>2. may' = [may EXCEPT ![u] = [id \in Ids |-> IF Unlocked(u) # {} THEN may[u][id] \cup {Absent}
                                                                      ELSE {Absent}]]
      BY <1>1, <2>1, Zenon DEF VaultCreate
    <2> QED  BY <1>1, <2>1, <2>2, Zenon
  <1>7. disk' \in [Users -> VaultFiles \cup {None}]
    BY <1>2, <1>3, Zenon DEF VaultInv, TypeOK
  <1>8. TypeOK'  BY <1>2, <1>6, <1>7, Zenon DEF VaultInv, TypeOK
  <1>9. \A v \in Users : disk'[v] # None => FileOk(v)'
    <2> SUFFICES ASSUME NEW v \in Users, disk'[v] # None  PROVE FileOk(v)'
      BY Zenon
    <2>1. CASE v = u
      <3>1. Expected(may'[u], NewPayload)  BY <1>6, NewIsEmpty, Zenon DEF Expected, Agree
      <3> QED  BY <2>1, <3>1, <1>1, <1>2, <1>3, <1>5, NewIsEmpty DEF FileOk
    <2>2. CASE v # u  BY <2>2, <1>2, <1>5, <1>6, Zenon DEF VaultInv, FileOk
    <2> QED  BY <2>1, <2>2, Zenon
  <1>10. \A i \in Slots : vaults'[i] # None => HandleOk(vaults[i])'
    <2> SUFFICES ASSUME NEW i \in Slots, vaults[i] # None  PROVE HandleOk(vaults[i])'
      BY <1>2, Zenon
    <2>1. HandleOk(vaults[i]) /\ vaults[i] \in Handles /\ vaults[i].seq \in 1..load.seq
      BY Zenon DEF VaultInv, TypeOK
    <2>2. vaults[i].uid \in Users  BY <2>1, Zenon DEF Handles
    <2>3. CASE vaults[i].uid = u
      <3>1. 1 <= vaults[i].seq  BY <1>1, <2>1
      <3>2. vaults[i].payload # None => Expected(may'[u], vaults[i].payload)
        <4> SUFFICES ASSUME vaults[i].payload # None  PROVE Expected(may'[u], vaults[i].payload)
          BY Zenon
        <4>1. Unlocked(u) # {}  BY <2>3, SlotIs, Zenon DEF VaultInv
        <4> QED  BY <4>1, <2>1, <2>3, <1>6, ExpectedMore, Zenon DEF HandleOk
      <3> QED  BY <2>1, <2>3, <3>1, <3>2, <1>2, <1>3, <1>4, <1>5, Zenon DEF HandleOk
    <2>4. CASE vaults[i].uid # u
      BY <2>1, <2>2, <2>4, <1>2, <1>5, <1>6, Zenon DEF HandleOk
    <2> QED  BY <2>3, <2>4, Zenon
  <1>11. OneSlot(vaults') /\ AnnouncedUnlockedIsReal'
    BY <1>2, Zenon DEF VaultInv, AnnouncedUnlockedIsReal, AllUnlocked, IsLocked
  <1>12. \A v \in Users : (Unlocked(v)' = Unlocked(v)) /\ Payload(v)' = Payload(v)
    BY <1>2 DEF Unlocked, SlotsOf, IsLocked, Payload, SlotFor, FreeSlots
  <1>13. Promise!Replace(u)
    <2>1. Table(disk'[u].payload) = [id \in Ids |-> Absent]  BY <1>3, <1>5, NewIsEmpty, Zenon
    <2> QED  BY <2>1, <1>1, <1>4, <1>5, <1>12, Zenon DEF Promise!Replace, Promise!Empty
  <1>14. \A v \in Users : HistoryRecorded(v) /\ SequenceGrown(v)
    BY <1>3, <1>5, <1>12, Zenon DEF HistoryRecorded, SequenceGrown
  <1> QED
    BY <1>1, <1>8, <1>9, <1>10, <1>11, <1>13, <1>14, Zenon DEF VaultInv, Lawful, Promise!Next

\* What a save writes and where: the file of u, and nobody else's.
LEMMA SaveWrites ==
  ASSUME VaultInv, NEW u \in Users, Unlocked(u) # {}, NEW q \in Payloads, Saved(u, q)
  PROVE  /\ disk' \in [Users -> VaultFiles \cup {None}] /\ disk'[u] # None
         /\ disk'[u].payload = q /\ disk'[u].seq = vaults[SlotFor(u)].seq + 1
         /\ disk'[u].seq \in 1..load.seq /\ disk'[u].seq > disk[u].seq
         /\ vaults[SlotFor(u)].seq \in Nat
         /\ \A v \in Users \ {u} : disk'[v] = disk[v]
  <1> DEFINE h == vaults[SlotFor(u)]
             file == VaultFile(h, q)
  <1>1. h \in Handles /\ h.payload # None /\ h # None /\ SlotFor(u) \in Slots
    BY Serving, Zenon
  <1>2. h.seq \in 1..load.seq /\ h.key # None /\ load.seq \in Nat
    BY <1>1, VaultAssumption, Zenon DEF VaultInv, TypeOK
  <1>3. disk[u] # None /\ disk[u].seq <= h.seq  BY Serving, Zenon
  <1>4. disk[u].seq \in 1..load.seq  BY <1>3, Zenon DEF VaultInv, FileOk
  <1>5. h.seq < load.seq /\ disk' = [disk EXCEPT ![u] = file]  BY Zenon DEF Saved
  <1> USE <1>5
  <1> HIDE DEF h
  <1>6. file \in VaultFiles /\ file.payload = q /\ file.seq = h.seq + 1
    BY <1>1, <1>2 DEF VaultFile, VaultFiles, Handles
  <1> USE <1>6
  <1> HIDE DEF file
  <1>7. file # None  BY NoneAssumption, Zenon
  <1>8. disk'[u] = file /\ \A v \in Users \ {u} : disk'[v] = disk[v]
    BY Zenon DEF VaultInv, TypeOK
  <1>9. disk' \in [Users -> VaultFiles \cup {None}]
    BY Zenon DEF VaultInv, TypeOK
  <1>10. h.seq + 1 \in 1..load.seq /\ h.seq + 1 > disk[u].seq /\ h.seq \in Nat
    BY <1>2, <1>3, <1>4
  <1> QED  BY <1>7, <1>8, <1>9, <1>10, Zenon DEF h

\* The expectation after a change of the entry id.
LEMMA MayChanges ==
  ASSUME VaultInv, NEW u \in Users, NEW id \in Ids, NEW want \in Contents \cup {None},
         may' = [may EXCEPT ![u][id] = {want}] \/ may' = [may EXCEPT ![u][id] = @ \cup {want}]
  PROVE  /\ may' \in [Users -> [Ids -> SUBSET (Contents \cup {Absent})]]
         /\ want \in may'[u][id] /\ \A other \in Ids \ {id} : may'[u][other] = may[u][other]
         /\ \A v \in Users \ {u} : may'[v] = may[v]
  <1>1. may \in [Users -> [Ids -> SUBSET (Contents \cup {Absent})]]  BY Zenon DEF VaultInv, TypeOK
  <1> QED  BY <1>1 DEF Absent

\* The promise of a change: one entry of the view changes.
LEMMA EditChangesOne ==
  ASSUME NEW p, NEW q, NEW id \in Ids, NEW want, Edit(p, q, id, want)
  PROVE  \A other \in Ids \ {id} : Table(q)[other] = Table(p)[other]
  BY Zenon DEF Edit, Table

\* A change that is answered is in memory and in the file.
LEMMA AcknowledgedStep ==
  ASSUME VaultInv, NEW u \in Users, Unlocked(u) # {}, NEW q, NEW id \in Ids,
         NEW want \in Contents \cup {None}, Edit(Payload(u), q, id, want),
         Acknowledged(u, q, id, want)
  PROVE  VaultInv' /\ Lawful
  <1> DEFINE k == SlotFor(u)
             p == Payload(u)
             h == vaults[k]
             g == vaults'[k]
  <1>1. /\ UNCHANGED <<load, sidecar, timeout, timer, announced>> /\ Saved(u, q)
        /\ may' = [may EXCEPT ![u][id] = {want}]
    BY Zenon DEF Acknowledged, Config
  <1>2. /\ k \in Slots /\ h \in Handles /\ h # None /\ h.uid = u /\ h.payload # None
        /\ p = h.payload /\ Good(p) /\ Expected(may[u], p) /\ k \in AllUnlocked
    BY Serving, Zenon
  <1>3. Good(q) /\ q \in Payloads /\ q # None  BY NoneAssumption, Zenon DEF Edit, Good
  <1>4. /\ disk' \in [Users -> VaultFiles \cup {None}] /\ disk'[u] # None
        /\ disk'[u].payload = q /\ disk'[u].seq = h.seq + 1
        /\ disk'[u].seq \in 1..load.seq /\ disk'[u].seq > disk[u].seq /\ h.seq \in Nat
        /\ \A v \in Users \ {u} : disk'[v] = disk[v]
    BY <1>1, <1>3, SaveWrites, Zenon
  <1>5. /\ may' \in [Users -> [Ids -> SUBSET (Contents \cup {Absent})]]
        /\ want \in may'[u][id] /\ \A other \in Ids \ {id} : may'[u][other] = may[u][other]
        /\ \A v \in Users \ {u} : may'[v] = may[v]
    BY <1>1, MayChanges, Zenon
  <1>6. vaults' = [[vaults EXCEPT ![k].payload = q, ![k].seq = @ + 1] EXCEPT ![k].idle = 0]
    BY Zenon DEF Acknowledged, Refreshed
  <1>7. vaults \in [Slots -> Handles \cup {None}]  BY Zenon DEF VaultInv, TypeOK
  <1>8. (h.key = None) = (h.payload = None) /\ load.idle \in Nat
    BY <1>2, VaultAssumption, Zenon DEF VaultInv, TypeOK
  <1> HIDE DEF k, p, h
  <1>9. g = [h EXCEPT !.payload = q, !.seq = h.seq + 1, !.idle = 0]
    BY <1>2, <1>6, <1>7, Zenon DEF h
  <1>10. DOMAIN vaults' = Slots /\ \A i \in Slots \ {k} : vaults'[i] = vaults[i]
    BY <1>6, <1>7, Zenon
  <1> HIDE DEF g
  <1>11. /\ g \in Handles /\ g.uid = u /\ g.seq = h.seq + 1 /\ g.payload = q /\ g.idle = 0
         /\ g.key = h.key
    <2>1. h \in Handles /\ h.uid = u /\ h.seq \in Nat /\ q \in Payloads  BY <1>2, <1>3, <1>4, Zenon
    <2> DEFINE n == h.seq + 1
    <2>2. n \in Nat /\ g = [h EXCEPT !.payload = q, !.seq = n, !.idle = 0]  BY <2>1, <1>9
    <2> HIDE DEF n
    <2>3. /\ g \in Handles /\ g.uid = u /\ g.seq = n /\ g.payload = q /\ g.idle = 0
          /\ g.key = h.key
      BY ONLY <2>1, <2>2, Zenon DEF Handles
    <2> QED  BY <2>3, Zenon DEF n
  <1>12. g # None  BY <1>11, NoneAssumption, Zenon
  <1> USE DEF g
  <1>13. vaults' \in [Slots -> Handles \cup {None}]
    <2>1. \A i \in Slots : vaults'[i] \in Handles \cup {None}  BY <1>7, <1>10, <1>11, Zenon
    <2>2. vaults' = [i \in Slots |-> vaults'[i]]  BY <1>6, <1>7, Zenon
    <2> QED  BY <2>1, <2>2, Zenon
  <1>14. OneSlot(vaults')
    BY <1>2, <1>10, <1>11 DEF OneSlot, VaultInv, h
  <1>15. TypeOK'
    <2>1. \A i \in Slots : vaults'[i] # None =>
            /\ (vaults'[i].key = None) = (vaults'[i].payload = None)
            /\ vaults'[i].seq \in 1..load.seq /\ vaults'[i].idle \in 0..load.idle
      <3> SUFFICES ASSUME NEW i \in Slots, vaults'[i] # None
                   PROVE  /\ (vaults'[i].key = None) = (vaults'[i].payload = None)
                          /\ vaults'[i].seq \in 1..load.seq /\ vaults'[i].idle \in 0..load.idle
        BY Zenon
      <3>1. CASE i = k  BY <3>1, <1>2, <1>3, <1>4, <1>8, <1>11
      <3>2. CASE i # k  BY <3>2, <1>10, Zenon DEF VaultInv, TypeOK
      <3> QED  BY <3>1, <3>2, Zenon
    <2> QED  BY <2>1, <1>1, <1>4, <1>5, <1>13, Zenon DEF VaultInv, TypeOK
  <1>16. Expected(may'[u], q)  BY <1>2, <1>5, ExpectedEdit, Zenon DEF p
  <1>17. \A v \in Users : disk'[v] # None => FileOk(v)'
    BY <1>1, <1>3, <1>4, <1>5, <1>16, Zenon DEF VaultInv, FileOk
  <1>18. \A i \in Slots : vaults'[i] # None => HandleOk(vaults[i])'
    <2> SUFFICES ASSUME NEW i \in Slots, vaults'[i] # None  PROVE HandleOk(vaults[i])'
      BY Zenon
    <2>1. CASE i = k
      <3>1. h.seq + 1 <= h.seq + 1  BY <1>4
      <3> QED  BY <2>1, <3>1, <1>3, <1>4, <1>11, <1>16, Zenon DEF HandleOk
    <2>2. CASE i # k
      <3>1. vaults'[i] = vaults[i] /\ HandleOk(vaults[i]) /\ vaults[i] \in Handles
        BY <2>2, <1>10, Zenon DEF VaultInv, TypeOK
      <3>2. vaults[i].uid \in Users \ {u}
        BY <2>2, <3>1, <1>2, Zenon DEF VaultInv, OneSlot, Handles, h
      <3> QED  BY <3>1, <3>2, <1>4, <1>5, ZenonT(40) DEF HandleOk
    <2> QED  BY <2>1, <2>2, Zenon
  <1>19. AnnouncedUnlockedIsReal'
    <2>1. k \in AllUnlocked'  BY <1>2, <1>3, <1>11, <1>12, Zenon DEF AllUnlocked, IsLocked
    <2> QED  BY <2>1, Zenon DEF AnnouncedUnlockedIsReal
  <1>20. Unlocked(u)' # {} /\ Payload(u)' = q
    BY <1>2, <1>3, <1>11, <1>12, <1>14, SlotIsPrimed, Zenon
  <1>21. \A v \in Users \ {u} :
           (Unlocked(v)' = {}) = (Unlocked(v) = {}) /\ (Unlocked(v) # {} => Payload(v)' = Payload(v))
    BY <1>2, <1>10, <1>11, <1>14, OthersSee, Zenon DEF VaultInv, h
  <1>22. Promise!Change(u)
    <2>1. Table(q) # None /\ Table(p) # None  BY <1>2, <1>3, TableType, Zenon
    <2>2. \A other \in Ids \ {id} : Table(q)[other] = Table(p)[other]
      BY EditChangesOne, Zenon DEF p
    <2> QED
      BY <1>4, <1>20, <1>21, <2>1, <2>2, ZenonT(40)
      DEF Promise!Change, Promise!OneEntryChanges, Promise!Others, p
  <1>23. \A v \in Users : HistoryRecorded(v) /\ SequenceGrown(v)
    <2>1. HistoryRecorded(u) /\ SequenceGrown(u)
      BY <1>4, <1>20, Zenon DEF HistoryRecorded, SequenceGrown, Edit
    <2>2. \A v \in Users \ {u} : HistoryRecorded(v) /\ SequenceGrown(v)
      BY <1>4, <1>21, Zenon DEF HistoryRecorded, SequenceGrown
    <2> QED  BY <2>1, <2>2, Zenon
  <1> QED
    BY <1>14, <1>15, <1>17, <1>18, <1>19, <1>22, <1>23, Zenon DEF VaultInv, Lawful, Promise!Next

\* A change that is not saved is in memory only.
LEMMA SaveFailsStep ==
  ASSUME VaultInv, NEW u \in Users, Unlocked(u) # {}, NEW q, NEW id \in Ids,
         NEW want \in Contents \cup {None}, Edit(Payload(u), q, id, want),
         SaveFails(u, q, id, want)
  PROVE  VaultInv' /\ Lawful
  <1> DEFINE k == SlotFor(u)
             p == Payload(u)
             h == vaults[k]
             g == vaults'[k]
  <1>1. /\ UNCHANGED <<load, disk, sidecar, timeout, timer, announced>>
        /\ may' = [may EXCEPT ![u][id] = @ \cup {want}]
    BY Zenon DEF SaveFails, Config
  <1>2. /\ k \in Slots /\ h \in Handles /\ h # None /\ h.uid = u /\ h.payload # None
        /\ p = h.payload /\ Good(p) /\ Expected(may[u], p)
        /\ disk[u] # None /\ disk[u].seq <= h.seq
    BY Serving, Zenon
  <1>3. Good(q) /\ q \in Payloads /\ q # None  BY NoneAssumption, Zenon DEF Edit, Good
  <1>4. /\ may' \in [Users -> [Ids -> SUBSET (Contents \cup {Absent})]]
        /\ want \in may'[u][id] /\ \A other \in Ids \ {id} : may'[u][other] = may[u][other]
        /\ \A v \in Users \ {u} : may'[v] = may[v]
    BY <1>1, MayChanges, Zenon
  <1>5. \A some \in Ids : may[u][some] \subseteq may'[u][some]
    BY <1>1, Zenon DEF VaultInv, TypeOK
  <1>6. vaults' = [vaults EXCEPT ![k].payload = q]  BY Zenon DEF SaveFails
  <1>7. vaults \in [Slots -> Handles \cup {None}]  BY Zenon DEF VaultInv, TypeOK
  <1>8. /\ (h.key = None) = (h.payload = None)
        /\ h.seq \in 1..load.seq /\ h.idle \in 0..load.idle
    BY <1>2, Zenon DEF VaultInv, TypeOK
  <1> HIDE DEF k, p, h
  <1>9. g = [h EXCEPT !.payload = q]  BY <1>2, <1>6, <1>7, Zenon DEF h
  <1>10. \A i \in Slots \ {k} : vaults'[i] = vaults[i]  BY <1>6, <1>7, Zenon
  <1> HIDE DEF g
  <1>11. /\ g \in Handles /\ g.uid = u /\ g.seq = h.seq /\ g.payload = q /\ g.idle = h.idle
         /\ g.key = h.key
    <2>1. h \in Handles /\ h.uid = u /\ q \in Payloads  BY <1>2, <1>3, Zenon
    <2> QED  BY ONLY <2>1, <1>9, Zenon DEF Handles
  <1>12. g # None  BY <1>11, NoneAssumption, Zenon
  <1> USE DEF g
  <1>13. vaults' \in [Slots -> Handles \cup {None}]
    <2>1. \A i \in Slots : vaults'[i] \in Handles \cup {None}  BY <1>7, <1>10, <1>11, Zenon
    <2>2. vaults' = [i \in Slots |-> vaults'[i]]  BY <1>6, <1>7, Zenon
    <2> QED  BY <2>1, <2>2, Zenon
  <1>14. OneSlot(vaults')  BY <1>2, <1>10, <1>11 DEF OneSlot, VaultInv, h
  <1>15. TypeOK'
    <2>1. \A i \in Slots : vaults'[i] # None =>
            /\ (vaults'[i].key = None) = (vaults'[i].payload = None)
            /\ vaults'[i].seq \in 1..load.seq /\ vaults'[i].idle \in 0..load.idle
      <3> SUFFICES ASSUME NEW i \in Slots, vaults'[i] # None
                   PROVE  /\ (vaults'[i].key = None) = (vaults'[i].payload = None)
                          /\ vaults'[i].seq \in 1..load.seq /\ vaults'[i].idle \in 0..load.idle
        BY Zenon
      <3>1. CASE i = k  BY <3>1, <1>2, <1>3, <1>8, <1>11, Zenon
      <3>2. CASE i # k  BY <3>2, <1>10, Zenon DEF VaultInv, TypeOK
      <3> QED  BY <3>1, <3>2, Zenon
    <2> QED  BY <2>1, <1>1, <1>4, <1>13, Zenon DEF VaultInv, TypeOK
  <1>16. Expected(may'[u], q)  BY <1>2, <1>4, ExpectedEdit, Zenon DEF p
  <1>17. \A v \in Users : disk'[v] # None => FileOk(v)'
    <2> SUFFICES ASSUME NEW v \in Users, disk[v] # None  PROVE FileOk(v)'
      BY <1>1, Zenon
    <2>1. FileOk(v)  BY Zenon DEF VaultInv
    <2>2. Expected(may'[v], disk[v].payload)
      BY <2>1, <1>4, <1>5, ExpectedMore, Zenon DEF FileOk
    <2> QED  BY <2>1, <2>2, <1>1, Zenon DEF FileOk
  <1>18. \A i \in Slots : vaults'[i] # None => HandleOk(vaults[i])'
    <2> SUFFICES ASSUME NEW i \in Slots, vaults'[i] # None  PROVE HandleOk(vaults[i])'
      BY Zenon
    <2>1. CASE i = k
      BY <2>1, <1>1, <1>2, <1>3, <1>11, <1>16, Zenon DEF HandleOk
    <2>2. CASE i # k
      <3>1. vaults'[i] = vaults[i] /\ HandleOk(vaults[i]) /\ vaults[i] \in Handles
        BY <2>2, <1>10, Zenon DEF VaultInv, TypeOK
      <3>2. vaults[i].uid \in Users \ {u}
        BY <2>2, <3>1, <1>2, Zenon DEF VaultInv, OneSlot, Handles, h
      <3> QED  BY <3>1, <3>2, <1>1, <1>4, Zenon DEF HandleOk
    <2> QED  BY <2>1, <2>2, Zenon
  <1>19. AnnouncedUnlockedIsReal'
    <2>1. k \in Slots /\ vaults'[k] # None /\ vaults'[k].payload # None
      BY <1>2, <1>3, <1>11, <1>12, Zenon
    <2> QED  BY <2>1, Zenon DEF AnnouncedUnlockedIsReal, AllUnlocked, IsLocked
  <1>20. Unlocked(u)' # {} /\ Payload(u)' = q
    BY <1>2, <1>3, <1>11, <1>12, <1>14, SlotIsPrimed, Zenon
  <1>21. \A v \in Users \ {u} :
           (Unlocked(v)' = {}) = (Unlocked(v) = {}) /\ (Unlocked(v) # {} => Payload(v)' = Payload(v))
    BY <1>2, <1>10, <1>11, <1>14, OthersSee, Zenon DEF VaultInv, h
  <1>22. Promise!FailedChange(u)
    <2>1. Table(q) # None /\ Table(p) # None  BY <1>2, <1>3, TableType, Zenon
    <2>2. \A other \in Ids \ {id} : Table(q)[other] = Table(p)[other]
      BY EditChangesOne, Zenon DEF p
    <2> QED
      BY <1>1, <1>20, <1>21, <2>1, <2>2, Zenon
      DEF Promise!FailedChange, Promise!OneEntryChanges, Promise!Others, p
  <1>23. \A v \in Users : HistoryRecorded(v) /\ SequenceGrown(v)
    <2>1. HistoryRecorded(u) /\ SequenceGrown(u)
      BY <1>1, <1>20, Zenon DEF HistoryRecorded, SequenceGrown, Edit
    <2>2. \A v \in Users \ {u} : HistoryRecorded(v) /\ SequenceGrown(v)
      BY <1>1, <1>21, Zenon DEF HistoryRecorded, SequenceGrown
    <2> QED  BY <2>1, <2>2, Zenon
  <1> QED
    BY <1>14, <1>15, <1>17, <1>18, <1>19, <1>22, <1>23, Zenon DEF VaultInv, Lawful, Promise!Next

\* A change that is saved and never answered is in the file only.
LEMMA DiesStep ==
  ASSUME VaultInv, NEW u \in Users, Unlocked(u) # {}, NEW q, NEW id \in Ids,
         NEW want \in Contents \cup {None}, Edit(Payload(u), q, id, want),
         DiesAfterRename(u, q, id, want)
  PROVE  VaultInv' /\ Lawful
  <1> DEFINE p == Payload(u)
  <1>1. /\ UNCHANGED <<load, sidecar, timeout>> /\ timer' = (timeout > 0)
        /\ announced' = "none" /\ vaults' = Closed /\ Saved(u, q)
        /\ may' = [may EXCEPT ![u][id] = @ \cup {want}]
    BY Zenon DEF DiesAfterRename, Fresh
  <1> USE <1>1
  <1>2. Good(p) /\ Expected(may[u], p) /\ p # None  BY Serving, Zenon
  <1>3. Good(q) /\ q \in Payloads /\ q # None  BY NoneAssumption, Zenon DEF Edit, Good
  <1>4. /\ disk' \in [Users -> VaultFiles \cup {None}] /\ disk'[u] # None
        /\ disk'[u].payload = q /\ disk'[u].seq \in 1..load.seq /\ disk'[u].seq > disk[u].seq
        /\ \A v \in Users \ {u} : disk'[v] = disk[v]
    BY <1>3, SaveWrites, Zenon
  <1> USE <1>4
  <1>5. /\ may' \in [Users -> [Ids -> SUBSET (Contents \cup {Absent})]]
        /\ want \in may'[u][id] /\ \A other \in Ids \ {id} : may'[u][other] = may[u][other]
        /\ \A v \in Users \ {u} : may'[v] = may[v]
    BY MayChanges, Zenon
  <1> USE <1>5
  <1>6. \A i \in Slots : vaults'[i] = None  BY Zenon DEF Closed
  <1> USE <1>6
  <1>7. TypeOK'
    <2>1. vaults' \in [Slots -> Handles \cup {None}]  BY Zenon DEF Closed
    <2>2. load' \in Loads /\ sidecar' \in [Users -> Wraps \cup {None}]
          /\ timeout' \in load'.timeouts /\ timer' \in BOOLEAN
      BY DEF VaultInv, TypeOK
    <2> QED  BY <2>1, <2>2, Zenon DEF TypeOK
  <1>8. OneSlot(vaults') /\ AnnouncedUnlockedIsReal'
    BY Zenon DEF OneSlot, AnnouncedUnlockedIsReal
  <1>9. Expected(may'[u], q)  BY <1>2, ExpectedEdit, Zenon
  <1>10. \A v \in Users : disk'[v] # None => FileOk(v)'
    BY <1>3, <1>9, Zenon DEF VaultInv, FileOk
  <1>11. \A v \in Users : Unlocked(v)' = {}  BY ZenonT(40) DEF Unlocked, SlotsOf
  <1>12. Promise!UnansweredChange(u)
    <2>1. Table(p) # None  BY <1>2, TableType, Zenon
    <2>2. \A other \in Ids \ {id} : Table(q)[other] = Table(p)[other]
      BY EditChangesOne
    <2> QED
      BY <1>11, <2>1, <2>2 DEF Promise!UnansweredChange, Promise!Others
  <1>13. \A v \in Users : HistoryRecorded(v) /\ SequenceGrown(v)
    BY <1>11, Zenon DEF HistoryRecorded, SequenceGrown
  <1> QED
    BY <1>7, <1>8, <1>10, <1>12, <1>13, Zenon DEF VaultInv, Lawful, Promise!Next

LEMMA StoresStep ==
  ASSUME VaultInv, NEW u \in Users, Unlocked(u) # {}, NEW q, NEW id \in Ids,
         NEW want \in Contents \cup {None}, Edit(Payload(u), q, id, want),
         Stores(u, q, id, want)
  PROVE  VaultInv' /\ Lawful
  BY AcknowledgedStep, SaveFailsStep, DiesStep, Zenon DEF Stores

-----------------------------------------------------------------------------
(* The calls that change an entry.                                          *)

LEMMA SeenType ==
  ASSUME NEW e \in Entries
  PROVE  Seen(e) \in Contents
  BY Zenon DEF Seen, Contents, Entries

LEMMA EntryType ==
  ASSUME NEW id \in Ids, NEW url \in Urls, NEW text \in Texts, NEW rp \in Rps, NEW key \in Passkeys
  PROVE  /\ Entry(id, url, text, rp, key) \in Entries
         /\ Entry(id, url, text, rp, key).id = id /\ Entry(id, url, text, rp, key).rp = rp
  <1>1. <<>> \in Seq(Urls) /\ <<>> \in Seq(Revisions)  BY EmptySeq, Zenon
  <1>2. <<url>> \in Seq(Urls)  OBVIOUS
  <1> QED  BY <1>1, <1>2, Zenon DEF Entry, Entries

\* The values of a workload are values of the types.
LEMMA Drawn ==
  ASSUME VaultInv
  PROVE  /\ load.users \subseteq Users /\ load.ids \subseteq Ids
         /\ load.urls \subseteq Urls /\ load.rps \subseteq Urls /\ load.texts \subseteq Texts
         /\ load.rps \subseteq Rps /\ load.keys \subseteq Passkeys
         /\ None \notin load.rps /\ NoUrl \in Urls /\ None \in Rps /\ None \in Passkeys
  <1>1. load \in Loads  BY Zenon DEF VaultInv, TypeOK
  <1>2. load.users \subseteq Users /\ load.ids \subseteq Ids /\ None \notin load.rps
    BY <1>1, VaultAssumption, Zenon DEF Ids
  <1> QED  BY <1>1, <1>2, Zenon DEF Urls, Texts, Rps, Passkeys

\* A new identifier is in no vault that is open.
LEMMA FreshIsFree ==
  ASSUME VaultInv, NEW u \in Users, Unlocked(u) # {}, NEW id \in FreshUuids
  PROVE  id \in Ids /\ ~Has(Payload(u), id)
  <1>1. id \in Ids /\ may[u][id] = {Absent}  BY Zenon DEF FreshUuids, Ids
  <1>2. Good(Payload(u)) /\ Expected(may[u], Payload(u))  BY Serving, Zenon
  <1>3. Agree(Value(Payload(u), id), Absent)  BY <1>1, <1>2, Zenon DEF Expected
  <1>4. ASSUME Has(Payload(u), id)  PROVE FALSE
    <2>1. Seen(Get(Payload(u), id)) \in Contents  BY <1>2, <1>4, GetOf, SeenType, Zenon
    <2> QED  BY <1>3, <1>4, <2>1, NoneAssumption, Zenon DEF Agree, Value, Absent
  <1> QED  BY <1>1, <1>4, Zenon

LEMMA SaveCredentialStep ==
  ASSUME VaultInv, NEW u \in load.users, NEW url \in load.urls, NEW text \in load.texts,
         SaveCredential(u, url, text)
  PROVE  VaultInv' /\ Lawful
  <1>1. u \in Users /\ Unlocked(u) # {} /\ Good(Payload(u))
    BY Drawn, Serving, Zenon DEF SaveCredential
  <1> USE <1>1
  <1>2. PICK id \in FreshUuids :
          LET e == Entry(id, url, text, None, None)
          IN  Stores(u, EntryAdd(Payload(u), e), id, Seen(e))
    BY Zenon DEF SaveCredential
  <1> DEFINE e == Entry(id, url, text, None, None)
  <1>3. id \in Ids /\ ~Has(Payload(u), id)  BY FreshIsFree, Zenon
  <1> USE <1>3
  <1>4. e \in Entries /\ e.id = id /\ e.rp = None  BY Drawn, EntryType
  <1>5. Stores(u, EntryAdd(Payload(u), e), id, Seen(e))  BY <1>2, Zenon
  <1> HIDE DEF e
  <1>6. Edit(Payload(u), EntryAdd(Payload(u), e), id, Seen(e))  BY <1>4, AddEdits, Zenon
  <1> QED  BY <1>4, <1>5, <1>6, SeenType, StoresStep, Zenon

\* If no first passkey of a relying party is found, there is none.
LEMMA NoneFound ==
  ASSUME NEW p, Good(p), NEW rp, FindPasskey(p, rp) = {}
  PROVE  \A i \in DOMAIN p.entries : p.entries[i].rp # rp
  <1> DEFINE S == {i \in DOMAIN p.entries : p.entries[i].rp = rp}
  <1>1. DOMAIN p.entries = 1..Len(p.entries) /\ Len(p.entries) \in Nat
    BY PayloadShape, Zenon DEF Good
  <1>2. S \in SUBSET Nat  BY <1>1
  <1>3. ASSUME S # {}  PROVE FALSE
    <2>1. PICK x \in S : \A y \in S : x <= y
      <3> HIDE DEF S
      <3> QED  BY <1>2, <1>3, LeastIs, Zenon
    <2>2. \A j \in 1..(x - 1) : p.entries[j].rp # rp  BY <1>1, <2>1
    <2>3. x \in FindPasskey(p, rp)  BY <2>1, <2>2, Zenon DEF FindPasskey
    <2> QED  BY <2>3, Zenon
  <1> QED  BY <1>3, Zenon

LEMMA SavePasskeyStep ==
  ASSUME VaultInv, NEW u \in load.users, NEW rp \in load.rps, NEW text \in load.texts,
         NEW key \in load.keys, SavePasskey(u, rp, text, key)
  PROVE  VaultInv' /\ Lawful
  <1> DEFINE p == Payload(u)
  <1>1. u \in Users /\ Unlocked(u) # {} /\ Good(p)
    BY Drawn, Serving, Zenon DEF SavePasskey
  <1> USE <1>1
  <1>2. CASE \E i \in FindPasskey(p, rp) :
               LET e == PasskeyUpdated(p.entries[i], text, key)
               IN  Stores(u, EntryUpdate(p, e.id, e), e.id, Seen(e))
    <2>1. PICK i \in FindPasskey(p, rp) :
            LET e == PasskeyUpdated(p.entries[i], text, key)
            IN  Stores(u, EntryUpdate(p, e.id, e), e.id, Seen(e))
      BY <1>2, Zenon
    <2> DEFINE e == PasskeyUpdated(p.entries[i], text, key)
    <2>2. i \in DOMAIN p.entries  BY Zenon DEF FindPasskey
    <2>3. p.entries[i] \in Entries  BY <2>2, PayloadShape, Zenon DEF Good
    <2>4. e \in Entries /\ e.id = p.entries[i].id /\ e.rp = p.entries[i].rp
      BY <2>3, Drawn, Zenon DEF PasskeyUpdated, Entries
    <2> USE <2>4
    <2>5. Has(p, e.id) /\ Get(p, e.id) = p.entries[i] /\ e.id \in Ids
      BY <2>2, <2>3, GetIs, Zenon DEF Entries
    <2>6. Stores(u, EntryUpdate(p, e.id, e), e.id, Seen(e))  BY <2>1, Zenon
    <2> HIDE DEF e
    <2>7. Edit(p, EntryUpdate(p, e.id, e), e.id, Seen(e))
      BY <2>5, UpdateEdits, Zenon
    <2> QED  BY <2>5, <2>6, <2>7, SeenType, StoresStep, Zenon
  <1>3. CASE /\ FindPasskey(p, rp) = {}
             /\ \E id \in FreshUuids : LET e == Passkey(id, rp, text, key)
                                       IN  RoomFor(p, id) /\ Stores(u, EntryAdd(p, e), id, Seen(e))
    <2>1. PICK id \in FreshUuids : LET e == Passkey(id, rp, text, key)
                                   IN  Stores(u, EntryAdd(p, e), id, Seen(e))
      BY <1>3, Zenon
    <2> DEFINE e == Passkey(id, rp, text, key)
    <2>2. id \in Ids /\ ~Has(p, id)  BY FreshIsFree, Zenon
    <2> USE <2>2
    <2>3. e \in Entries /\ e.id = id /\ e.rp = rp  BY Drawn, EntryType DEF Passkey
    <2>4. \A i \in DOMAIN p.entries : p.entries[i].rp # rp
      BY <1>3, NoneFound, Zenon
    <2>5. Stores(u, EntryAdd(p, e), id, Seen(e))  BY <2>1, Zenon
    <2> HIDE DEF e
    <2>6. Edit(p, EntryAdd(p, e), id, Seen(e))  BY <2>3, <2>4, AddEdits, Zenon
    <2> QED  BY <2>3, <2>5, <2>6, SeenType, StoresStep, Zenon
  <1> QED  BY <1>2, <1>3, Zenon DEF SavePasskey

LEMMA ImportTOTPStep ==
  ASSUME VaultInv, NEW u \in load.users, NEW id \in load.ids, NEW text \in load.texts,
         ImportTOTP(u, id, text)
  PROVE  VaultInv' /\ Lawful
  <1> DEFINE e == Entry(id, NoUrl, text, None, None)
  <1>1. u \in Users /\ Unlocked(u) # {} /\ Good(Payload(u)) /\ id \in Ids /\ ~Has(Payload(u), id)
    BY Drawn, Serving, Zenon DEF ImportTOTP
  <1> USE <1>1
  <1>2. e \in Entries /\ e.id = id /\ e.rp = None  BY Drawn, EntryType
  <1>3. Stores(u, EntryAdd(Payload(u), e), id, Seen(e))  BY Zenon DEF ImportTOTP
  <1> HIDE DEF e
  <1>4. Edit(Payload(u), EntryAdd(Payload(u), e), id, Seen(e))  BY <1>2, AddEdits, Zenon
  <1> QED  BY <1>2, <1>3, <1>4, SeenType, StoresStep, Zenon

LEMMA DeleteEntryStep ==
  ASSUME VaultInv, NEW u \in load.users, NEW id \in load.ids, DeleteEntry(u, id)
  PROVE  VaultInv' /\ Lawful
  <1>1. u \in Users /\ Unlocked(u) # {} /\ Good(Payload(u)) /\ id \in Ids /\ Has(Payload(u), id)
    BY Drawn, Serving, Zenon DEF DeleteEntry
  <1>2. Edit(Payload(u), EntryRemove(Payload(u), id), id, Absent)  BY <1>1, RemoveEdits, Zenon
  <1>3. Absent \in Contents \cup {None}  BY Zenon DEF Absent
  <1> QED  BY <1>1, <1>2, <1>3, StoresStep, Zenon DEF DeleteEntry

LEMMA UpdateEntryStep ==
  ASSUME VaultInv, NEW u \in load.users, NEW id \in load.ids,
         NEW url \in load.urls \cup {NoUrl}, NEW text \in load.texts, UpdateEntry(u, id, url, text)
  PROVE  VaultInv' /\ Lawful
  <1> DEFINE e == Get(Payload(u), id)
             new == [e EXCEPT !.url = IF url = NoUrl THEN @ ELSE url, !.text = text]
  <1>1. u \in Users /\ Unlocked(u) # {} /\ Good(Payload(u)) /\ id \in Ids /\ Has(Payload(u), id)
    BY Drawn, Serving, Zenon DEF UpdateEntry
  <1> USE <1>1
  <1>2. e \in Entries /\ e.id = id  BY GetOf, Zenon
  <1>3. Stores(u, EntryUpdate(Payload(u), id, new), id, Seen(new))  BY Zenon DEF UpdateEntry
  <1>4. new \in Entries /\ new.id = id /\ new.rp = e.rp
    <2> DEFINE x == IF url = NoUrl THEN e.url ELSE url
    <2> HIDE DEF e
    <2>1. x \in Urls /\ text \in Texts  BY <1>2, Drawn, Zenon DEF Entries
    <2>2. new = [e EXCEPT !.url = x, !.text = text]  BY Zenon
    <2> HIDE DEF x, new
    <2> QED  BY ONLY <1>2, <2>1, <2>2, Zenon DEF Entries
  <1> HIDE DEF new
  <1>5. Edit(Payload(u), EntryUpdate(Payload(u), id, new), id, Seen(new))
    BY <1>4, UpdateEdits, Zenon
  <1> QED  BY <1>3, <1>4, <1>5, SeenType, StoresStep, Zenon

LEMMA RestoreEntryRevisionStep ==
  ASSUME VaultInv, NEW u \in load.users, NEW id \in load.ids, NEW n \in 1..MaxHistory,
         RestoreEntryRevision(u, id, n)
  PROVE  VaultInv' /\ Lawful
  <1> DEFINE e == Get(Payload(u), id)
             new == RestoreFromRevision(e, e.history[n])
  <1>1. u \in Users /\ Unlocked(u) # {} /\ Good(Payload(u)) /\ id \in Ids /\ Has(Payload(u), id)
    BY Drawn, Serving, Zenon DEF RestoreEntryRevision
  <1> USE <1>1
  <1>2. e \in Entries /\ e.id = id  BY GetOf, Zenon
  <1>3. /\ Stores(u, EntryUpdate(Payload(u), id, new), id, Seen(new))
        /\ n \in DOMAIN e.history
    BY Zenon DEF RestoreEntryRevision
  <1>4. new \in Entries /\ new.id = id /\ new.rp = e.rp
    <2> DEFINE r == e.history[n]
               s == IF r.url = NoUrl THEN <<>> ELSE <<r.url>>
    <2> HIDE DEF e
    <2>1. e.history \in Seq(Revisions)  BY <1>2, Zenon DEF Entries
    <2>2. r \in Revisions  BY <1>3, <2>1, LenProperties, ElementOfSeq, Zenon
    <2> HIDE DEF r
    <2>3. r.url \in Urls /\ r.text \in Texts  BY <2>2, Zenon DEF Revisions
    <2>4. s \in Seq(Urls)
      <3>1. <<>> \in Seq(Urls)  BY EmptySeq, Zenon
      <3>2. <<r.url>> \in Seq(Urls)  BY <2>3
      <3> QED  BY <3>1, <3>2, Zenon
    <2>5. new = [e EXCEPT !.url = r.url, !.text = r.text, !.urls = s]
      BY Zenon DEF RestoreFromRevision, r
    <2> HIDE DEF s, new
    <2> QED  BY ONLY <1>2, <2>3, <2>4, <2>5, Zenon DEF Entries
  <1> HIDE DEF new
  <1>5. Edit(Payload(u), EntryUpdate(Payload(u), id, new), id, Seen(new))
    BY <1>4, UpdateEdits, Zenon
  <1> QED  BY <1>3, <1>4, <1>5, SeenType, StoresStep, Zenon

-----------------------------------------------------------------------------
(* The theorems.                                                            *)

LEMMA InitHolds ==
  ASSUME Init
  PROVE  VaultInv
  <1>1. load \in Loads /\ timeout \in load.timeouts /\ timer \in BOOLEAN  BY DEF Init
  <1>2. /\ disk \in [Users -> VaultFiles \cup {None}] /\ sidecar \in [Users -> Wraps \cup {None}]
        /\ vaults \in [Slots -> Handles \cup {None}]
        /\ may \in [Users -> [Ids -> SUBSET (Contents \cup {Absent})]]
    BY Zenon DEF Init, Closed, Absent
  <1>3. (\A i \in Slots : vaults[i] = None) /\ (\A u \in Users : disk[u] = None)
    BY Zenon DEF Init, Closed
  <1>4. AnnouncedUnlockedIsReal  BY Zenon DEF Init, AnnouncedUnlockedIsReal
  <1> QED  BY <1>1, <1>2, <1>3, <1>4, Zenon DEF VaultInv, TypeOK, OneSlot

LEMMA QueriesStep ==
  ASSUME VaultInv, NEW u \in load.users, Queries(u)
  PROVE  VaultInv' /\ Lawful
  <1>1. Reads(u)
    BY Zenon DEF Queries, SearchCredentials, GetAllCredentials, ListPasskeys, SearchAdvanced, Search,
           ListGroups, GetCredential, GetPasskey, GetEntry, GetEntryHistory, ListEntryAttachments,
           GetTOTP
  <1> QED  BY <1>1, ReadsStep, Zenon

LEMMA ChangesStep ==
  ASSUME VaultInv, NEW u \in load.users, Changes(u)
  PROVE  VaultInv' /\ Lawful
  BY SaveCredentialStep, SavePasskeyStep, ImportTOTPStep, DeleteEntryStep, UpdateEntryStep,
     RestoreEntryRevisionStep, Zenon
  DEF Changes

LEMMA StutterStep ==
  ASSUME VaultInv, UNCHANGED vars
  PROVE  VaultInv' /\ Lawful
  <1>1. \A i \in Slots : vaults'[i] # None => Stays(i)
    BY Zenon DEF vars, Stays, VaultInv, TypeOK
  <1>2. AnnouncedUnlockedIsReal'
    BY Zenon DEF vars, VaultInv, AnnouncedUnlockedIsReal, AllUnlocked, IsLocked
  <1> QED  BY <1>1, <1>2, SlotStep, Zenon DEF vars, VaultInv, TypeOK

\* Every step keeps the invariant and is lawful.
LEMMA NextStep ==
  ASSUME VaultInv, [Next]_vars
  PROVE  VaultInv' /\ Lawful
  <1>1. ASSUME NEW u \in load.users,
               \/ \E w \in load.wraps : SealWrappingKey(u, w)
               \/ \E mode \in load.modes, w \in load.wraps : VaultCreate(u, mode, w)
               \/ AlreadyUnlocked(u) \/ AutoUnlock(u) \/ Status(u) \/ LockVault(u)
               \/ Changes(u) \/ Queries(u)
        PROVE  VaultInv' /\ Lawful
    <2>1. CASE \E w \in load.wraps : SealWrappingKey(u, w)  BY <2>1, SealWrappingKeyStep, Zenon
    <2>2. CASE \E mode \in load.modes, w \in load.wraps : VaultCreate(u, mode, w)
      BY <2>2, VaultCreateStep, Zenon
    <2>3. CASE AlreadyUnlocked(u)  BY <2>3, AlreadyUnlockedStep, Zenon
    <2>4. CASE AutoUnlock(u)  BY <2>4, AutoUnlockStep, Zenon
    <2>5. CASE Status(u)  BY <2>5, StatusStep, Zenon
    <2>6. CASE LockVault(u)
      <3>1. Unlocked(u) \in SUBSET AllUnlocked  BY Zenon DEF Unlocked, SlotsOf, AllUnlocked
      <3> QED  BY <2>6, <3>1, LockStep, Zenon DEF LockVault
    <2>7. CASE Changes(u)  BY <2>7, ChangesStep, Zenon
    <2>8. CASE Queries(u)  BY <2>8, QueriesStep, Zenon
    <2> QED  BY <1>1, <2>1, <2>2, <2>3, <2>4, <2>5, <2>6, <2>7, <2>8, Zenon
  <1>2. CASE SessionLock  BY <1>2, LockStep, Zenon DEF SessionLock
  <1>3. CASE CheckVaultIdleTimeout
    <2>1. {i \in AllUnlocked : Idle(i)} \in SUBSET AllUnlocked  BY Zenon
    <2> QED  BY <1>3, <2>1, LockStep, Zenon DEF CheckVaultIdleTimeout
  <1>4. CASE Tick  BY <1>4, TickStep, Zenon
  <1>5. CASE Restart  BY <1>5, RestartStep, Zenon
  <1>6. CASE \E t \in load.timeouts : Reload(t)  BY <1>6, ReloadStep, Zenon
  <1>7. CASE UNCHANGED vars  BY <1>7, StutterStep, Zenon
  <1> QED  BY <1>1, <1>2, <1>3, <1>4, <1>5, <1>6, <1>7, Zenon DEF Next

\* The invariant implies what the runs check.
LEMMA InvIsConsistent ==
  ASSUME VaultInv
  PROVE  StoreConsistent
  <1>1. AckedOnDisk  BY Zenon DEF VaultInv, FileOk, Expected, AckedOnDisk
  <1>2. \A rp \in load.rps : rp # None  BY Drawn, Zenon
  <1>3. \A i \in AllUnlocked : Good(vaults[i].payload)
    BY Zenon DEF AllUnlocked, IsLocked, VaultInv, HandleOk
  <1>4. \A u \in Users : disk[u] # None => Good(disk[u].payload)
    BY Zenon DEF VaultInv, FileOk
  <1>5. PasskeysUnique  BY <1>2, <1>3, <1>4 DEF PasskeysUnique, Good
  <1> QED  BY <1>1, <1>5, Zenon DEF StoreConsistent, VaultInv

\* The inductive invariant: one slot per user, handles that are not behind their
\* files, distinct identifiers and relying parties in every payload, and in
\* memory as in the files nothing but what the answers of the daemon allow.
THEOREM VaultInvariant == Spec => []VaultInv
<1>1. Init => VaultInv  BY InitHolds, Zenon
<1>2. VaultInv /\ [Next]_vars => VaultInv'  BY NextStep, Zenon
<1> QED  BY <1>1, <1>2, PTL DEF Spec

\* What was acknowledged stays in the file through failing saves and restarts, no
\* relying party has two passkeys, and slots and files keep their types.
THEOREM StoreStaysConsistent == Spec => []StoreConsistent
<1>1. VaultInv => StoreConsistent  BY InvIsConsistent, Zenon
<1> QED  BY <1>1, VaultInvariant, PTL

\* No path that locks forgets the signal, so "unlocked" is never left standing.
THEOREM SignalIsHonest == Spec => []AnnouncedUnlockedIsReal
<1>1. VaultInv => AnnouncedUnlockedIsReal  BY Zenon DEF VaultInv
<1> QED  BY <1>1, VaultInvariant, PTL

\* Every overwritten entry is the last revision of what replaced it, and every
\* save has a larger sequence number than the file it replaces.
THEOREM HistoryAndSequenceGrow == Spec => ChangesAreRecorded
<1>1. VaultInv /\ [Next]_vars => [\A u \in Users : HistoryRecorded(u)]_vars
  BY NextStep, Zenon DEF Lawful
<1>2. VaultInv /\ [Next]_vars => [\A u \in Users : SequenceGrown(u)]_vars
  BY NextStep, Zenon DEF Lawful
<1> QED
  BY <1>1, <1>2, VaultInvariant, PTL
  DEF Spec, ChangesAreRecorded, HistoryRecords, SequenceGrows

\* The daemon's slots, handles and files implement the promise: stored tables
\* change by whole changes of one entry, and views are what is stored plus the
\* changes since the unlock.
THEOREM KeepsPromise == Spec => ImplementsPromise
<1>1. Init => Promise!Init
  <2> SUFFICES ASSUME Init  PROVE Promise!Init
    BY Zenon
  <2>1. (\A u \in Users : disk[u] = None) /\ (\A i \in Slots : vaults[i] = None)
    BY Zenon DEF Init, Closed
  <2>2. \A u \in Users : Unlocked(u) = {}  BY <2>1, Zenon DEF Unlocked, SlotsOf
  <2> QED  BY <2>1, <2>2, Zenon DEF Promise!Init, Promise!Empty
<1>2. VaultInv /\ [Next]_vars => [Promise!Next]_Promise!vars
  BY NextStep, Zenon DEF Lawful
<1> QED  BY <1>1, <1>2, VaultInvariant, PTL DEF Spec, ImplementsPromise, Promise!Spec
=============================================================================
