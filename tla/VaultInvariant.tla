--------------------------- MODULE VaultInvariant ---------------------------
(***************************************************************************)
(* The inductive invariant of Vault, which ties the slots, the files and   *)
(* the expectations of the clients together; what an edit of a payload     *)
(* leaves alone; and that the steps that write no file keep the invariant  *)
(* and the promise of VaultPromise.                                        *)
(***************************************************************************)
EXTENDS Vault, SequenceTheorems, WellFoundedInduction, TLAPS

USE SMTT(30), ZenonT(30)

-----------------------------------------------------------------------------
(* Payloads.                                                                *)

\* An identifier, and a relying party, stands in one entry at most.
Good(p) ==
  /\ p \in Payloads
  /\ \A i, j \in DOMAIN p.entries :
       /\ p.entries[i].id = p.entries[j].id => i = j
       /\ (p.entries[i].rp = p.entries[j].rp /\ p.entries[i].rp # None) => i = j

\* Payload q is p with another entry under id, of which clients expect want.
Edit(p, q, id, want) ==
  /\ Good(q)
  /\ \A other \in Ids \ {id} : Value(q, other) = Value(p, other)
  /\ Agree(Value(q, id), want)
  /\ \A some \in Ids : (Has(p, some) /\ Has(q, some) /\ Get(q, some) # Get(p, some)) =>
       /\ Get(q, some).history # <<>>
       /\ Latest(Get(q, some).history) = RevisionFromEntry(Get(p, some))

\* A payload is a sequence of entries, found by their positions.
LEMMA PayloadShape ==
  ASSUME NEW p \in Payloads
  PROVE  /\ p.entries \in Seq(Entries)
         /\ DOMAIN p.entries = 1..Len(p.entries)
         /\ Len(p.entries) \in Nat
         /\ \A i \in DOMAIN p.entries : p.entries[i] \in Entries
  <1>1. p.entries \in Seq(Entries)  BY Zenon DEF Payloads
  <1> QED  BY <1>1, LenProperties, ElementOfSeq, Zenon

LEMMA MakesPayload ==
  ASSUME NEW s \in Seq(Entries), NEW b \in BOOLEAN
  PROVE  [entries |-> s, rest |-> b] \in Payloads
  BY Zenon DEF Payloads

\* With distinct identifiers Get finds the entry that has the identifier.
LEMMA GetIs ==
  ASSUME NEW p, Good(p), NEW i \in DOMAIN p.entries
  PROVE  /\ Has(p, p.entries[i].id)
         /\ At(p, p.entries[i].id) = i
         /\ Get(p, p.entries[i].id) = p.entries[i]
  <1>1. At(p, p.entries[i].id) \in DOMAIN p.entries /\ p.entries[At(p, p.entries[i].id)].id = p.entries[i].id
    BY Zenon DEF At
  <1>2. At(p, p.entries[i].id) = i  BY <1>1, Zenon DEF Good
  <1> QED  BY <1>2, Zenon DEF Has, Get

\* The entry that Get returns is one of the payload's.
LEMMA GetOf ==
  ASSUME NEW p, Good(p), NEW id, Has(p, id)
  PROVE  /\ At(p, id) \in DOMAIN p.entries
         /\ Get(p, id) = p.entries[At(p, id)]
         /\ Get(p, id) \in Entries
         /\ Get(p, id).id = id
  <1>1. At(p, id) \in DOMAIN p.entries /\ p.entries[At(p, id)].id = id  BY Zenon DEF At, Has
  <1> QED  BY <1>1, PayloadShape, Zenon DEF Get, Good

\* Copying an entry keeps all but the url and the list of urls.
LEMMA CloneKeeps ==
  ASSUME NEW e \in Entries
  PROVE  /\ EntryClone(e) \in Entries
         /\ EntryClone(e).id = e.id /\ EntryClone(e).rp = e.rp
         /\ EntryClone(e).text = e.text /\ EntryClone(e).key = e.key
         /\ EntryClone(e).history = e.history
  <1>1. e.urls \in Seq(Urls) /\ e.url \in Urls  BY Zenon DEF Entries
  <1> USE <1>1
  <1>2. e.urls # <<>> => Head(e.urls) \in Urls  BY HeadTailProperties, Zenon
  <1>3. <<e.url>> \in Seq(Urls)  OBVIOUS
  <1> QED  BY <1>2, <1>3, Zenon DEF EntryClone, Entries

\* Pushing a revision makes it the last one and keeps the rest of the entry.
LEMMA PushKeeps ==
  ASSUME NEW e \in Entries, NEW rev \in Revisions
  PROVE  /\ HistoryPush(e, rev) \in Entries
         /\ HistoryPush(e, rev).id = e.id /\ HistoryPush(e, rev).rp = e.rp
         /\ HistoryPush(e, rev).text = e.text /\ HistoryPush(e, rev).key = e.key
         /\ HistoryPush(e, rev).history # <<>>
         /\ Latest(HistoryPush(e, rev).history) = rev
  <1> DEFINE H == IF Len(e.history) < MaxHistory THEN e.history ELSE Tail(e.history)
  <1>1. e.history \in Seq(Revisions) /\ Len(e.history) \in Nat
    BY LenProperties, Zenon DEF Entries
  <1>2. H \in Seq(Revisions)
    <2>1. Len(e.history) < MaxHistory \/ e.history # <<>>
      BY <1>1, EmptySeq, VaultAssumption
    <2> QED  BY <1>1, <2>1, HeadTailProperties, Zenon
  <1> HIDE DEF H
  <1>3. /\ Append(H, rev) \in Seq(Revisions) /\ Append(H, rev) # <<>>
        /\ Append(H, rev)[Len(Append(H, rev))] = rev
    BY <1>2, AppendProperties
  <1>4. HistoryPush(e, rev) = [e EXCEPT !.history = Append(H, rev)]
    BY Zenon DEF HistoryPush, H
  <1> QED  BY <1>3, <1>4, Zenon DEF Entries, Latest

\* pm_vault_entry_update changes the entry with the id and no other.
LEMMA UpdateEdits ==
  ASSUME NEW p, Good(p), NEW id \in Ids, Has(p, id),
         NEW new \in Entries, new.id = id, new.rp = Get(p, id).rp
  PROVE  Edit(p, EntryUpdate(p, id, new), id, Seen(new))
  <1> DEFINE q == EntryUpdate(p, id, new)
             c(i) == EntryClone(HistoryPush(EntryClone(new), RevisionFromEntry(p.entries[i])))
  <1>1. \A i \in DOMAIN p.entries :
          /\ c(i) \in Entries /\ c(i).id = id /\ c(i).rp = new.rp
          /\ c(i).text = new.text /\ c(i).key = new.key
          /\ c(i).history # <<>> /\ Latest(c(i).history) = RevisionFromEntry(p.entries[i])
    <2> SUFFICES ASSUME NEW i \in DOMAIN p.entries
                 PROVE  /\ c(i) \in Entries /\ c(i).id = id /\ c(i).rp = new.rp
                        /\ c(i).text = new.text /\ c(i).key = new.key
                        /\ c(i).history # <<>> /\ Latest(c(i).history) = RevisionFromEntry(p.entries[i])
      BY Zenon
    <2>1. p.entries[i] \in Entries  BY PayloadShape, Zenon DEF Good
    <2>2. RevisionFromEntry(p.entries[i]) \in Revisions
      BY <2>1, Zenon DEF RevisionFromEntry, Revisions, Entries
    <2> QED  BY <2>2, CloneKeeps, PushKeeps
  <1> USE <1>1
  <1> HIDE DEF c
  <1>2. /\ DOMAIN q.entries = DOMAIN p.entries
        /\ \A i \in DOMAIN p.entries :
             q.entries[i] = IF p.entries[i].id # id THEN p.entries[i] ELSE c(i)
    BY Zenon DEF EntryUpdate, c
  <1> USE <1>2
  <1>3. q \in Payloads
    <2>1. \A i \in 1..Len(p.entries) : q.entries[i] \in Entries
      BY PayloadShape DEF Good
    <2>2. q.entries \in [1..Len(p.entries) -> Entries]
      <3>1. q.entries = [i \in 1..Len(p.entries) |-> q.entries[i]]
        BY PayloadShape, Zenon DEF EntryUpdate, Good
      <3> QED  BY <2>1, <3>1, Zenon
    <2>3. q.entries \in Seq(Entries)
      BY <2>2, SeqDef, PayloadShape, Zenon DEF Good
    <2>4. q = [entries |-> q.entries, rest |-> FALSE]  BY Zenon DEF EntryUpdate
    <2> QED  BY <2>3, <2>4, MakesPayload, Zenon
  <1>4. \A i \in DOMAIN p.entries : p.entries[i].id = id => p.entries[i] = Get(p, id)
    BY GetIs, Zenon
  <1>5. \A i \in DOMAIN p.entries : q.entries[i].id = p.entries[i].id /\ q.entries[i].rp = p.entries[i].rp
    BY <1>4, Zenon
  <1> USE <1>5
  <1>6. Good(q)
    BY <1>3 DEF Good
  <1>7. \A some : Has(q, some) = Has(p, some)
    BY Zenon DEF Has
  <1>8. \A some : Has(p, some) => Get(q, some) = q.entries[At(p, some)]
    <2> SUFFICES ASSUME NEW some, Has(p, some)
                 PROVE  Get(q, some) = q.entries[At(p, some)]
      BY Zenon
    <2>1. At(p, some) \in DOMAIN p.entries /\ p.entries[At(p, some)].id = some  BY GetOf
    <2> QED  BY <2>1, <1>6, GetIs
  <1> HIDE DEF q
  <1>9. \A other \in Ids \ {id} : Has(p, other) => Get(q, other) = Get(p, other)
    BY <1>8, GetOf
  <1>10. Get(q, id) = c(At(p, id))
    BY <1>8, GetOf
  <1> USE <1>10
  <1>11. At(p, id) \in DOMAIN p.entries /\ p.entries[At(p, id)] = Get(p, id)
    BY GetOf
  <1> USE <1>11
  <1>12. Agree(Value(q, id), Seen(new))
    <2>1. Seen(new) \in Contents /\ Seen(Get(q, id)) \in Contents
      BY Zenon DEF Seen, Contents, Entries
    <2>2. Value(q, id) = Seen(Get(q, id))  BY <1>7, Zenon DEF Value
    <2> QED  BY <2>1, <2>2, NoneAssumption DEF Agree, Seen, Absent
  <1>13. \A other \in Ids \ {id} : Value(q, other) = Value(p, other)
    BY <1>7, <1>9, Zenon DEF Value
  <1>14. \A some \in Ids : (Has(p, some) /\ Get(q, some) # Get(p, some)) =>
           /\ Get(q, some).history # <<>>
           /\ Latest(Get(q, some).history) = RevisionFromEntry(Get(p, some))
    BY <1>9
  <1> QED  BY <1>6, <1>12, <1>13, <1>14, Zenon DEF Edit, q

\* pm_vault_entry_add appends an entry with a new id.
LEMMA AddEdits ==
  ASSUME NEW p, Good(p), NEW e \in Entries, ~Has(p, e.id),
         \A i \in DOMAIN p.entries : e.rp = None \/ p.entries[i].rp # e.rp
  PROVE  Edit(p, EntryAdd(p, e), e.id, Seen(e))
  <1> DEFINE q == EntryAdd(p, e)
             n == Len(p.entries)
             c == EntryClone(e)
  <1>1. q = [p EXCEPT !.entries = Append(@, c)]  BY Zenon DEF EntryAdd
  <1>2. c \in Entries /\ c.id = e.id /\ c.rp = e.rp /\ c.text = e.text /\ c.key = e.key
    BY CloneKeeps, Zenon
  <1> USE <1>2
  <1> HIDE DEF c
  <1>3. q \in Payloads /\ q.entries = Append(p.entries, c)
    BY <1>1, PayloadShape, AppendProperties, Zenon DEF Good, Payloads
  <1>4. /\ n \in Nat /\ DOMAIN p.entries = 1..n /\ DOMAIN q.entries = 1..(n + 1)
        /\ \A i \in 1..n : q.entries[i] = p.entries[i]
        /\ q.entries[n + 1] = c
    BY <1>3, PayloadShape, AppendProperties, LenProperties DEF Good
  <1> USE <1>4
  <1> HIDE DEF q, n
  <1>5. Good(q)
    <2> SUFFICES ASSUME NEW i \in DOMAIN q.entries, NEW j \in DOMAIN q.entries
                 PROVE  /\ q.entries[i].id = q.entries[j].id => i = j
                        /\ (q.entries[i].rp = q.entries[j].rp /\ q.entries[i].rp # None) => i = j
      BY <1>3, Zenon DEF Good
    <2>1. CASE i \in 1..n /\ j \in 1..n  BY <2>1 DEF Good
    <2>2. CASE i \in 1..n /\ j = n + 1  BY <2>2, Zenon DEF Has
    <2>3. CASE i = n + 1 /\ j \in 1..n  BY <2>3, Zenon DEF Has
    <2>4. CASE i = n + 1 /\ j = n + 1  BY <2>4, Zenon
    <2> QED  BY <2>1, <2>2, <2>3, <2>4
  <1> USE <1>5
  <1>6. \A some : Has(p, some) => Has(q, some) /\ Get(q, some) = Get(p, some)
    <2> SUFFICES ASSUME NEW some, Has(p, some)
                 PROVE  Has(q, some) /\ Get(q, some) = Get(p, some)
      BY Zenon
    <2>1. At(p, some) \in 1..n /\ p.entries[At(p, some)].id = some /\ Get(p, some) = p.entries[At(p, some)]
      BY GetOf
    <2>2. At(p, some) \in DOMAIN q.entries /\ q.entries[At(p, some)] = p.entries[At(p, some)]
      BY <2>1
    <2> QED  BY <2>1, <2>2, GetIs
  <1>7. \A some : (Has(q, some) /\ ~Has(p, some)) => some = e.id
    BY DEF Has
  <1>8. Has(q, e.id) /\ Get(q, e.id) = c
    <2>1. n + 1 \in DOMAIN q.entries  OBVIOUS
    <2> QED  BY <2>1, GetIs, Zenon
  <1>9. \A other \in Ids \ {e.id} : Value(q, other) = Value(p, other)
    BY <1>6, <1>7, Zenon DEF Value
  <1>10. Agree(Value(q, e.id), Seen(e))
    <2>1. Seen(e) \in Contents /\ Seen(c) \in Contents
      BY Zenon DEF Seen, Contents, Entries
    <2>2. Value(q, e.id) = Seen(c)  BY <1>8, Zenon DEF Value
    <2> QED  BY <2>1, <2>2, NoneAssumption DEF Agree, Seen, Absent
  <1>11. \A some \in Ids : (Has(p, some) /\ Has(q, some)) => Get(q, some) = Get(p, some)
    BY <1>6, Zenon
  <1> QED  BY <1>9, <1>10, <1>11, Zenon DEF Edit, q

\* pm_vault_entry_remove takes the entry with the id out and leaves the others.
LEMMA RemoveEdits ==
  ASSUME NEW p, Good(p), NEW id \in Ids, Has(p, id)
  PROVE  Edit(p, EntryRemove(p, id), id, Absent)
  <1> DEFINE q == EntryRemove(p, id)
             n == Len(p.entries)
             k == At(p, id)
  <1>1. /\ p.entries \in Seq(Entries) /\ n \in Nat /\ DOMAIN p.entries = 1..n
        /\ k \in 1..n /\ p.entries[k].id = id
    BY PayloadShape, GetOf DEF Good
  <1>2. q.entries = SubSeq(p.entries, 1, k - 1) \o SubSeq(p.entries, k + 1, n)
    BY Zenon DEF EntryRemove
  <1>3. \A i \in 1..n : p.entries[i] \in Entries  BY <1>1, PayloadShape, Zenon DEF Good
  <1>4. q = [entries |-> q.entries, rest |-> FALSE]  BY Zenon DEF EntryRemove
  <1> HIDE DEF q, n, k
  <1> DEFINE a == SubSeq(p.entries, 1, k - 1)
             b == SubSeq(p.entries, k + 1, n)
  <1>5. /\ a \in Seq(Entries) /\ Len(a) = k - 1
        /\ \A i \in 1..(k - 1) : a[i] = p.entries[i]
    <2>1. \A i \in 1..(k - 1) : p.entries[i] \in Entries  BY <1>1, <1>3
    <2>2. 1 \in Int /\ k - 1 \in Int  BY <1>1
    <2>3. /\ a \in Seq(Entries) /\ Len(a) = IF 1 <= k - 1 THEN (k - 1) - 1 + 1 ELSE 0
          /\ \A i \in 1..((k - 1) - 1 + 1) : a[i] = p.entries[1 + i - 1]
      BY <2>1, <2>2, SubSeqProperties
    <2> HIDE DEF a
    <2> QED  BY <2>3, <1>1
  <1>6. /\ b \in Seq(Entries) /\ Len(b) = n - k
        /\ \A i \in 1..(n - k) : b[i] = p.entries[k + i]
    <2>1. \A i \in (k + 1)..n : p.entries[i] \in Entries  BY <1>1, <1>3
    <2>2. k + 1 \in Int /\ n \in Int  BY <1>1
    <2>3. /\ b \in Seq(Entries) /\ Len(b) = IF k + 1 <= n THEN n - (k + 1) + 1 ELSE 0
          /\ \A i \in 1..(n - (k + 1) + 1) : b[i] = p.entries[(k + 1) + i - 1]
      BY <2>1, <2>2, SubSeqProperties
    <2> HIDE DEF b
    <2> QED  BY <2>3, <1>1
  <1> HIDE DEF a, b
  <1>7. /\ q.entries \in Seq(Entries) /\ Len(q.entries) = n - 1
        /\ \A i \in 1..(n - 1) : q.entries[i] = IF i < k THEN p.entries[i] ELSE p.entries[i + 1]
    <2>1. q.entries = a \o b  BY <1>2, Zenon DEF a, b
    <2>2. /\ a \o b \in Seq(Entries) /\ Len(a \o b) = Len(a) + Len(b)
          /\ \A i \in 1..(Len(a) + Len(b)) : (a \o b)[i] = IF i <= Len(a) THEN a[i] ELSE b[i - Len(a)]
      BY <1>5, <1>6, ConcatProperties, Zenon
    <2>3. Len(a) + Len(b) = n - 1  BY <1>1, <1>5, <1>6
    <2>4. \A i \in 1..(n - 1) : q.entries[i] = IF i <= k - 1 THEN a[i] ELSE b[i - (k - 1)]
      BY <2>1, <2>2, <2>3, <1>5, Zenon
    <2>5. ASSUME NEW i \in 1..(n - 1)
          PROVE  q.entries[i] = IF i < k THEN p.entries[i] ELSE p.entries[i + 1]
      <3>1. CASE i < k  BY <3>1, <2>4, <1>1, <1>5
      <3>2. CASE ~(i < k)
        <4>1. i - (k - 1) \in 1..(n - k) /\ k + (i - (k - 1)) = i + 1  BY <3>2, <1>1
        <4> QED  BY <3>2, <4>1, <2>4, <1>1, <1>6
      <3> QED  BY <3>1, <3>2, Zenon
    <2> QED  BY <2>1, <2>2, <2>3, <2>5, Zenon
  <1>8. DOMAIN q.entries = 1..(n - 1)  BY <1>7, LenProperties, Zenon
  <1>9. \A i \in DOMAIN q.entries :
          \E j \in DOMAIN p.entries : j # k /\ q.entries[i] = p.entries[j] /\ j = IF i < k THEN i ELSE i + 1
    BY <1>1, <1>7, <1>8
  <1>10. Good(q)
    <2>1. q \in Payloads  BY <1>4, <1>7, MakesPayload, Zenon
    <2> SUFFICES ASSUME NEW i \in DOMAIN q.entries, NEW j \in DOMAIN q.entries
                 PROVE  /\ q.entries[i].id = q.entries[j].id => i = j
                        /\ (q.entries[i].rp = q.entries[j].rp /\ q.entries[i].rp # None) => i = j
      BY <2>1, Zenon DEF Good
    <2>2. PICK x \in DOMAIN p.entries : q.entries[i] = p.entries[x] /\ x = IF i < k THEN i ELSE i + 1
      BY <1>9, Zenon
    <2>3. PICK y \in DOMAIN p.entries : q.entries[j] = p.entries[y] /\ y = IF j < k THEN j ELSE j + 1
      BY <1>9, Zenon
    <2>4. x = y => i = j  BY <1>1, <1>8, <2>2, <2>3
    <2> QED  BY <2>2, <2>3, <2>4 DEF Good
  <1>11. ~Has(q, id)
    BY <1>1, <1>9 DEF Good, Has
  <1>12. \A some : Has(q, some) => Has(p, some) /\ Get(q, some) = Get(p, some)
    <2> SUFFICES ASSUME NEW some, Has(q, some)
                 PROVE  Has(p, some) /\ Get(q, some) = Get(p, some)
      BY Zenon
    <2>1. PICK i \in DOMAIN q.entries : q.entries[i].id = some  BY Zenon DEF Has
    <2>2. PICK j \in DOMAIN p.entries : q.entries[i] = p.entries[j]  BY <1>9, Zenon
    <2> QED  BY <2>1, <2>2, <1>10, GetIs, Zenon
  <1>13. \A some : (Has(p, some) /\ some # id) => Has(q, some)
    <2> SUFFICES ASSUME NEW some, Has(p, some), some # id
                 PROVE  Has(q, some)
      BY Zenon
    <2>1. PICK j \in 1..n : p.entries[j].id = some  BY <1>1, Zenon DEF Has
    <2>2. j # k  BY <2>1, <1>1, Zenon
    <2>3. CASE j < k
      <3>1. j \in 1..(n - 1) /\ q.entries[j] = p.entries[j]  BY <2>3, <1>1, <1>7
      <3> QED  BY <3>1, <2>1, <1>8, Zenon DEF Has
    <2>4. CASE j > k
      <3>1. j - 1 \in 1..(n - 1) /\ ~(j - 1 < k) /\ (j - 1) + 1 = j  BY <2>4, <1>1
      <3>2. q.entries[j - 1] = p.entries[j]  BY <3>1, <1>7, Zenon
      <3> QED  BY <3>1, <3>2, <2>1, <1>8, Zenon DEF Has
    <2> QED  BY <2>2, <2>3, <2>4, <1>1
  <1>14. \A other \in Ids \ {id} : Value(q, other) = Value(p, other)
    BY <1>12, <1>13, Zenon DEF Value
  <1>15. Agree(Value(q, id), Absent)  BY <1>11, Zenon DEF Value, Agree
  <1> QED  BY <1>10, <1>12, <1>14, <1>15, Zenon DEF Edit, q

\* What the promise shows of a payload is a table, never None.
LEMMA TableType ==
  ASSUME NEW p, Good(p)
  PROVE  Table(p) \in [Ids -> Contents \cup {None}] /\ Table(p) # None
  <1>1. \A id \in Ids : Value(p, id) \in Contents \cup {None}
    <2> SUFFICES ASSUME NEW id \in Ids, Has(p, id)  PROVE Seen(Get(p, id)) \in Contents
      BY Zenon DEF Value, Absent
    <2>1. Get(p, id) \in Entries  BY GetOf, Zenon
    <2> QED  BY <2>1, Zenon DEF Seen, Contents, Entries
  <1>2. Table(p) \in [Ids -> Contents \cup {None}]  BY <1>1, Zenon DEF Table
  <1> QED  BY <1>2, NoneAssumption, Zenon

-----------------------------------------------------------------------------
(* Slots.                                                                   *)

\* A user has one slot at most.
OneSlot(f) ==
  \A i, j \in Slots : (f[i] # None /\ f[j] # None /\ f[i].uid = f[j].uid) => i = j

\* A nonempty set of numbers has a least element.
LEMMA LeastIs ==
  ASSUME NEW S \in SUBSET Nat, S # {}
  PROVE  \E i \in S : \A j \in S : i <= j
  <1>1. PICK x \in S : \A y \in S : ~(<<y, x>> \in OpToRel(<, Nat))
    BY NatLessThanWellFounded, WFMin, Zenon
  <1>2. \A y \in S : ~(y < x)  BY <1>1, Zenon DEF OpToRel
  <1>3. \A y \in S : x <= y  BY <1>2
  <1> QED  BY <1>3, Zenon

LEMMA LeastExists ==
  ASSUME NEW S \in SUBSET Nat, S # {}
  PROVE  (CHOOSE i \in S : \A j \in S : i <= j) \in S
  BY LeastIs, Zenon

\* A user who has a slot has this one.
LEMMA SlotIs ==
  ASSUME OneSlot(vaults), NEW i \in Slots, vaults[i] # None, NEW u, vaults[i].uid = u
  PROVE  /\ SlotsOf(u) = {i} /\ SlotFor(u) = i /\ Payload(u) = vaults[i].payload
         /\ Unlocked(u) = IF vaults[i].payload = None THEN {} ELSE {i}
  <1>1. SlotsOf(u) = {i}  BY Zenon DEF SlotsOf, OneSlot
  <1>2. i <= i  BY DEF Slots
  <1>3. SlotFor(u) = i  BY <1>1, <1>2, Zenon DEF SlotFor
  <1> QED  BY <1>1, <1>3, Zenon DEF Payload, Unlocked, IsLocked

LEMMA SlotIsPrimed ==
  ASSUME OneSlot(vaults'), NEW i \in Slots, vaults'[i] # None, NEW u, vaults'[i].uid = u
  PROVE  /\ SlotsOf(u)' = {i} /\ SlotFor(u)' = i /\ Payload(u)' = vaults'[i].payload
         /\ Unlocked(u)' = IF vaults'[i].payload = None THEN {} ELSE {i}
  <1>1. SlotsOf(u)' = {i}  BY Zenon DEF SlotsOf, OneSlot
  <1>2. i <= i  BY DEF Slots
  <1>3. SlotFor(u)' = i  BY <1>1, <1>2, Zenon DEF SlotFor
  <1> QED  BY <1>1, <1>3, Zenon DEF Payload, Unlocked, IsLocked

\* The slot i shows user u payload p, in the state of f.
Shows(f, i, u, p) == f[i] # None /\ f[i].uid = u /\ f[i].payload = p /\ p # None

\* What a user sees is locked or what it was before, if no slot shows anything new.
KeptView(u) ==
  \/ Unlocked(u)' = {}
  \/ Unlocked(u)' # {} /\ Unlocked(u) # {} /\ Payload(u)' = Payload(u)

LEMMA ViewKept ==
  ASSUME OneSlot(vaults), OneSlot(vaults'), NEW u,
         \A i \in Slots : \A p : Shows(vaults', i, u, p) => Shows(vaults, i, u, p)
  PROVE  KeptView(u)
  <1>1. SUFFICES ASSUME Unlocked(u)' # {}
                 PROVE  Unlocked(u) # {} /\ Payload(u)' = Payload(u)
    BY Zenon DEF KeptView
  <1>2. PICK i \in Slots : vaults'[i] # None /\ vaults'[i].uid = u /\ vaults'[i].payload # None
    BY <1>1, Zenon DEF Unlocked, SlotsOf, IsLocked
  <1>3. Shows(vaults, i, u, vaults'[i].payload)  BY <1>2, Zenon DEF Shows
  <1> QED  BY <1>2, <1>3, SlotIs, SlotIsPrimed DEF Shows

\* When the slot of u changes, the other users see what they saw.
LEMMA OthersSee ==
  ASSUME OneSlot(vaults), OneSlot(vaults'), NEW u, NEW k,
         vaults[k] = None \/ vaults[k].uid = u, vaults'[k].uid = u,
         \A i \in Slots \ {k} : vaults'[i] = vaults[i], NEW v, v # u
  PROVE  /\ (Unlocked(v)' = {}) = (Unlocked(v) = {})
         /\ Unlocked(v) # {} => Payload(v)' = Payload(v)
  <1>1. \A i \in Slots : (vaults'[i] # None /\ vaults'[i].uid = v) <=> (vaults[i] # None /\ vaults[i].uid = v)
    BY Zenon
  <1>2. \A i \in Slots : (vaults'[i] # None /\ vaults'[i].uid = v) => vaults'[i] = vaults[i]
    BY Zenon
  <1>3. SlotsOf(v)' = SlotsOf(v)  BY <1>1, Zenon DEF SlotsOf
  <1>4. Unlocked(v)' = Unlocked(v)  BY <1>2, <1>3, Zenon DEF Unlocked, IsLocked, SlotsOf
  <1>5. ASSUME Unlocked(v) # {}  PROVE Payload(v)' = Payload(v)
    <2>1. PICK i \in Slots : vaults[i] # None /\ vaults[i].uid = v  BY <1>5, Zenon DEF Unlocked, SlotsOf
    <2>2. vaults'[i] = vaults[i]  BY <1>1, <1>2, <2>1, Zenon
    <2> QED  BY <2>1, <2>2, SlotIs, SlotIsPrimed
  <1> QED  BY <1>4, <1>5, Zenon

-----------------------------------------------------------------------------
(* The invariant.                                                           *)

\* Under every identifier stands something that a client may expect.
Expected(m, p) == \A id \in Ids : \E v \in m[id] : Agree(Value(p, id), v)

\* A handle has a file, is not behind it, and shows what may be expected.
HandleOk(h) ==
  /\ disk[h.uid] # None /\ disk[h.uid].seq <= h.seq
  /\ h.payload # None => Good(h.payload) /\ Expected(may[h.uid], h.payload)

FileOk(u) ==
  /\ Good(disk[u].payload) /\ Expected(may[u], disk[u].payload)
  /\ disk[u].seq \in 1..load.seq

VaultInv ==
  /\ TypeOK
  /\ OneSlot(vaults)
  /\ \A i \in Slots : vaults[i] # None => HandleOk(vaults[i])
  /\ \A u \in Users : disk[u] # None => FileOk(u)
  /\ AnnouncedUnlockedIsReal

\* What a step may do: keep the promise, record changes, count saves.
Lawful ==
  /\ Promise!Next \/ UNCHANGED Promise!vars
  /\ \A u \in Users : HistoryRecorded(u) /\ SequenceGrown(u)

\* An unlocked user's slot and what it shows.
LEMMA Serving ==
  ASSUME VaultInv, NEW u \in Users, Unlocked(u) # {}
  PROVE  /\ SlotFor(u) \in Slots /\ vaults[SlotFor(u)] \in Handles
         /\ vaults[SlotFor(u)] # None /\ vaults[SlotFor(u)].uid = u
         /\ Payload(u) = vaults[SlotFor(u)].payload /\ Payload(u) # None
         /\ Good(Payload(u)) /\ Expected(may[u], Payload(u))
         /\ disk[u] # None /\ disk[u].seq <= vaults[SlotFor(u)].seq
         /\ SlotFor(u) \in AllUnlocked
  <1>1. PICK i \in Slots : vaults[i] # None /\ vaults[i].uid = u /\ vaults[i].payload # None
    BY Zenon DEF Unlocked, SlotsOf, IsLocked
  <1> USE <1>1
  <1>2. SlotFor(u) = i /\ Payload(u) = vaults[i].payload
    BY SlotIs, Zenon DEF VaultInv
  <1>3. vaults[i] \in Handles  BY Zenon DEF VaultInv, TypeOK
  <1>4. HandleOk(vaults[i])  BY Zenon DEF VaultInv
  <1> QED  BY <1>2, <1>3, <1>4, Zenon DEF HandleOk, AllUnlocked, IsLocked

\* A handle that stays: the same user and sequence number, and its key and
\* payload either stay or are cleared.
Stays(i) ==
  /\ vaults[i] # None /\ vaults'[i].uid = vaults[i].uid /\ vaults'[i].seq = vaults[i].seq
  /\ vaults'[i].idle \in 0..load.idle
  /\ \/ vaults'[i].key = None /\ vaults'[i].payload = None
     \/ vaults'[i].key = vaults[i].key /\ vaults'[i].payload = vaults[i].payload

\* Steps that lock, close or refresh handles, and steps that touch none.
LEMMA SlotStep ==
  ASSUME VaultInv, UNCHANGED <<load, disk, may>>,
         sidecar' \in [Users -> Wraps \cup {None}],
         timeout' \in load.timeouts, timer' \in BOOLEAN,
         vaults' \in [Slots -> Handles \cup {None}],
         \A i \in Slots : vaults'[i] # None => Stays(i),
         AnnouncedUnlockedIsReal'
  PROVE  VaultInv' /\ Lawful
  <1>1. OneSlot(vaults')  BY DEF VaultInv, OneSlot, Stays
  <1>2. TypeOK'  BY ZenonT(40) DEF VaultInv, TypeOK, Stays
  <1>3. \A i \in Slots : vaults'[i] # None => HandleOk(vaults[i])'
    BY Zenon DEF VaultInv, HandleOk, Stays
  <1>4. \A u \in Users : disk'[u] # None => FileOk(u)'
    BY Zenon DEF VaultInv, FileOk
  <1>5. \A u \in Users : KeptView(u)
    <2> SUFFICES ASSUME NEW u \in Users  PROVE KeptView(u)
      BY Zenon
    <2>1. \A i \in Slots : \A p : Shows(vaults', i, u, p) => Shows(vaults, i, u, p)
      BY Zenon DEF Shows, Stays
    <2> QED  BY <2>1, <1>1, ViewKept, Zenon DEF VaultInv
  <1>6. Promise!Lock
    BY <1>5, Zenon DEF Promise!Lock, KeptView
  <1>7. \A u \in Users : HistoryRecorded(u) /\ SequenceGrown(u)
    BY <1>5, Zenon DEF HistoryRecorded, SequenceGrown, KeptView
  <1> QED  BY <1>1, <1>2, <1>3, <1>4, <1>6, <1>7, Zenon DEF VaultInv, Lawful, Promise!Next

\* Locking clears the key and the payload of a handle.
LEMMA LockType ==
  ASSUME NEW h \in Handles
  PROVE  /\ VaultLock(h) \in Handles /\ VaultLock(h).uid = h.uid
         /\ VaultLock(h).seq = h.seq /\ VaultLock(h).idle = h.idle
         /\ VaultLock(h).key = None /\ VaultLock(h).payload = None
  BY Zenon DEF VaultLock, Handles

\* SealWrappingKey touches no vault.
LEMMA SealWrappingKeyStep ==
  ASSUME VaultInv, NEW u \in load.users, NEW w \in load.wraps, SealWrappingKey(u, w)
  PROVE  VaultInv' /\ Lawful
  <1>1. sidecar' \in [Users -> Wraps \cup {None}]
    <2>1. w \in Wraps  BY Zenon DEF Wraps, VaultInv, TypeOK
    <2> QED  BY <2>1, Zenon DEF SealWrappingKey, VaultInv, TypeOK
  <1>2. \A i \in Slots : vaults'[i] # None => Stays(i)
    BY Zenon DEF SealWrappingKey, Stays, VaultInv, TypeOK
  <1>3. AnnouncedUnlockedIsReal'
    BY Zenon DEF SealWrappingKey, VaultInv, AnnouncedUnlockedIsReal, AllUnlocked, IsLocked
  <1> QED
    BY <1>1, <1>2, <1>3, SlotStep, Zenon DEF SealWrappingKey, Config, VaultInv, TypeOK

\* An unlock of an unlocked vault changes the announcement only.
LEMMA AlreadyUnlockedStep ==
  ASSUME VaultInv, NEW u \in load.users, AlreadyUnlocked(u)
  PROVE  VaultInv' /\ Lawful
  <1>1. u \in Users  BY VaultAssumption, Zenon DEF VaultInv, TypeOK
  <1>2. \A i \in Slots : vaults'[i] # None => Stays(i)
    BY Zenon DEF AlreadyUnlocked, Stays, VaultInv, TypeOK
  <1>3. AnnouncedUnlockedIsReal'
    BY <1>1, Serving, Zenon DEF AlreadyUnlocked, AnnouncedUnlockedIsReal, AllUnlocked, IsLocked
  <1> QED
    BY <1>2, <1>3, SlotStep, Zenon DEF AlreadyUnlocked, Files, Config, VaultInv, TypeOK

\* Every path that locks: a call, a signal, the idle timer.
LEMMA LockStep ==
  ASSUME VaultInv, NEW S \in SUBSET AllUnlocked, LockAndAnnounce(S)
  PROVE  VaultInv' /\ Lawful
  <1>1. \A i \in S : i \in Slots /\ vaults[i] # None /\ vaults[i] \in Handles
    BY Zenon DEF AllUnlocked, VaultInv, TypeOK
  <1>2. \A i \in Slots : vaults'[i] = IF i \in S THEN VaultLock(vaults[i]) ELSE vaults[i]
    BY Zenon DEF LockAndAnnounce, LockAll
  <1>3. vaults' \in [Slots -> Handles \cup {None}]
    BY <1>1, LockType, Zenon DEF LockAndAnnounce, LockAll, VaultInv, TypeOK
  <1>4. \A i \in Slots : vaults'[i] # None => Stays(i)
    BY <1>1, <1>2, LockType DEF Stays, VaultInv, TypeOK
  <1>5. AnnouncedUnlockedIsReal'
    <2>1. CASE S = {}
      BY <1>2, <2>1, Zenon DEF LockAndAnnounce, VaultInv, AnnouncedUnlockedIsReal, AllUnlocked, IsLocked
    <2>2. CASE S # {}
      BY <2>2, Zenon DEF LockAndAnnounce, AnnouncedUnlockedIsReal
    <2> QED  BY <2>1, <2>2, Zenon
  <1> QED
    BY <1>3, <1>4, <1>5, SlotStep, Zenon DEF LockAndAnnounce, Files, Config, VaultInv, TypeOK

\* Time passes.
LEMMA TickStep ==
  ASSUME VaultInv, Tick
  PROVE  VaultInv' /\ Lawful
  <1>1. ASSUME NEW i \in Slots
        PROVE  /\ vaults'[i] \in Handles \cup {None}
               /\ (vaults'[i] = None) = (vaults[i] = None)
               /\ vaults'[i] # None => Stays(i) /\ vaults'[i].payload = vaults[i].payload
    <2>1. CASE vaults[i] = None \/ vaults[i].idle = load.idle
      BY <2>1, Zenon DEF Tick, Stays, VaultInv, TypeOK
    <2>2. CASE ~(vaults[i] = None \/ vaults[i].idle = load.idle)
      <3> USE <2>2
      <3>1. vaults'[i] = [vaults[i] EXCEPT !.idle = @ + 1]  BY Zenon DEF Tick
      <3>2. vaults[i] \in Handles /\ vaults[i].idle \in 0..load.idle /\ load.idle \in Nat
        BY VaultAssumption, Zenon DEF VaultInv, TypeOK
      <3> USE <3>2
      <3>3. vaults'[i] \in Handles /\ vaults'[i].idle = vaults[i].idle + 1
        BY <3>1 DEF Handles
      <3>4. /\ vaults'[i].uid = vaults[i].uid /\ vaults'[i].seq = vaults[i].seq
            /\ vaults'[i].key = vaults[i].key /\ vaults'[i].payload = vaults[i].payload
        BY <3>1, Zenon DEF Handles
      <3>5. vaults'[i].idle \in 0..load.idle  BY <3>3
      <3> QED  BY <3>3, <3>4, <3>5, NoneAssumption, Zenon DEF Stays
    <2> QED  BY <2>1, <2>2, Zenon
  <1> USE <1>1
  <1>2. vaults' \in [Slots -> Handles \cup {None}]
    <2>1. vaults' = [i \in Slots |-> vaults'[i]]  BY Zenon DEF Tick
    <2> QED  BY <2>1, Zenon
  <1>3. AnnouncedUnlockedIsReal'
    BY ZenonT(40) DEF Tick, VaultInv, AnnouncedUnlockedIsReal, AllUnlocked, IsLocked
  <1> QED
    BY <1>2, <1>3, SlotStep, Zenon DEF Tick, Files, Config, VaultInv, TypeOK

\* A reload changes the timeout only.
LEMMA ReloadStep ==
  ASSUME VaultInv, NEW t \in load.timeouts, Reload(t)
  PROVE  VaultInv' /\ Lawful
  <1>1. \A i \in Slots : vaults'[i] # None => Stays(i)
    BY Zenon DEF Reload, Stays, VaultInv, TypeOK
  <1>2. AnnouncedUnlockedIsReal'
    BY Zenon DEF Reload, VaultInv, AnnouncedUnlockedIsReal, AllUnlocked, IsLocked
  <1> QED
    BY <1>1, <1>2, SlotStep, Zenon DEF Reload, Files, VaultInv, TypeOK

\* A restart closes all vaults.
LEMMA RestartStep ==
  ASSUME VaultInv, Restart
  PROVE  VaultInv' /\ Lawful
  <1>1. \A i \in Slots : vaults'[i] = None  BY Zenon DEF Restart, Fresh, Closed
  <1>2. vaults' \in [Slots -> Handles \cup {None}]  BY Zenon DEF Restart, Fresh, Closed
  <1>3. AnnouncedUnlockedIsReal'  BY Zenon DEF Restart, Fresh, AnnouncedUnlockedIsReal
  <1>4. UNCHANGED <<load, disk, may>> /\ sidecar' = sidecar  BY Zenon DEF Restart, Fresh, Files
  <1>5. sidecar' \in [Users -> Wraps \cup {None}]  BY <1>4, Zenon DEF VaultInv, TypeOK
  <1>6. timeout' \in load.timeouts /\ timer' \in BOOLEAN
    BY DEF Restart, Fresh, VaultInv, TypeOK
  <1> QED  BY <1>1, <1>2, <1>3, <1>4, <1>5, <1>6, SlotStep, Zenon

\* A query restarts the idle time of the user's vault.
LEMMA ReadsStep ==
  ASSUME VaultInv, NEW u \in load.users, Reads(u)
  PROVE  VaultInv' /\ Lawful
  <1> DEFINE k == SlotFor(u)
  <1>1. u \in Users  BY VaultAssumption, Zenon DEF VaultInv, TypeOK
  <1>2. k \in Slots /\ vaults[k] \in Handles /\ vaults[k] # None
    BY <1>1, Serving, Zenon DEF Reads
  <1> USE <1>2
  <1>3. vaults' = [vaults EXCEPT ![k].idle = 0]  BY Zenon DEF Reads, Refreshed
  <1> USE <1>3
  <1> HIDE DEF k
  <1>4. vaults'[k] = [vaults[k] EXCEPT !.idle = 0]
    BY Zenon DEF VaultInv, TypeOK
  <1>5. /\ vaults'[k] \in Handles /\ vaults'[k].idle = 0
        /\ vaults'[k].uid = vaults[k].uid /\ vaults'[k].seq = vaults[k].seq
        /\ vaults'[k].key = vaults[k].key /\ vaults'[k].payload = vaults[k].payload
    BY <1>4 DEF Handles
  <1> USE <1>5
  <1>6. \A i \in Slots \ {k} : vaults'[i] = vaults[i]  BY Zenon DEF VaultInv, TypeOK
  <1> USE <1>6
  <1>7. vaults' \in [Slots -> Handles \cup {None}]
    <2>1. vaults' = [i \in Slots |-> vaults'[i]]  BY Zenon DEF VaultInv, TypeOK
    <2>2. \A i \in Slots : vaults'[i] \in Handles \cup {None}  BY Zenon DEF VaultInv, TypeOK
    <2> QED  BY <2>1, <2>2, Zenon
  <1>8. 0 \in 0..load.idle  BY VaultAssumption DEF VaultInv, TypeOK
  <1>9. \A i \in Slots : vaults'[i] # None => Stays(i)
    BY <1>8, Zenon DEF Stays, VaultInv, TypeOK
  <1>10. \A i \in AllUnlocked : i \in AllUnlocked'
    BY NoneAssumption, Zenon DEF AllUnlocked, IsLocked
  <1>11. AnnouncedUnlockedIsReal'
    BY <1>10, Zenon DEF Reads, VaultInv, AnnouncedUnlockedIsReal
  <1> QED
    BY <1>7, <1>9, <1>11, SlotStep, Zenon DEF Reads, Files, Config, VaultInv, TypeOK

\* The slot ensure_user_vault_handle finds or allocates.
LEMMA Opened ==
  ASSUME VaultInv, NEW u \in Users, Available(u)
  PROVE  LET k == SlotFor(u)
             f == Ensured(u)
         IN /\ k \in Slots /\ f \in [Slots -> Handles \cup {None}]
            /\ f[k] \in Handles /\ f[k].uid = u
            /\ \A i \in Slots \ {k} : f[i] = vaults[i]
            /\ OneSlot(f)
            /\ f[k].seq \in 1..load.seq /\ f[k].idle \in 0..load.idle
            /\ (f[k].key = None) = (f[k].payload = None)
            /\ disk[u] # None /\ disk[u].seq <= f[k].seq
            /\ \/ f[k].payload = None /\ vaults[k] = None
               \/ f[k] = vaults[k]
  <1> DEFINE k == SlotFor(u)
             f == Ensured(u)
  <1>1. CASE SlotsOf(u) # {}
    <2>1. PICK i \in Slots : vaults[i] # None /\ vaults[i].uid = u  BY <1>1, Zenon DEF SlotsOf
    <2> USE <2>1
    <2>2. k = i  BY SlotIs, Zenon DEF VaultInv
    <2>3. f = vaults  BY <1>1, Zenon DEF Ensured
    <2>4. HandleOk(vaults[i]) /\ vaults[i] \in Handles  BY Zenon DEF VaultInv, TypeOK
    <2> HIDE DEF k, f
    <2>5. /\ k \in Slots /\ f \in [Slots -> Handles \cup {None}]
          /\ f[k] \in Handles /\ f[k].uid = u /\ OneSlot(f)
          /\ f[k].seq \in 1..load.seq /\ f[k].idle \in 0..load.idle
          /\ (f[k].key = None) = (f[k].payload = None)
      BY <2>2, <2>3, <2>4, Zenon DEF VaultInv, TypeOK
    <2> QED  BY <2>2, <2>3, <2>4, <2>5, Zenon DEF HandleOk, k, f
  <1>2. CASE SlotsOf(u) = {}
    <2> USE <1>2
    <2>1. FreeSlots # {} /\ disk[u] # None  BY Zenon DEF Available
    <2> USE <2>1
    <2>2. FreeSlots \in SUBSET Nat  BY DEF FreeSlots, Slots
    <2>3. k \in FreeSlots
      <3>1. k = CHOOSE i \in FreeSlots : \A j \in FreeSlots : i <= j  BY Zenon DEF SlotFor
      <3> HIDE DEF k
      <3> QED  BY <2>2, <3>1, LeastExists, Zenon
    <2>4. k \in Slots /\ vaults[k] = None  BY <2>3, Zenon DEF FreeSlots
    <2> USE <2>4
    <2>5. f = [vaults EXCEPT ![k] = VaultOpen(u)]  BY Zenon DEF Ensured
    <2> HIDE DEF k, f
    <2>6. f[k] = VaultOpen(u) /\ \A i \in Slots \ {k} : f[i] = vaults[i]
      BY <2>5, Zenon DEF VaultInv, TypeOK
    <2>7. /\ disk[u] \in VaultFiles /\ disk[u].seq \in 1..load.seq /\ load.seq \in Nat /\ load.idle \in Nat
      BY VaultAssumption, Zenon DEF VaultInv, TypeOK, FileOk
    <2> USE <2>7
    <2>8. /\ VaultOpen(u) \in Handles /\ VaultOpen(u).uid = u
          /\ VaultOpen(u).seq = disk[u].seq /\ VaultOpen(u).idle = 0
          /\ VaultOpen(u).key = None /\ VaultOpen(u).payload = None
      BY Zenon DEF VaultOpen, Handles, VaultFiles
    <2> USE <2>8
    <2>9. f \in [Slots -> Handles \cup {None}]
      BY <2>5, Zenon DEF VaultInv, TypeOK
    <2>10. \A i \in Slots : vaults[i] # None => vaults[i].uid # u
      BY Zenon DEF SlotsOf
    <2>11. OneSlot(f)
      BY <2>6, <2>10 DEF OneSlot, VaultInv
    <2>12. disk[u].seq <= disk[u].seq /\ 0 \in 0..load.idle  OBVIOUS
    <2> QED  BY <2>6, <2>9, <2>11, <2>12, Zenon DEF k, f
  <1> QED  BY <1>1, <1>2, Zenon

\* A slot may be allocated, for a locked vault.
LEMMA StatusStep ==
  ASSUME VaultInv, NEW u \in load.users, Status(u)
  PROVE  VaultInv' /\ Lawful
  <1> DEFINE k == SlotFor(u)
  <1>1. u \in Users  BY VaultAssumption, Zenon DEF VaultInv, TypeOK
  <1>2. vaults' = Ensured(u) /\ UNCHANGED <<load, disk, sidecar, timeout, timer, announced, may>>
    BY Zenon DEF Status, Files, Config
  <1>3. /\ k \in Slots /\ vaults' \in [Slots -> Handles \cup {None}]
        /\ vaults'[k] \in Handles /\ vaults'[k].uid = u
        /\ \A i \in Slots \ {k} : vaults'[i] = vaults[i]
        /\ OneSlot(vaults')
        /\ vaults'[k].seq \in 1..load.seq /\ vaults'[k].idle \in 0..load.idle
        /\ (vaults'[k].key = None) = (vaults'[k].payload = None)
        /\ disk[u] # None /\ disk[u].seq <= vaults'[k].seq
        /\ \/ vaults'[k].payload = None /\ vaults[k] = None
           \/ vaults'[k] = vaults[k]
    <2> DEFINE f == Ensured(u)
    <2>1. Available(u)  BY Zenon DEF Status
    <2>2. /\ k \in Slots /\ f \in [Slots -> Handles \cup {None}]
          /\ f[k] \in Handles /\ f[k].uid = u
          /\ \A i \in Slots \ {k} : f[i] = vaults[i]
          /\ OneSlot(f)
          /\ f[k].seq \in 1..load.seq /\ f[k].idle \in 0..load.idle
          /\ (f[k].key = None) = (f[k].payload = None)
          /\ disk[u] # None /\ disk[u].seq <= f[k].seq
          /\ \/ f[k].payload = None /\ vaults[k] = None
             \/ f[k] = vaults[k]
      BY <1>1, <2>1, Opened, Zenon
    <2>3. vaults' = f  BY <1>2, Zenon
    <2> HIDE DEF f, k
    <2> QED  BY <2>2, <2>3, Zenon
  <1> USE <1>2
  <1> USE <1>3
  <1> HIDE DEF k
  <1>4. TypeOK'  BY DEF VaultInv, TypeOK
  <1>5. \A i \in Slots : vaults'[i] # None => HandleOk(vaults[i])'
    <2> SUFFICES ASSUME NEW i \in Slots, vaults'[i] # None  PROVE HandleOk(vaults[i])'
      BY Zenon
    <2>1. CASE i = k  BY <2>1, NoneAssumption, Zenon DEF VaultInv, HandleOk
    <2>2. CASE i # k  BY <2>2, Zenon DEF VaultInv, HandleOk
    <2> QED  BY <2>1, <2>2, Zenon
  <1>6. \A v \in Users : disk'[v] # None => FileOk(v)'
    BY Zenon DEF VaultInv, FileOk
  <1>7. AnnouncedUnlockedIsReal'
    <2>1. \A i \in AllUnlocked : i \in AllUnlocked'
      BY Zenon DEF AllUnlocked, IsLocked
    <2> QED  BY <2>1, Zenon DEF VaultInv, AnnouncedUnlockedIsReal
  <1>8. \A v \in Users : KeptView(v)
    <2> SUFFICES ASSUME NEW v \in Users  PROVE KeptView(v)
      BY Zenon
    <2>1. \A i \in Slots : \A p : Shows(vaults', i, v, p) => Shows(vaults, i, v, p)
      BY Zenon DEF Shows
    <2> QED  BY <2>1, ViewKept, Zenon DEF VaultInv
  <1>9. Promise!Lock  BY <1>8, Zenon DEF Promise!Lock, KeptView
  <1>10. \A v \in Users : HistoryRecorded(v) /\ SequenceGrown(v)
    BY <1>8, Zenon DEF HistoryRecorded, SequenceGrown, KeptView
  <1> QED
    BY <1>4, <1>5, <1>6, <1>7, <1>9, <1>10, Zenon DEF VaultInv, Lawful, Promise!Next

\* A verified user's vault opens with what the file holds.
LEMMA AutoUnlockStep ==
  ASSUME VaultInv, NEW u \in load.users, AutoUnlock(u)
  PROVE  VaultInv' /\ Lawful
  <1> DEFINE k == SlotFor(u)
             f == Ensured(u)
             p == disk[u].payload
  <1>1. u \in Users  BY VaultAssumption, Zenon DEF VaultInv, TypeOK
  <1>2. /\ UNCHANGED <<load, disk, sidecar, timeout, timer, may>> /\ announced' = "unlocked"
        /\ disk[u] # None /\ sidecar[u] # None /\ Unlocked(u) = {}
    BY Zenon DEF AutoUnlock, Files, Config
  <1>3. vaults' = [f EXCEPT ![k].key = sidecar[u], ![k].payload = p, ![k].idle = 0]
    BY Zenon DEF AutoUnlock, Decrypt
  <1>4. /\ k \in Slots /\ f \in [Slots -> Handles \cup {None}]
        /\ f[k] \in Handles /\ f[k].uid = u
        /\ \A i \in Slots \ {k} : f[i] = vaults[i]
        /\ OneSlot(f)
        /\ f[k].seq \in 1..load.seq
        /\ disk[u].seq <= f[k].seq
    BY <1>1, Opened, Zenon DEF AutoUnlock
  <1>5. /\ p \in Payloads /\ p # None /\ Good(p) /\ Expected(may[u], p)
        /\ sidecar[u] \in Wraps
    BY <1>1, <1>2, NoneAssumption, Zenon DEF VaultInv, TypeOK, FileOk, Good
  <1>6. load.idle \in Nat  BY VaultAssumption, Zenon DEF VaultInv, TypeOK
  <1> HIDE DEF k, f, p
  <1>7. vaults'[k] = [f[k] EXCEPT !.key = sidecar[u], !.payload = p, !.idle = 0]
    BY <1>3, <1>4, Zenon
  <1>8. /\ vaults'[k] \in Handles /\ vaults'[k].uid = u /\ vaults'[k].seq = f[k].seq
        /\ vaults'[k].key = sidecar[u] /\ vaults'[k].payload = p /\ vaults'[k].idle = 0
    <2> DEFINE h == f[k]
               w == sidecar[u]
               g == vaults'[k]
    <2>1. h \in Handles /\ w \in Wraps /\ p \in Payloads /\ h.uid = u
      BY <1>4, <1>5, Zenon
    <2>2. g = [h EXCEPT !.key = w, !.payload = p, !.idle = 0]
      BY <1>7, Zenon
    <2> HIDE DEF h, w, g
    <2>3. /\ g \in Handles /\ g.uid = u /\ g.seq = h.seq
          /\ g.key = w /\ g.payload = p /\ g.idle = 0
      BY ONLY <2>1, <2>2, Zenon DEF Handles
    <2> QED  BY <2>3, Zenon DEF h, w, g
  <1>9. \A i \in Slots \ {k} : vaults'[i] = vaults[i]  BY <1>3, <1>4, Zenon
  <1>10. vaults' \in [Slots -> Handles \cup {None}]
    <2>1. vaults' = [i \in Slots |-> vaults'[i]]  BY <1>3, <1>4, Zenon
    <2>2. \A i \in Slots : vaults'[i] \in Handles \cup {None}  BY <1>8, <1>9, Zenon DEF VaultInv, TypeOK
    <2> QED  BY <2>1, <2>2, Zenon
  <1>11. vaults'[k] # None  BY <1>8, NoneAssumption, Zenon
  <1>12. f[k] # None  BY <1>4, NoneAssumption, Zenon
  <1>13. OneSlot(vaults')  BY <1>4, <1>8, <1>9, <1>12 DEF OneSlot
  <1>14. TypeOK'
    <2>1. \A i \in Slots : vaults'[i] # None =>
            /\ (vaults'[i].key = None) = (vaults'[i].payload = None)
            /\ vaults'[i].seq \in 1..load.seq /\ vaults'[i].idle \in 0..load.idle
      <3> SUFFICES ASSUME NEW i \in Slots, vaults'[i] # None
                   PROVE  /\ (vaults'[i].key = None) = (vaults'[i].payload = None)
                          /\ vaults'[i].seq \in 1..load.seq /\ vaults'[i].idle \in 0..load.idle
        BY Zenon
      <3>1. CASE i = k  BY <3>1, <1>2, <1>4, <1>5, <1>6, <1>8
      <3>2. CASE i # k  BY <3>2, <1>2, <1>9, Zenon DEF VaultInv, TypeOK
      <3> QED  BY <3>1, <3>2, Zenon
    <2> QED  BY <2>1, <1>2, <1>10, Zenon DEF VaultInv, TypeOK
  <1>15. \A i \in Slots : vaults'[i] # None => HandleOk(vaults[i])'
    <2> SUFFICES ASSUME NEW i \in Slots, vaults'[i] # None  PROVE HandleOk(vaults[i])'
      BY Zenon
    <2>1. CASE i = k  BY <2>1, <1>2, <1>4, <1>5, <1>8, Zenon DEF HandleOk
    <2>2. CASE i # k  BY <2>2, <1>2, <1>9, Zenon DEF VaultInv, HandleOk
    <2> QED  BY <2>1, <2>2, Zenon
  <1>16. \A v \in Users : disk'[v] # None => FileOk(v)'
    BY <1>2, Zenon DEF VaultInv, FileOk
  <1>17. AnnouncedUnlockedIsReal'
    BY <1>4, <1>5, <1>8, <1>11, Zenon DEF AnnouncedUnlockedIsReal, AllUnlocked, IsLocked
  <1>18. Unlocked(u)' # {} /\ Payload(u)' = p
    BY <1>4, <1>5, <1>8, <1>11, <1>13, SlotIsPrimed, ZenonT(40)
  <1>19. \A v \in Users \ {u} :
           (Unlocked(v)' = {}) = (Unlocked(v) = {}) /\ (Unlocked(v) # {} => Payload(v)' = Payload(v))
    <2>1. vaults[k] = None \/ vaults[k].uid = u
      BY <1>1, Opened, Zenon DEF AutoUnlock, k
    <2> QED  BY <2>1, <1>4, <1>8, <1>9, <1>13, OthersSee, Zenon DEF VaultInv
  <1>20. Promise!Unlock(u)
    <2>1. Table(p) # None  BY <1>5, TableType, Zenon
    <2> QED  BY <1>1, <1>2, <1>18, <1>19, <2>1, Zenon DEF Promise!Unlock, p
  <1>21. \A v \in Users : HistoryRecorded(v) /\ SequenceGrown(v)
    BY <1>2, <1>19, Zenon DEF HistoryRecorded, SequenceGrown
  <1> QED
    BY <1>1, <1>13, <1>14, <1>15, <1>16, <1>17, <1>20, <1>21, Zenon DEF VaultInv, Lawful, Promise!Next
=============================================================================
