----------------------------- MODULE Fido2Steps -----------------------------
(***************************************************************************)
(* Proofs about Fido2, continued from Fido2Invariant: every command that    *)
(* changes a credential or a counter keeps the saved part of the invariant, *)
(* so does the start of the process, and the initial states have it.        *)
(***************************************************************************)
EXTENDS Fido2Invariant

USE SMTT(30), ZenonT(30)

-----------------------------------------------------------------------------
(* Commands that change credentials and counters.                           *)

CredStep ==
  /\ up /\ up' /\ UNCHANGED <<env, early, keys, starts, accepted, wrong>>
  /\ ctx' \in Ctx /\ ctx'.pin = ctx.pin
  /\ HistoryTypes' /\ CountCoversTable' /\ Unshown'
  /\ Safe => CountersGood(ctx', Len(issued'), shown')
  /\ \/ file' = Image(ctx')
     \/ /\ file' = file
        /\ Safe => CountersGood(Content(file), Len(issued'), shown')
        /\ env.faults = {} => ctx'.credentials = ctx.credentials /\ ctx.global <= ctx'.global

LEMMA CredStepEdits ==
  ASSUME Counts, Core, CredStep
  PROVE  Edits
  <1>1. up /\ up' /\ early' \in BOOLEAN /\ UNCHANGED <<env, keys, starts>>
    BY Zenon DEF CredStep, Core, CoreTypes
  <1> USE <1>1
  <1>2. KeyKept' = KeyKept /\ Safe' = Safe  BY Zenon DEF KeyKept, Safe
  <1>3. Book(ctx)'  BY <1>2, Zenon DEF Core, Book, CredStep, TriesGood
  <1>4. CASE file' = Image(ctx')  BY <1>3, <1>4, Zenon DEF Edits, CredStep
  <1>5. CASE file' = file /\ file' # Image(ctx')
    <2> USE <1>5
    <2>1. Book(Content(file))'
      <3> DEFINE e == Content(file)
      <3>1. e = Content(file')  BY Zenon
      <3>2. /\ e.pin.retries = 0 => e.pin.blocked
            /\ KeyKept => e.pin.hash \in accepted
            /\ Safe => TriesGood(e, wrong)
        BY Zenon DEF Core, Book
      <3>3. Safe => CountersGood(e, Len(issued'), shown')  BY Zenon DEF CredStep
      <3> HIDE DEF e
      <3> QED  BY <1>2, <3>1, <3>2, <3>3, Zenon DEF Book, CredStep
    <2>2. ctx.pin.retries \in Nat  BY FileBook, Fido2Assumption
    <2> QED  BY <1>3, <2>1, <2>2 DEF Edits, CredStep
  <1> QED  BY <1>4, <1>5, Zenon DEF CredStep

\* Giving out an ID invalidates nothing.
LEMMA MoreIssued ==
  ASSUME NEW c, NEW n \in Nat, NEW sh, CountersGood(c, n, sh), 
         \A s \in InUse(c) : c.credentials[s].id \in Nat
  PROVE  CountersGood(c, n + 1, sh)
  <1>1. \A s \in InUse(c) : c.credentials[s].id <= n + 1  BY DEF CountersGood
  <1> QED  BY <1>1, Zenon DEF CountersGood

LEMMA CountedIs ==
  ASSUME Counts, ctx \in Ctx, ctx.global < MaxCount
  PROVE  /\ Counted \in Ctx /\ Counted.credentials = ctx.credentials /\ Counted.pin = ctx.pin
         /\ Counted.count = ctx.count /\ Counted.global = ctx.global + 1
         /\ InUse(Counted) = InUse(ctx)
         /\ \A n, sh : (CountersGood(ctx, n, sh) /\ sh.global \in Nat) => CountersGood(Counted, n, sh)
  <1>1. ctx.global \in Nat /\ MaxCount \in Nat  BY InUseIs, Zenon
  <1>2. Counted.global = ctx.global + 1  BY Zenon DEF Counted, Ctx
  <1>3. /\ Counted.credentials = ctx.credentials /\ Counted.pin = ctx.pin
        /\ Counted.count = ctx.count
    BY Zenon DEF Counted, Ctx
  <1> USE <1>3
  <1>4. Counted \in Ctx  BY <1>1 DEF Counted, Ctx
  <1>5. InUse(Counted) = InUse(ctx)  BY Zenon DEF InUse
  <1>6. \A n, sh : (CountersGood(ctx, n, sh) /\ sh.global \in Nat) => CountersGood(Counted, n, sh)
    BY <1>1, <1>2, <1>5 DEF CountersGood
  <1> QED  BY <1>2, <1>4, <1>5, <1>6, Zenon

LEMMA GiveOutIs ==
  ASSUME Counts, Core, up, NEW rp \in Rps, GiveOut(rp), NewId <= env.ids, 
         UNCHANGED <<env, keys, accepted, wrong, shown>>
  PROVE  /\ Len(issued') = Len(issued) + 1 /\ HistoryTypes' /\ Unshown'
         /\ NewId \in Ids
  <1>1. [rp |-> rp, key |-> keys.wrap] \in [rp : Rps, key : Keys]  BY NowTypes, Zenon
  <1>2. /\ issued' \in Seq([rp : Rps, key : Keys]) /\ Len(issued') = Len(issued) + 1
        /\ Len(issued) \in Nat
    BY <1>1, NowIssued DEF GiveOut
  <1> USE <1>2
  <1>3. Len(issued') <= MaxIds /\ NewId \in Ids  BY NowIssued, NowTypes DEF NewId, Ids
  <1>4. HistoryTypes'  BY <1>3, Zenon DEF HistoryTypes, Core
  <1>5. Safe' = Safe  BY Zenon DEF Safe, KeyKept
  <1>6. Unshown'  BY <1>5, NowIssued DEF Core, Unshown, Ids
  <1> QED  BY <1>3, <1>4, <1>6, Zenon

LEMMA MakeNonResidentEdits ==
  ASSUME Counts, Core, NEW rp \in Rps, MakeNonResident(rp)
  PROVE  Edits
  <1>1. /\ up /\ up' /\ UNCHANGED <<env, early, keys, starts, accepted, wrong, file, shown>>
        /\ ctx.global < MaxCount /\ NewId <= env.ids /\ GiveOut(rp) /\ ctx' = Counted
    BY Zenon DEF MakeNonResident, Command
  <1> USE <1>1
  <1>2. Len(issued') = Len(issued) + 1 /\ HistoryTypes' /\ Unshown'  BY GiveOutIs, Zenon
  <1> USE <1>2
  <1>3. /\ ctx' \in Ctx /\ ctx'.credentials = ctx.credentials /\ ctx'.pin = ctx.pin
        /\ ctx'.count = ctx.count /\ ctx'.global = ctx.global + 1 /\ InUse(ctx') = InUse(ctx)
    BY NowTypes, CountedIs, Zenon
  <1> USE <1>3
  <1>4. CountCoversTable'  BY NowCount, Zenon DEF CountCoversTable
  <1>5. Safe => CountersGood(ctx', Len(issued'), shown')
    <2>1. Safe => CountersGood(ctx', Len(issued), shown)  BY NowTypes, NowGood, NowShown, CountedIs
    <2> QED  BY <2>1, NowTypes, NowIssued, NowShown, InUseIs, MoreIssued
  <1>6. Safe => CountersGood(Content(file), Len(issued'), shown')
    BY FileGood, NowIssued, NowTypes, InUseIs, MoreIssued, Zenon
  <1>7. ctx.global \in Nat  BY NowTypes, InUseIs, Zenon
  <1>8. CredStep  BY <1>4, <1>5, <1>6, <1>7 DEF CredStep
  <1> QED  BY <1>8, CredStepEdits, Zenon

\* The slot is the account's own or a free one.
LEMMA TargetSlotIs ==
  ASSUME Counts, ctx \in Ctx, NEW rp, NEW u, TargetSlot(rp, u) # 0
  PROVE  /\ TargetSlot(rp, u) \in Slots
         /\ TargetSlot(rp, u) \in InUse(ctx) => ctx.credentials[TargetSlot(rp, u)].rp = rp
  <1> DEFINE same == {s \in InUse(ctx) : ctx.credentials[s].rp = rp /\ ctx.credentials[s].user = u}
             free == Slots \ InUse(ctx)
  <1>1. same \in SUBSET Slots /\ free \in SUBSET Slots  BY InUseIs, Zenon
  <1>2. CASE same # {}
    <2>1. First(same) \in same  BY <1>1, <1>2, FirstIs, Zenon
    <2>2. TargetSlot(rp, u) = First(same)  BY <1>2, Zenon DEF TargetSlot
    <2> QED  BY <2>1, <2>2, InUseIs, Zenon
  <1>3. CASE same = {}
    <2>1. free # {} /\ TargetSlot(rp, u) = First(free)  BY <1>3, Zenon DEF TargetSlot
    <2>2. First(free) \in free  BY <1>1, <2>1, FirstIs, Zenon
    <2> QED  BY <2>1, <2>2, Zenon
  <1> QED  BY <1>2, <1>3, Zenon

\* Credentials stay in their slots, with their relying parties.
KeepsRps == \A s \in InUse(ctx) : s \in InUse(ctx') /\ ctx'.credentials[s].rp = ctx.credentials[s].rp

\* A credential under a new id in one slot keeps the counters in order.
LEMMA StoredCounters ==
  ASSUME Counts, NEW old \in Ctx, NEW c, NEW slot \in Slots, NEW cred, NEW n \in Nat, NEW sh,
         c.credentials[slot] = cred, \A s \in Slots : s # slot => c.credentials[s] = old.credentials[s],
         InUse(c) = InUse(old) \cup {slot}, cred.id = n + 1, cred.count \in Nat, sh.own[n + 1] = 0,
         sh.global \in Nat, c.global = old.global + 1, CountersGood(old, n, sh)
  PROVE  CountersGood(c, n + 1, sh)
  <1>1. old.global \in Nat  BY InUseIs, Zenon
  <1>2. \A s \in InUse(c) : s \in Slots /\ (s = slot \/ s \in InUse(old))  BY InUseIs, Zenon
  <1>3. \A s \in InUse(old) : /\ old.credentials[s].id \in Nat /\ old.credentials[s].id <= n
                              /\ sh.own[old.credentials[s].id] <= old.credentials[s].count
    BY InUseIs, Zenon DEF CountersGood
  <1>4. ASSUME NEW s \in InUse(c)
        PROVE  c.credentials[s].id <= n + 1 /\ sh.own[c.credentials[s].id] <= c.credentials[s].count
    <2>1. CASE s = slot  BY <2>1
    <2>2. CASE s # slot  BY <1>2, <1>3, <2>2
    <2> QED  BY <2>1, <2>2, Zenon
  <1>5. ASSUME NEW s \in InUse(c), NEW t \in InUse(c), c.credentials[s].id = c.credentials[t].id
        PROVE  s = t
    <2>1. \A x \in InUse(c) : x # slot => c.credentials[x].id # n + 1  BY <1>2, <1>3
    <2> QED  BY <1>2, <1>5, <2>1, Zenon DEF CountersGood
  <1>6. sh.global <= c.global  BY <1>1 DEF CountersGood
  <1> QED  BY <1>4, <1>5, <1>6, Zenon DEF CountersGood

LEMMA MakeResidentEdits ==
  ASSUME Counts, Core, NEW rp \in Rps, NEW u \in Users, NEW protect \in Protections,
         MakeResident(rp, u, protect)
  PROVE  Edits /\ ("save" \notin env.faults => KeepsRps)
  <1> DEFINE slot == TargetSlot(rp, u)
             cred == [id |-> NewId, rp |-> rp, user |-> u, protect |-> protect,
                      count |-> Counted.global]
             n == IF slot \in InUse(ctx) THEN Counted.count ELSE Counted.count + 1
             c == [Counted EXCEPT !.credentials[slot] = cred,
                                  !.count = IF slot \in InUse(ctx) THEN @ ELSE @ + 1]
             undone == [c EXCEPT !.credentials[slot] = Free, !.count = ctx.count]
  <1>1. /\ up /\ up' /\ UNCHANGED <<env, early, keys, starts, accepted, wrong, shown>>
        /\ ctx.global < MaxCount /\ NewId <= env.ids
    BY Zenon DEF MakeResident, Command
  <1>2. \/ slot = 0 /\ ctx' = Counted /\ UNCHANGED <<file, issued>>
        \/ /\ slot # 0
           /\ \E ok \in SaveResults :
                /\ file' = Saved(c, ok)
                /\ ctx' = IF ok THEN c ELSE undone
                /\ IF ok THEN GiveOut(rp) ELSE UNCHANGED issued
    BY Zenon DEF MakeResident
  <1>3. /\ Counted \in Ctx /\ Counted.credentials = ctx.credentials /\ Counted.pin = ctx.pin
        /\ Counted.count = ctx.count /\ Counted.global = ctx.global + 1 /\ InUse(Counted) = InUse(ctx)
    BY <1>1, NowTypes, CountedIs, Zenon
  <1>4. ctx.global \in Nat /\ ctx.count \in Nat /\ ctx \in Ctx /\ MaxCount \in Nat
    BY <1>1, NowTypes, InUseIs, Zenon
  <1> USE <1>1, <1>3, <1>4
  <1>5. Safe' = Safe  BY Zenon DEF Safe, KeyKept
  <1>6. CASE issued' = issued  
    <2>1. HistoryTypes' /\ Unshown'  BY <1>5, <1>6, Zenon DEF Core, HistoryTypes, Unshown
    <2>2. CASE slot = 0 /\ ctx' = Counted /\ file' = file
      <3>1. CountCoversTable'  BY <2>2, NowCount, Zenon DEF CountCoversTable
      <3>2. Safe => CountersGood(ctx', Len(issued'), shown')  BY <1>6, <2>2, NowGood, NowShown, NowTypes, CountedIs
      <3>3. Safe => CountersGood(Content(file), Len(issued'), shown')  BY <1>6, FileGood, Zenon
      <3>4. CredStep  BY <2>1, <2>2, <3>1, <3>2, <3>3 DEF CredStep
      <3>5. KeepsRps  BY <2>2, Zenon DEF KeepsRps
      <3> QED  BY <3>4, <3>5, CredStepEdits, Zenon
    <2>3. CASE slot # 0 /\ ctx' = undone /\ file' = file /\ "save" \in env.faults
      <3>1. slot \in Slots  BY <2>3, TargetSlotIs, Zenon
      <3> USE <2>3, <3>1
      <3>2. NewId \in Ids  BY NowIssued, NowTypes DEF NewId, Ids
      <3>3. cred \in Credential  BY <3>2 DEF Credential
      <3> HIDE DEF slot, cred
      <3>4. c \in Ctx
        <4> DEFINE t == [Counted.credentials EXCEPT ![slot] = cred]
        <4>1. t \in [Slots -> Credential \cup {Free}]  BY <3>3, Zenon DEF Ctx
        <4>2. n \in Nat  OBVIOUS
        <4>3. c = [Counted EXCEPT !.credentials = t, !.count = n]  BY Zenon DEF Ctx
        <4> HIDE DEF t, n
        <4>4. [Counted EXCEPT !.credentials = t, !.count = n] \in Ctx  BY <4>1, <4>2, Zenon DEF Ctx
        <4> QED  BY <4>3, <4>4, Zenon
      <3>5. c.pin = Counted.pin /\ c.credentials = [Counted.credentials EXCEPT ![slot] = cred]
        BY Zenon DEF Ctx
      <3> HIDE DEF c
      <3>6. undone \in Ctx  BY <3>4, Zenon DEF Ctx
      <3>7. /\ undone.pin = c.pin /\ undone.count = ctx.count
            /\ undone.credentials = [c.credentials EXCEPT ![slot] = Free]
        BY <3>4, Zenon DEF Ctx
      <3> HIDE DEF undone
      <3>8. InUse(undone) = InUse(ctx) \ {slot}
        <4>1. cred # Free  BY <3>3, RecordsDiffer, Zenon
        <4>2. /\ c.credentials[slot] = cred
              /\ \A s \in Slots : s # slot => c.credentials[s] = ctx.credentials[s]
          BY <3>5, Zenon DEF Ctx
        <4>3. InUse(c) = InUse(ctx) \cup {slot}  BY <4>1, <4>2, Zenon DEF InUse
        <4>4. /\ undone.credentials[slot] = Free
              /\ \A s \in Slots : s # slot => undone.credentials[s] = c.credentials[s]
          BY <3>4, <3>7, Zenon DEF Ctx
        <4>5. InUse(undone) = InUse(c) \ {slot}  BY <4>4 DEF InUse
        <4> QED  BY <4>3, <4>5, Zenon
      <3>9. Cardinality(InUse(undone)) <= undone.count
        <4>1. /\ Cardinality(InUse(ctx) \ {slot}) \in Nat /\ Cardinality(InUse(ctx)) \in Nat
              /\ Cardinality(InUse(ctx) \ {slot}) <= Cardinality(InUse(ctx))
          BY TableShrinks, Zenon
        <4>2. Cardinality(InUse(ctx)) <= ctx.count  BY NowCount, Zenon
        <4> QED  BY ONLY <1>4, <3>7, <3>8, <4>1, <4>2
      <3>10. CountCoversTable'  BY <3>9, Zenon DEF CountCoversTable
      <3>11. ~Safe /\ env.faults # {}  BY Zenon DEF Safe
      <3>12. CredStep  BY <2>1, <3>5, <3>6, <3>7, <3>10, <3>11, Zenon DEF CredStep
      <3> QED  BY <3>12, CredStepEdits, Zenon
    <2>4. Len(issued) \in Nat /\ (GiveOut(rp) => Len(issued') = Len(issued) + 1)
      BY NowIssued, GiveOutIs, Zenon
    <2>5. ~GiveOut(rp)  BY <1>6, <2>4
    <2> QED  BY <1>2, <2>2, <2>3, <2>5, SaveResultIs, Zenon DEF Saved
  <1>7. CASE slot # 0 /\ file' = Image(c) /\ ctx' = c /\ GiveOut(rp)
    <2>1. Len(issued') = Len(issued) + 1 /\ HistoryTypes' /\ Unshown' /\ NewId \in Ids
      BY <1>7, GiveOutIs, Zenon
    <2>2. slot \in Slots /\ (slot \in InUse(ctx) => ctx.credentials[slot].rp = rp)
      BY <1>7, TargetSlotIs, Zenon
    <2>3. cred \in Credential  BY <2>1 DEF Credential
    <2>4. cred.id = Len(issued) + 1 /\ cred.rp = rp /\ cred.count \in Nat
      BY DEF NewId
    <2> USE <2>2, <2>4
    <2> HIDE DEF slot, cred
    <2>5. c \in Ctx
      <3> DEFINE t == [Counted.credentials EXCEPT ![slot] = cred]
      <3>1. t \in [Slots -> Credential \cup {Free}]  BY <2>3, Zenon DEF Ctx
      <3>2. n \in Nat  OBVIOUS
      <3>3. c = [Counted EXCEPT !.credentials = t, !.count = n]  BY Zenon DEF Ctx
      <3> HIDE DEF t, n
      <3>4. [Counted EXCEPT !.credentials = t, !.count = n] \in Ctx  BY <3>1, <3>2, Zenon DEF Ctx
      <3> QED  BY <3>3, <3>4, Zenon
    <2>6. /\ c.pin = Counted.pin /\ c.global = Counted.global
          /\ c.credentials = [ctx.credentials EXCEPT ![slot] = cred]
      BY Zenon DEF Ctx
    <2>7. c.count = IF slot \in InUse(ctx) THEN ctx.count ELSE ctx.count + 1
      BY Zenon DEF Ctx
    <2> HIDE DEF c
    <2>8. cred # Free  BY <2>3, RecordsDiffer, Zenon
    <2>9. /\ c.credentials[slot] = cred
          /\ \A s \in Slots : s # slot => c.credentials[s] = ctx.credentials[s]
          /\ InUse(c) = InUse(ctx) \cup {slot}
          /\ slot \notin InUse(ctx) => Cardinality(InUse(c)) = Cardinality(InUse(ctx)) + 1
          /\ slot \in InUse(ctx) => Cardinality(InUse(c)) = Cardinality(InUse(ctx))
      <3>1. /\ c.credentials[slot] = cred
            /\ \A s \in Slots : s # slot => c.credentials[s] = ctx.credentials[s]
        BY <2>6, Zenon DEF Ctx
      <3>2. InUse(c) = InUse(ctx) \cup {slot}  BY <2>8, <3>1, Zenon DEF InUse
      <3> QED  BY <3>1, <3>2, TableSize, Zenon
    <2>10. Cardinality(InUse(ctx)) \in Nat  BY InUseIs, Zenon
    <2>11. CountCoversTable'
      <3>1. /\ Cardinality(InUse(ctx)) <= ctx.count
            /\ "save" \notin env.faults => ctx.count = Cardinality(InUse(ctx))
        BY NowCount, Zenon
      <3>2. /\ Cardinality(InUse(c)) <= c.count
            /\ "save" \notin env.faults => c.count = Cardinality(InUse(c))
        BY ONLY <1>4, <2>7, <2>9, <2>10, <3>1
      <3> QED  BY <1>7, <3>2, Zenon DEF CountCoversTable
    <2>12. ASSUME Safe  PROVE CountersGood(c, Len(issued) + 1, shown)
      <3>1. CountersGood(ctx, Len(issued), shown)  BY <2>12, NowGood, Zenon
      <3>2. shown.own[cred.id] = 0
        <4>1. cred.id \in Ids  BY <2>1, Zenon DEF NewId
        <4>2. Unshown /\ Len(issued) \in Nat  BY NowIssued, Zenon DEF Core
        <4> QED  BY ONLY <2>4, <2>12, <4>1, <4>2 DEF Unshown
      <3>3. Len(issued) \in Nat  BY NowIssued, Zenon
      <3>4. shown.own[Len(issued) + 1] = 0  BY <2>4, <3>2, Zenon
      <3>5. shown.global \in Nat /\ c.global = ctx.global + 1  BY <2>6, NowShown
      <3> QED  BY <2>4, <2>9, <3>1, <3>3, <3>4, <3>5, StoredCounters, Zenon
    <2>13. CredStep  BY <1>7, <2>1, <2>5, <2>6, <2>11, <2>12, Zenon DEF CredStep
    <2>14. KeepsRps  BY <1>7, <2>9, InUseIs, Zenon DEF KeepsRps
    <2> QED  BY <2>13, <2>14, CredStepEdits, Zenon
  <1> QED  BY <1>2, <1>6, <1>7, SaveResultIs, Zenon DEF Saved

-----------------------------------------------------------------------------
(* Assertions and deletions.                                                *)

LEMMA SaveAnywayIs ==
  ASSUME SaveAnyway(ctx')
  PROVE  file' = Image(ctx') \/ (file' = file /\ ~Safe /\ env.faults # {})
  <1>1. PICK ok \in SaveResults : file' = Saved(ctx', ok)  BY Zenon DEF SaveAnyway
  <1>2. ok \in BOOLEAN /\ (~ok => "save" \in env.faults)  BY SaveResultIs, Zenon
  <1> QED  BY <1>1, <1>2, Zenon DEF Saved, Safe

LEMMA SignOwnEdits ==
  ASSUME Counts, Core, up, up', UNCHANGED <<env, early, keys, starts, issued, accepted, wrong>>,
         NEW slot \in InUse(ctx), SignOwn(slot), SaveAnyway(ctx')
  PROVE  Edits /\ KeepsRps
  <1> DEFINE k == ctx.credentials[slot]
             n == k.count + 1
             new == [k EXCEPT !.count = n]
             t == [ctx.credentials EXCEPT ![slot] = new]
  <1>1. /\ ctx \in Ctx /\ slot \in Slots /\ k \in Credential /\ k.id \in Ids /\ k.id \in Nat
        /\ k.count \in Nat /\ MaxCount \in Nat /\ MaxIds \in Nat
    BY NowTypes, InUseIs, Zenon
  <1> USE <1>1
  <1>2. n \in 1..MaxCount /\ ctx' = [ctx EXCEPT !.credentials[slot].count = n]
    BY DEF SignOwn
  <1> USE <1>2
  <1>3. new \in Credential /\ new.id = k.id /\ new.rp = k.rp /\ new.count = n
    BY Zenon DEF Credential
  <1>4. t \in [Slots -> Credential \cup {Free}]  BY <1>3, Zenon DEF Ctx
  <1>5. ctx' = [ctx EXCEPT !.credentials = t]  BY Zenon DEF Ctx
  <1>6. shown' = [shown EXCEPT !.own[k.id] = Higher(@, n)]  BY Zenon DEF SignOwn
  <1>7. shown.own \in [Ids -> 0..MaxCount] /\ shown.global \in 0..MaxCount
        /\ shown \in [own : [Ids -> 0..MaxCount], global : 0..MaxCount]
    BY NowShown, Zenon
  <1> USE <1>3, <1>7
  <1> HIDE DEF new, n
  <1>8. ctx' \in Ctx /\ ctx'.credentials = t /\ ctx'.pin = ctx.pin
        /\ ctx'.count = ctx.count /\ ctx'.global = ctx.global
    <2> HIDE DEF t
    <2> QED  BY <1>4, <1>5, Zenon DEF Ctx
  <1> USE <1>8
  <1>9. new # Free  BY RecordsDiffer, Zenon
  <1>10. /\ ctx'.credentials[slot] = new
         /\ \A s \in Slots : s # slot => ctx'.credentials[s] = ctx.credentials[s]
         /\ InUse(ctx') = InUse(ctx) \cup {slot}
    <2>1. /\ ctx'.credentials[slot] = new
          /\ \A s \in Slots : s # slot => ctx'.credentials[s] = ctx.credentials[s]
      BY Zenon DEF Ctx
    <2> HIDE DEF k, t
    <2>2. InUse(ctx') = InUse(ctx) \cup {slot}  BY <1>9, <2>1, Zenon DEF InUse
    <2> QED  BY <2>1, <2>2, Zenon
  <1> USE <1>10
  <1>11. InUse(ctx') = InUse(ctx)  BY ZenonT(40)
  <1> HIDE DEF k, t
  <1>12. /\ shown'.own = [shown.own EXCEPT ![k.id] = Higher(@, n)]
         /\ shown'.global = shown.global
    BY <1>6, Zenon
  <1> USE <1>12
  <1>13. shown' \in [own : [Ids -> 0..MaxCount], global : 0..MaxCount]
    <2>1. Higher(shown.own[k.id], n) \in 0..MaxCount  BY DEF Higher
    <2>2. shown'.own \in [Ids -> 0..MaxCount]  BY <2>1, Zenon
    <2>3. shown' = [shown EXCEPT !.own = shown'.own]  BY <1>6, Zenon
    <2> QED  BY <2>2, <2>3, Zenon
  <1>14. HistoryTypes'  BY <1>13, Zenon DEF Core, HistoryTypes
  <1>15. CountCoversTable'  BY <1>11, NowCount, Zenon DEF CountCoversTable
  <1>16. Safe' = Safe  BY Zenon DEF Safe, KeyKept
  <1>17. Unshown'
    <2> SUFFICES ASSUME Safe, NEW i \in Ids, i > Len(issued)  PROVE shown'.own[i] = 0
      BY <1>16, Zenon DEF Unshown
    <2>1. k.id <= Len(issued)  BY NowGood, Zenon DEF CountersGood, k
    <2>2. i # k.id  BY <2>1, NowIssued DEF Ids
    <2>3. shown.own[i] = 0  BY Zenon DEF Core, Unshown
    <2> QED  BY <2>2, <2>3, Zenon
  <1>18. ASSUME Safe  PROVE CountersGood(ctx', Len(issued'), shown')
    <2>1. CountersGood(ctx, Len(issued), shown)  BY <1>18, NowGood, Zenon
    <2> USE <2>1
    <2>2. \A s \in InUse(ctx) : ctx'.credentials[s].id = ctx.credentials[s].id
      BY InUseIs, Zenon DEF k
    <2>3. shown.own[k.id] <= k.count  BY Zenon DEF CountersGood, k
    <2>4. shown'.own[k.id] = n  
      BY <2>3 DEF Higher, n
    <2>5. ASSUME NEW s \in InUse(ctx)
          PROVE  shown'.own[ctx'.credentials[s].id] <= ctx'.credentials[s].count
      <3>1. CASE s = slot
        <4>1. n \in Nat  OBVIOUS
        <4>2. ctx'.credentials[s].id = k.id /\ ctx'.credentials[s].count = n  BY <3>1, Zenon
        <4> QED  BY <2>4, <4>1, <4>2
      <3>2. CASE s # slot
        <4>1. ctx.credentials[s].id # k.id /\ ctx.credentials[s].id \in Ids /\ s \in Slots
          BY <3>2, InUseIs, Zenon DEF CountersGood, k
        <4>2. shown'.own[ctx.credentials[s].id] = shown.own[ctx.credentials[s].id]
          BY <4>1, Zenon
        <4> QED  BY <3>2, <4>1, <4>2, Zenon DEF CountersGood
      <3> QED  BY <3>1, <3>2, Zenon
    <2>6. \A s \in InUse(ctx) : ctx'.credentials[s].id <= Len(issued')
      BY <2>2, Zenon DEF CountersGood
    <2>7. \A s, r \in InUse(ctx) :
            ctx'.credentials[s].id = ctx'.credentials[r].id => s = r
      BY <2>2, Zenon DEF CountersGood
    <2>8. shown'.global <= ctx'.global  BY Zenon DEF CountersGood
    <2> QED  BY <1>11, <2>5, <2>6, <2>7, <2>8, Zenon DEF CountersGood
  <1>19. CredStep
    BY <1>14, <1>15, <1>17, <1>18, SaveAnywayIs, Zenon DEF CredStep
  <1>20. KeepsRps  BY InUseIs, Zenon DEF KeepsRps, k
  <1> QED  BY <1>19, <1>20, CredStepEdits, Zenon

LEMMA SignGlobalEdits ==
  ASSUME Counts, Core, up, up', UNCHANGED <<env, early, keys, starts, issued, accepted, wrong>>,
         SignGlobal, SaveAnyway(ctx')
  PROVE  Edits /\ KeepsRps
  <1>1. ctx \in Ctx /\ ctx.global \in Nat /\ MaxCount \in Nat /\ ctx.global < MaxCount /\ ctx' = Counted
    BY NowTypes, InUseIs, Zenon DEF SignGlobal
  <1> USE <1>1
  <1>2. /\ ctx' \in Ctx /\ ctx'.credentials = ctx.credentials /\ ctx'.pin = ctx.pin
        /\ ctx'.count = ctx.count /\ ctx'.global = ctx.global + 1 /\ InUse(ctx') = InUse(ctx)
    BY CountedIs, Zenon
  <1> USE <1>2
  <1>3. shown' = [shown EXCEPT !.global = Higher(@, ctx.global + 1)]  BY Zenon DEF SignGlobal
  <1>4. shown.global \in 0..MaxCount /\ shown \in [own : [Ids -> 0..MaxCount], global : 0..MaxCount]
    BY NowShown, Zenon
  <1> USE <1>4
  <1>5. shown'.own = shown.own /\ shown'.global = Higher(shown.global, ctx.global + 1)
    BY <1>3, Zenon
  <1> USE <1>5
  <1>6. Higher(shown.global, ctx.global + 1) \in 0..MaxCount
    BY ONLY <1>1, <1>4 DEF Higher
  <1>7. shown' \in [own : [Ids -> 0..MaxCount], global : 0..MaxCount]  BY <1>3, <1>6, Zenon
  <1>8. HistoryTypes'  BY <1>7, Zenon DEF Core, HistoryTypes
  <1>9. CountCoversTable'  BY NowCount, Zenon DEF CountCoversTable
  <1>10. Unshown'  BY Zenon DEF Core, Unshown, Safe, KeyKept
  <1>11. ASSUME Safe  PROVE CountersGood(ctx', Len(issued'), shown')
    <2>1. CountersGood(ctx, Len(issued), shown)  BY <1>11, NowGood, Zenon
    <2>2. shown'.global <= ctx'.global  BY <2>1 DEF CountersGood, Higher
    <2> QED  BY <2>1, <2>2 DEF CountersGood
  <1>12. CredStep  BY <1>8, <1>9, <1>10, <1>11, SaveAnywayIs, Zenon DEF CredStep
  <1>13. KeepsRps  BY Zenon DEF KeepsRps
  <1> QED  BY <1>12, <1>13, CredStepEdits, Zenon

LEMMA DeleteCredentialEdits ==
  ASSUME Counts, Core, NEW slot \in InUse(ctx), DeleteCredential(slot)
  PROVE  Edits
  <1> DEFINE t == [ctx.credentials EXCEPT ![slot] = Free]
             n == IF ctx.count > 0 THEN ctx.count - 1 ELSE 0
  <1>1. /\ up /\ up' /\ UNCHANGED <<env, early, keys, starts, issued, accepted, wrong, shown>>
        /\ SaveAnyway(ctx')
    BY Zenon DEF DeleteCredential, Manage, Command, histories
  <1>2. /\ ctx \in Ctx /\ slot \in Slots /\ ctx.count \in Nat
        /\ IsFiniteSet(InUse(ctx)) /\ Cardinality(InUse(ctx)) \in Nat
    BY <1>1, NowTypes, InUseIs, Zenon
  <1> USE <1>1, <1>2
  <1>3. ctx' = [ctx EXCEPT !.credentials = t, !.count = n]
    BY Zenon DEF DeleteCredential, Ctx
  <1>4. t \in [Slots -> Credential \cup {Free}] /\ n \in Nat  BY DEF Ctx
  <1> HIDE DEF t, n
  <1>5. /\ ctx' \in Ctx /\ ctx'.credentials = t /\ ctx'.count = n
        /\ ctx'.pin = ctx.pin /\ ctx'.global = ctx.global
    BY <1>3, <1>4, Zenon DEF Ctx
  <1> USE <1>5
  <1>6. /\ \A s \in Slots : s # slot => ctx'.credentials[s] = ctx.credentials[s]
        /\ InUse(ctx') = InUse(ctx) \ {slot}
        /\ Cardinality(InUse(ctx')) = Cardinality(InUse(ctx)) - 1
    <2>1. ctx'.credentials = [ctx.credentials EXCEPT ![slot] = Free]  BY Zenon DEF t
    <2>2. \A s \in Slots : s # slot => ctx'.credentials[s] = ctx.credentials[s]
      BY <2>1, Zenon DEF Ctx
    <2>3. InUse(ctx') = InUse(ctx) \ {slot}
      <3>1. ctx'.credentials[slot] = Free  BY <2>1, Zenon DEF Ctx
      <3> QED  BY <2>2, <3>1, Zenon DEF InUse
    <2>4. Cardinality(InUse(ctx')) = Cardinality(InUse(ctx)) - 1
      BY <2>3, TableSize, Zenon
    <2> QED  BY <2>2, <2>3, <2>4, Zenon
  <1>7. ctx.count > 0 /\ n = ctx.count - 1
    <2>1. Cardinality(InUse(ctx)) # 0  BY InUseIs, SlotsFinite, Zenon
    <2> QED  BY <2>1, NowCount DEF n
  <1>8. CountCoversTable'  BY <1>6, <1>7, NowCount DEF CountCoversTable
  <1>9. HistoryTypes'  BY Zenon DEF Core, HistoryTypes
  <1>10. Unshown'  BY Zenon DEF Core, Unshown, Safe, KeyKept
  <1>11. Safe => CountersGood(ctx', Len(issued'), shown')
    <2>1. \A s \in InUse(ctx') : s \in InUse(ctx) /\ ctx'.credentials[s] = ctx.credentials[s]
      BY <1>6, InUseIs, Zenon
    <2> QED  BY <2>1, NowGood, Zenon DEF CountersGood
  <1>12. CredStep  BY <1>8, <1>9, <1>10, <1>11, SaveAnywayIs, Zenon DEF CredStep
  <1> QED  BY <1>12, CredStepEdits, Zenon

LEMMA SavedAgain ==
  ASSUME Counts, Core, up, up', UNCHANGED <<env, early, ctx, keys, starts, histories>>, SaveAnyway(ctx')
  PROVE  Edits
  <1>1. UNCHANGED <<issued, accepted, wrong, shown>>  BY Zenon DEF histories
  <1> USE <1>1
  <1>2. HistoryTypes'  BY Zenon DEF Core, HistoryTypes
  <1>3. Unshown'  BY Zenon DEF Core, Unshown, Safe, KeyKept
  <1>4. CountCoversTable'  BY NowCount, Zenon DEF CountCoversTable
  <1>5. CredStep  BY <1>2, <1>3, <1>4, NowTypes, NowGood, FileGood, SaveAnywayIs, Zenon DEF CredStep
  <1> QED  BY <1>5, CredStepEdits, Zenon

-----------------------------------------------------------------------------
(* The process starts.                                                      *)

\* A start has loaded d, under a key that is the one of the file if keys keep.
Booted(d) ==
  /\ ctx' = d /\ d \in Ctx /\ d.count = Cardinality(InUse(d)) /\ Upgrade(d, keys'.wrap)
  /\ up' = TRUE /\ early' = TRUE /\ starts' \in 0..MaxStarts
  /\ keys' \in [wrap : Keys, sealed : Keys, raw : Keys]
  /\ UNCHANGED <<env, issued, accepted, wrong, shown>>
  /\ file # NoFile => file \in File
  /\ KeyKept => /\ keys'.wrap = Held' /\ Held' # 0 /\ d = Content(file)
                /\ file # NoFile => file.key \in {0, keys'.wrap}
  /\ d = Content(file) \/ (file # NoFile /\ file.key \notin {0, keys'.wrap} /\ d.pin = NewPin)

LEMMA StartBoots ==
  ASSUME Counts, Core, Start
  PROVE  Booted(Load(file, keys'.wrap))
  <1> DEFINE d == Load(file, keys'.wrap)
  <1>1. /\ starts < MaxStarts /\ ctx' = d /\ Upgrade(d, keys'.wrap)
        /\ up' = TRUE /\ early' = TRUE /\ starts' = starts + 1
        /\ UNCHANGED <<env, issued, accepted, wrong, shown>>
    BY Zenon DEF Start, histories
  <1>2. PICK unseal \in Outcomes("unseal"), seal \in Outcomes("seal"), written \in Outcomes("seal") :
           keys' = EnsureWrapKey(unseal, seal, written)
    BY Zenon DEF Start
  <1>3. /\ keys' \in [wrap : Keys, sealed : Keys, raw : Keys]
        /\ KeyKept => keys'.wrap = Held' /\ Held' # 0 /\ (Held # 0 => Held' = Held)
    BY <1>1, <1>2, WrapKeyIs, Zenon
  <1>4. /\ d \in Ctx /\ d.count = Cardinality(InUse(d))
        /\ d = Content(file) \/ (file # NoFile /\ file.key \notin {0, keys'.wrap} /\ d.pin = NewPin)
        /\ file # NoFile => file \in File
    BY LoadIs, Zenon
  <1>5. KeyKept => (file # NoFile => file.key \in {0, keys'.wrap})
    BY <1>3, Zenon DEF Core, KeysOk
  <1>6. starts' \in 0..MaxStarts  BY <1>1, Fido2Assumption DEF Core, CoreTypes
  <1> HIDE DEF d
  <1>7. KeyKept => d = Content(file)  BY <1>4, <1>5, Zenon
  <1> QED  BY <1>1, <1>3, <1>4, <1>5, <1>6, <1>7, Zenon DEF Booted, d

\* The parts of the invariant that do not speak of the file.
LEMMA BootedBook ==
  ASSUME Counts, Core, NEW d, Booted(d)
  PROVE  HistoryTypes' /\ Unshown' /\ CountCoversTable' /\ Book(ctx)' /\ KeyKept' = KeyKept /\ Safe' = Safe
  <1>1. KeyKept' = KeyKept /\ Safe' = Safe /\ (Safe => KeyKept)  BY Zenon DEF Booted, KeyKept, Safe
  <1>2. HistoryTypes' /\ Unshown'  BY <1>1, Zenon DEF Booted, Core, HistoryTypes, Unshown
  <1>3. CountCoversTable'
    <2>1. d \in Ctx /\ d.count = Cardinality(InUse(d)) /\ ctx' = d  BY Zenon DEF Booted
    <2>2. Cardinality(InUse(d)) \in Nat  BY <2>1, InUseIs, Zenon
    <2> QED  BY <2>1, <2>2 DEF CountCoversTable
  <1>4. Book(d)
    <2>1. Book(Content(file))  BY Zenon DEF Core
    <2>2. CASE d = Content(file)  BY <2>1, <2>2, Zenon
    <2>3. CASE ~KeyKept /\ d.pin = NewPin  BY <1>1, <2>3, BlankIs, Zenon DEF Book
    <2> QED  BY <2>2, <2>3, Zenon DEF Booted
  <1>5. Book(ctx)'  BY <1>1, <1>4, Zenon DEF Booted, Book
  <1> QED  BY <1>1, <1>2, <1>3, <1>5, Zenon

\* A start that writes nothing.
LEMMA BootedSame ==
  ASSUME Counts, Core, NEW d, Booted(d), file' = file
  PROVE  Core'
  <1>1. HistoryTypes' /\ Unshown' /\ CountCoversTable' /\ Book(ctx)' /\ KeyKept' = KeyKept /\ Safe' = Safe
    BY BootedBook, Zenon
  <1>2. CoreTypes'  BY Zenon DEF Booted, Core, CoreTypes
  <1>3. KeysOk'  BY <1>1, Zenon DEF Booted, KeysOk
  <1>4. FileShape'  BY Zenon DEF Core, FileShape
  <1>5. Book(Content(file))'  BY <1>1, Zenon DEF Booted, Core, Book
  <1>6. StateIsOnDisk'
    <2> SUFFICES ASSUME env.faults = {}, file # NoFile
                 PROVE  /\ file.key \in {0, keys'.wrap}
                        /\ Range(file.credentials) = {d.credentials[s] : s \in InUse(d)}
                        /\ file.pin.hash = d.pin.hash /\ file.pin.blocked = d.pin.blocked
                        /\ file.pin.retries <= d.pin.retries /\ file.global <= d.global
      BY Zenon DEF StateIsOnDisk, Booted
    <2>1. d = Content(file) /\ file.key \in {0, keys'.wrap} /\ d \in Ctx  BY Zenon DEF Booted, KeyKept
    <2>2. /\ Range(file.credentials) = {Content(file).credentials[s] : s \in InUse(Content(file))}
          /\ Content(file).pin = file.pin /\ Content(file).global = file.global
      BY LoadIs, Zenon
    <2>3. d.pin.retries \in Nat /\ d.global \in Nat
      BY <2>1, InUseIs, Fido2Assumption DEF Ctx, Pin
    <2> QED  BY <2>1, <2>2, <2>3
  <1> QED  BY <1>1, <1>2, <1>3, <1>4, <1>5, <1>6, Zenon DEF Core

\* A start that writes a file without a key again, under the key.
LEMMA BootedUpgrade ==
  ASSUME Counts, Core, NEW d, Booted(d), file' # file
  PROVE  Core'
  <1> DEFINE g == [Image(d) EXCEPT !.key = keys'.wrap]
  <1>1. file # NoFile /\ file.key = 0 /\ file' = g  BY Zenon DEF Booted, Upgrade
  <1>2. d = Content(file) /\ d \in Ctx  BY <1>1, Zenon DEF Booted
  <1>3. keys.wrap \in Keys /\ keys'.wrap \in Keys  BY Zenon DEF Booted, Core, CoreTypes
  <1>4. /\ Image(d) \in File /\ Image(d).pin = d.pin /\ Image(d).count = d.count
        /\ Image(d).global = d.global
        /\ Len(Image(d).credentials) = Cardinality(InUse(d))
        /\ Range(Image(d).credentials) = {d.credentials[s] : s \in InUse(d)}
    BY <1>2, <1>3, ImageIs, Zenon
  <1>5. /\ g \in File /\ g.key = keys'.wrap /\ g.pin = Image(d).pin /\ g.count = Image(d).count
        /\ g.global = Image(d).global /\ g.credentials = Image(d).credentials
    BY <1>3, <1>4, Zenon DEF File
  <1> HIDE DEF g
  <1>6. /\ Cardinality(InUse(d)) \in Nat /\ Cardinality(InUse(d)) <= MaxCredentials
        /\ d.count = Cardinality(InUse(d))
    BY <1>2, InUseIs, SlotsFinite, Zenon DEF Booted
  <1>7. HistoryTypes' /\ Unshown' /\ CountCoversTable' /\ Book(ctx)' /\ KeyKept' = KeyKept /\ Safe' = Safe
    BY BootedBook, Zenon
  <1>8. CoreTypes'  BY <1>1, <1>5, Zenon DEF Booted, Core, CoreTypes
  <1>9. KeysOk'  BY <1>1, <1>5, <1>7, Zenon DEF Booted, KeysOk
  <1>10. FileShape'  BY <1>1, <1>4, <1>5, <1>6 DEF FileShape
  <1>11. Book(Content(file))'
    <2> DEFINE e == Content(file')
    <2>1. e = Entries(Image(d))
      <3>1. g # NoFile  BY <1>5, RecordsDiffer, Zenon
      <3>2. Entries(g) = Entries(Image(d))  BY <1>5, Zenon DEF Entries
      <3> QED  BY <1>1, <3>1, <3>2, Zenon DEF Content
    <2>2. e.pin = d.pin /\ \A n, sh : CountersGood(d, n, sh) => CountersGood(e, n, sh)
      BY <1>2, <1>3, <1>6, <2>1, Compacted
    <2> HIDE DEF e
    <2>3. Book(d)  BY <1>2, Zenon DEF Core
    <2>4. /\ e.pin.retries = 0 => e.pin.blocked
          /\ KeyKept => e.pin.hash \in accepted
          /\ Safe => TriesGood(e, wrong) /\ CountersGood(e, Len(issued), shown)
      BY <2>2, <2>3, Zenon DEF Book, TriesGood
    <2> QED  BY <1>7, <2>4, Zenon DEF Booted, Book, e
  <1>12. StateIsOnDisk'
    <2>1. d.pin.retries \in Nat /\ d.global \in Nat
      BY <1>2, InUseIs, Fido2Assumption DEF Ctx, Pin
    <2> QED  BY <1>1, <1>4, <1>5, <2>1 DEF Booted, StateIsOnDisk
  <1> QED  BY <1>7, <1>8, <1>9, <1>10, <1>11, <1>12, Zenon DEF Core

LEMMA StartCore ==
  ASSUME Counts, Core, Start
  PROVE  Core'
  BY StartBoots, BootedSame, BootedUpgrade, Zenon

-----------------------------------------------------------------------------
(* The initial states.                                                      *)

\* A file of an older version, with one credential at most, loads with it.
LEMMA OldFileIs ==
  ASSUME Counts, NEW cs \in Seq(Credential), MaxCount \in Nat, Pins # {},
         Len(cs) = 0 \/ (Len(cs) = 1 /\ cs[1].id = 1 /\ MaxCount > 0)
  PROVE  LET f == OldFile(cs)
             e == Entries(f)
         IN  /\ f \in File /\ f # NoFile /\ f.key = 0 /\ f.count = Len(cs) /\ f.credentials = cs
             /\ f.pin.retries = MaxRetries /\ MaxRetries \in Nat \ {0} /\ f.pin.hash \in Pins
             /\ e.pin = f.pin /\ e.global \in Nat
             /\ \A s \in InUse(e) : /\ s = 1 /\ Len(cs) = 1 /\ e.credentials[s].id = 1
                                    /\ 1 \in Ids /\ e.credentials[s].count \in Nat
  <1> DEFINE f == OldFile(cs)
             e == Entries(f)
             p == [NewPin EXCEPT !.hash = CHOOSE q \in Pins : TRUE]
  <1>1. p \in Pin /\ p.retries = MaxRetries /\ MaxRetries \in Nat \ {0} /\ p.hash \in Pins
    BY BlankIs, Zenon DEF Pin
  <1>2. f = [key |-> 0, pin |-> p, count |-> Len(cs), global |-> Len(cs), credentials |-> cs]
    BY Zenon DEF OldFile
  <1> HIDE DEF p
  <1>3. Len(cs) \in 0..MaxCount /\ Len(cs) \in Nat /\ Len(cs) <= 1 /\ 0 \in Keys
    <2>1. CASE Len(cs) = 0  BY <2>1, Fido2Assumption DEF Keys
    <2>2. CASE Len(cs) = 1 /\ MaxCount > 0  BY <2>2, Fido2Assumption DEF Keys
    <2> QED  BY <2>1, <2>2, Zenon
  <1>4. /\ f \in File /\ f.key = 0 /\ f.pin = p /\ f.count = Len(cs)
        /\ f.global = Len(cs) /\ f.credentials = cs
    BY <1>1, <1>2, <1>3 DEF File
  <1> HIDE DEF f
  <1>5. f # NoFile  BY <1>4, RecordsDiffer, Zenon
  <1>6. PICK n \in 0..MaxCredentials :
          /\ n <= f.count /\ e \in Ctx /\ e.global = f.global /\ e.pin = f.pin
          /\ InUse(e) = 1..n
          /\ \A s \in 1..n : e.credentials[s] = f.credentials[s]
    BY <1>4, EntriesIs, Zenon
  <1> HIDE DEF e
  <1>7. n \in Nat /\ n <= Len(cs)  BY <1>3, <1>4, <1>6, SlotIsNat
  <1>8. ASSUME NEW s \in InUse(e)
        PROVE  /\ s = 1 /\ Len(cs) = 1 /\ e.credentials[s].id = 1
               /\ 1 \in Ids /\ e.credentials[s].count \in Nat
    <2>1. s \in 1..n  BY <1>6, <1>8, Zenon
    <2>2. s = 1 /\ Len(cs) = 1  BY <1>3, <1>7, <2>1
    <2>3. e.credentials[s] = cs[1]  BY <1>4, <1>6, <2>1, <2>2, Zenon
    <2>4. e.credentials[s].id \in Ids /\ e.credentials[s].count \in Nat  BY <1>6, <1>8, InUseIs, Zenon
    <2> QED  BY <2>2, <2>3, <2>4
  <1> QED  BY <1>1, <1>3, <1>4, <1>5, <1>6, <1>8, Zenon DEF e, f

\* What every initial state has.
LEMMA InitTypes ==
  ASSUME Counts, Init
  PROVE  /\ env \in Environments /\ up = FALSE /\ early = FALSE /\ ctx \in Ctx /\ starts \in 0..MaxStarts
         /\ keys \in [wrap : Keys, sealed : Keys, raw : Keys] /\ env.old \in BOOLEAN
         /\ Held = (IF env.old THEN 1 ELSE 0) /\ wrong = 0 /\ Unshown
         /\ shown \in [own : [Ids -> 0..MaxCount], global : 0..MaxCount]
         /\ shown.global = 0 /\ \A i \in Ids : shown.own[i] = 0
         /\ accepted = {IF file = NoFile THEN NoPin ELSE file.pin.hash}
         /\ MaxCount \in Nat /\ MaxIds \in Nat /\ {0, 1} \subseteq Keys
  <1>1. /\ env \in Environments /\ up = FALSE /\ early = FALSE /\ ctx = Blank
        /\ keys = [wrap |-> 0, sealed |-> 0, raw |-> IF env.old THEN 1 ELSE 0]
        /\ starts = 0 /\ wrong = 0 /\ shown = [own |-> [i \in Ids |-> 0], global |-> 0]
        /\ accepted = {IF file = NoFile THEN NoPin ELSE file.pin.hash}
    BY Zenon DEF Init
  <1>2. {0, 1} \subseteq Keys /\ MaxCount \in Nat /\ MaxIds \in Nat /\ MaxStarts \in Nat
    BY Fido2Assumption DEF Keys
  <1>3. env.old \in BOOLEAN  BY <1>1, Fido2Assumption, Zenon
  <1>4. /\ keys \in [wrap : Keys, sealed : Keys, raw : Keys]
        /\ Held = IF env.old THEN 1 ELSE 0
    BY <1>1, <1>2, <1>3, Zenon DEF Held
  <1>5. /\ shown \in [own : [Ids -> 0..MaxCount], global : 0..MaxCount]
        /\ shown.global = 0 /\ \A i \in Ids : shown.own[i] = 0
    BY <1>1, <1>2
  <1>6. Unshown  BY <1>5, Zenon DEF Unshown
  <1>7. ctx \in Ctx  BY <1>1, BlankIs, Zenon
  <1>8. starts \in 0..MaxStarts  BY <1>1, <1>2
  <1> QED  BY <1>1, <1>2, <1>3, <1>4, <1>5, <1>6, <1>7, <1>8, Zenon

\* An initial state with a file of an older version.
LEMMA OldCore ==
  ASSUME Counts, Init, env.old,
         NEW cs \in Seq(Credential), NEW is \in Seq([rp : Rps, key : Keys]),
         file = OldFile(cs), issued = is, Len(cs) = Len(is),
         Len(cs) = 0 \/ (Len(cs) = 1 /\ cs[1].id = 1 /\ MaxIds > 0 /\ MaxCount > 0)
  PROVE  Core
  <1> DEFINE e == Content(file)
  <1>1. MaxCount \in Nat /\ MaxIds \in Nat /\ Pins # {}  BY InitTypes, Fido2Assumption, Zenon
  <1>2. /\ file \in File /\ file # NoFile /\ file.key = 0 /\ file.count = Len(cs) /\ file.credentials = cs
        /\ file.pin.retries = MaxRetries /\ MaxRetries \in Nat \ {0} /\ file.pin.hash \in Pins
        /\ e.pin = file.pin /\ e.global \in Nat
        /\ \A s \in InUse(e) : /\ s = 1 /\ Len(cs) = 1 /\ e.credentials[s].id = 1
                               /\ 1 \in Ids /\ e.credentials[s].count \in Nat
    BY <1>1, OldFileIs, Zenon DEF Content
  <1> HIDE DEF e
  <1>3. CoreTypes  BY <1>2, InitTypes, Zenon DEF CoreTypes
  <1>4. Len(is) <= MaxIds /\ Len(cs) <= MaxCredentials /\ Len(cs) \in Nat  BY <1>1, SlotIsNat
  <1>5. HistoryTypes
    <2>1. accepted \subseteq Pins \cup {NoPin} /\ wrong \in Nat  BY <1>2, InitTypes
    <2> QED  BY <1>4, <2>1, InitTypes, Zenon DEF HistoryTypes
  <1>6. FileShape  BY <1>2, <1>4 DEF FileShape
  <1>7. KeysOk  BY <1>2, InitTypes DEF KeysOk
  <1>8. Book(e)
    <2>1. CountersGood(e, Len(issued), shown)  BY <1>2, InitTypes DEF CountersGood
    <2>2. TriesGood(e, wrong)  BY <1>2, InitTypes DEF TriesGood
    <2>3. e.pin.retries # 0 /\ e.pin.hash \in accepted  BY <1>2, InitTypes, Zenon
    <2> QED  BY <2>1, <2>2, <2>3, Zenon DEF Book
  <1>9. ~up /\ Unshown  BY InitTypes, Zenon
  <1> QED  BY <1>3, <1>5, <1>6, <1>7, <1>8, <1>9, Zenon DEF Core, CountCoversTable, StateIsOnDisk, e

LEMMA InitCore ==
  ASSUME Counts, Init
  PROVE  Core
  <1>1. CASE ~env.old
    <2>1. file = NoFile /\ issued = <<>>  BY <1>1, Zenon DEF Init
    <2>2. CoreTypes  BY <2>1, InitTypes, Zenon DEF CoreTypes
    <2>3. HistoryTypes  BY <2>1, InitTypes DEF HistoryTypes
    <2>4. KeysOk /\ FileShape  BY <1>1, <2>1, InitTypes, Zenon DEF KeysOk, FileShape
    <2>5. Book(Content(file))
      BY <2>1, InitTypes, BlankIs DEF Book, Content, TriesGood, CountersGood
    <2>6. ~up /\ Unshown  BY InitTypes, Zenon
    <2> QED  BY <2>2, <2>3, <2>4, <2>5, <2>6, Zenon DEF Core, CountCoversTable, StateIsOnDisk
  <1>2. CASE env.old
    <2>1. PICK rp \in Rps, u \in Users :
             IF "cred" \in env.commands
             THEN /\ file = OldFile(<<OldCredential(rp, u)>>)
                  /\ issued = <<[rp |-> rp, key |-> 1]>>
             ELSE file = OldFile(<<>>) /\ issued = <<>>
      BY <1>2, Zenon DEF Init
    <2>2. CASE "cred" \in env.commands
      <3> DEFINE k == OldCredential(rp, u)
                 i == [rp |-> rp, key |-> 1]
      <3>1. MaxIds > 0 /\ MaxCount > 0 /\ 1 \in Protections
        <4>1. env \in Environments  BY InitTypes, Zenon
        <4> QED  BY <1>2, <2>2, <4>1, Fido2Assumption, Zenon
      <3>2. k \in Credential /\ k.id = 1  BY <3>1, InitTypes DEF OldCredential, Credential, Ids
      <3>3. i \in [rp : Rps, key : Keys]  BY InitTypes, Zenon
      <3> HIDE DEF k, i
      <3>4. <<k>> \in Seq(Credential) /\ Len(<<k>>) = 1 /\ <<k>>[1] = k  BY <3>2
      <3>5. <<i>> \in Seq([rp : Rps, key : Keys]) /\ Len(<<i>>) = 1  BY <3>3
      <3>6. file = OldFile(<<k>>) /\ issued = <<i>>  BY <2>1, <2>2, Zenon DEF k, i
      <3> QED  BY <1>2, <3>1, <3>2, <3>4, <3>5, <3>6, OldCore, Zenon
    <2>3. CASE "cred" \notin env.commands
      <3>1. <<>> \in Seq(Credential) /\ <<>> \in Seq([rp : Rps, key : Keys]) /\ Len(<<>>) = 0
        OBVIOUS
      <3> QED  BY <1>2, <2>1, <2>3, <3>1, OldCore, Zenon
    <2> QED  BY <2>2, <2>3, Zenon
  <1>3. env.old \in BOOLEAN  BY InitTypes, Zenon
  <1> QED  BY <1>1, <1>2, <1>3, Zenon

=============================================================================
