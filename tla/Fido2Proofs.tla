---------------------------- MODULE Fido2Proofs ----------------------------
(***************************************************************************)
(* Proofs about Fido2, continued from Fido2Steps: the order of slots, the   *)
(* fingerprint templates, pending assertions and enumerations, and the      *)
(* theorems.                                                                *)
(***************************************************************************)
EXTENDS Fido2Steps, FiniteSetTheorems

USE SMTT(30), ZenonT(30)

-----------------------------------------------------------------------------
(* Slots in the order of the table.                                         *)

\* A nonempty set of numbers has a least element, which is the first.
LEMMA LeastIs ==
  ASSUME NEW S \in SUBSET Nat, S # {}
  PROVE  First(S) \in S /\ \A t \in S : First(S) <= t
  <1>1. PICK x \in S : \A y \in S : ~(<<y, x>> \in OpToRel(<, Nat))
    BY NatLessThanWellFounded, WFMin, Zenon
  <1>2. \A y \in S : ~(y < x)  BY <1>1, Zenon DEF OpToRel
  <1>3. \A y \in S : x <= y  BY <1>2
  <1> QED  BY <1>3, Zenon DEF First

\* A nonempty set of slots has a greatest element.
LEMMA GreatestIs ==
  ASSUME NEW S \in SUBSET Slots, S # {}
  PROVE  \E x \in S : \A y \in S : y <= x
  <1> DEFINE T == {MaxCredentials - s : s \in S}
  <1>1. MaxCredentials \in Nat  BY Fido2Assumption, Zenon
  <1>2. T \in SUBSET Nat /\ T # {}
    <2>1. \A s \in S : MaxCredentials - s \in Nat  BY <1>1 DEF Slots
    <2> QED  BY <2>1, Zenon
  <1>3. First(T) \in T /\ \A t \in T : First(T) <= t  BY <1>2, LeastIs, Zenon
  <1>4. PICK x \in S : First(T) = MaxCredentials - x  BY <1>3, Zenon
  <1>5. \A y \in S : MaxCredentials - x <= MaxCredentials - y  BY <1>3, <1>4, Zenon
  <1>6. \A y \in S : y <= x  BY <1>1, <1>5 DEF Slots
  <1> QED  BY <1>6, Zenon

LEMMA SlotsBounded ==
  ASSUME NEW S \in SUBSET Slots
  PROVE  /\ IsFiniteSet(S) /\ Cardinality(S) \in Nat
         /\ Cardinality(S) <= MaxCredentials
  <1>1. MaxCredentials \in Nat  BY Fido2Assumption, Zenon
  <1>2. IsFiniteSet(Slots) /\ Cardinality(Slots) = MaxCredentials
    <2>1. /\ IsFiniteSet(1..MaxCredentials)
          /\ Cardinality(1..MaxCredentials) = IF 1 > MaxCredentials THEN 0 ELSE MaxCredentials-1+1
      BY <1>1, FS_Interval
    <2> QED  BY <1>1, <2>1 DEF Slots
  <1> QED  BY <1>2, FS_Subset, FS_CardinalityType, Zenon

\* The sequences among which InOrder chooses.
Increasing(S) ==
  {q \in [1..Cardinality(S) -> S] : \A i, j \in DOMAIN q : i < j => q[i] < q[j]}

\* There is one for every set of slots: by the least size without one.
LEMMA OrderExists ==
  ASSUME NEW S \in SUBSET Slots
  PROVE  Increasing(S) # {}
  <1> DEFINE Bad == {n \in Nat : \E T \in SUBSET Slots : Cardinality(T) = n /\ Increasing(T) = {}}
  <1>1. SUFFICES Bad = {}
    BY SlotsBounded, Zenon
  <1>2. SUFFICES ASSUME Bad # {}  PROVE FALSE
    BY Zenon
  <1> DEFINE n == First(Bad)
  <1>3. n \in Bad /\ \A m \in Bad : n <= m  BY <1>2, LeastIs, Zenon
  <1> USE <1>3
  <1>4. PICK T \in SUBSET Slots : Cardinality(T) = n /\ Increasing(T) = {}
    BY Zenon
  <1>5. n \in Nat  BY Zenon
  <1> USE <1>4, <1>5
  <1> HIDE DEF n, Bad
  <1>6. CASE T = {}
    <2>1. n = 0  BY <1>6, FS_EmptySet, Zenon
    <2>2. [i \in 1..0 |-> 0] \in [1..0 -> {}]  OBVIOUS
    <2>3. [i \in 1..0 |-> 0] \in Increasing(T)  BY <1>6, <2>1, <2>2, Zenon DEF Increasing
    <2> QED  BY <2>3, Zenon
  <1>7. CASE T # {}
    <2>1. PICK x \in T : \A y \in T : y <= x  BY <1>7, GreatestIs, Zenon
    <2> USE <2>1
    <2> DEFINE R == T \ {x}
    <2>2. Cardinality(R) = n - 1 /\ n > 0
      BY SlotsBounded, FS_RemoveElement, FS_EmptySet
    <2> USE <2>2
    <2>3. n - 1 \in Nat /\ n - 1 \notin Bad  OBVIOUS
    <2>4. PICK q : q \in Increasing(R)  BY <2>3, Zenon DEF Bad
    <2> DEFINE p == [i \in 1..n |-> IF i = n THEN x ELSE q[i]]
    <2>5. q \in [1..(n - 1) -> R] /\ \A i, j \in 1..(n - 1) : i < j => q[i] < q[j]
      BY <2>4, Zenon DEF Increasing
    <2> USE <2>5
    <2>6. p \in [1..n -> T]  OBVIOUS
    <2>7. ASSUME NEW i \in 1..n, NEW j \in 1..n, i < j  PROVE p[i] < p[j]
      <3>0. i \in 1..(n - 1) /\ i # n  BY <2>7
      <3>1. i \in 1..(n - 1) /\ p[i] = q[i] /\ q[i] \in R  BY <3>0, Zenon
      <3> USE <3>1
      <3>2. CASE j = n
        <4>1. q[i] \in Nat /\ x \in Nat /\ q[i] <= x /\ q[i] # x
          BY SlotIsNat, Zenon
        <4> QED  BY <3>2, <4>1
      <3>3. CASE j # n
        <4>1. j \in 1..(n - 1) /\ p[j] = q[j]  BY <3>3
        <4> QED  BY <4>1, <2>7, Zenon
      <3> QED  BY <3>2, <3>3, Zenon
    <2>8. p \in Increasing(T)  BY <2>6, <2>7, Zenon DEF Increasing
    <2> QED  BY <2>8, Zenon
  <1> QED  BY <1>6, <1>7, Zenon

\* The slots of a set in order: each of them once.
LEMMA OrderIs ==
  ASSUME NEW S \in SUBSET Slots
  PROVE  /\ InOrder(S) \in [1..Cardinality(S) -> S] /\ InOrder(S) \in Seq(S)
         /\ Len(InOrder(S)) = Cardinality(S)
         /\ \A i, j \in 1..Cardinality(S) : InOrder(S)[i] = InOrder(S)[j] => i = j
         /\ Range(InOrder(S)) = S
  <1> DEFINE q == InOrder(S)
             n == Cardinality(S)
  <1>1. n \in Nat /\ IsFiniteSet(S)  BY SlotsBounded, Zenon
  <1>2. q \in Increasing(S)  BY OrderExists, Zenon DEF InOrder, Increasing
  <1>3. q \in [1..n -> S] /\ \A i, j \in 1..n : i < j => q[i] < q[j]  BY <1>2, Zenon DEF Increasing
  <1> USE <1>1, <1>3
  <1> HIDE DEF q, n
  <1>4. q \in Seq(S) /\ Len(q) = n  OBVIOUS
  <1>5. ASSUME NEW i \in 1..n, NEW j \in 1..n, q[i] = q[j]  PROVE i = j
    <2>1. q[i] \in Nat  BY SlotIsNat, Zenon
    <2>2. ~(q[i] < q[j]) /\ ~(q[j] < q[i])  BY <2>1, <1>5
    <2> QED  BY <2>2
  <1>6. q \in Injection(1..n, S)  BY <1>5, Zenon DEF Injection, IsInjective
  <1>7. Cardinality(1..n) = n  BY FS_Interval
  <1>8. q \in Surjection(1..n, S)  BY <1>6, <1>7, FS_Injection, Zenon DEF n
  <1>9. Range(q) = S  BY <1>8, Zenon DEF Range, Surjection
  <1> QED  BY <1>4, <1>5, <1>9, Zenon DEF q, n

\* So what Fido2Invariant assumes of the number and the order of slots holds.
LEMMA CountsHold == Counts
  <1>1. ASSUME NEW n \in 0..MaxCredentials  PROVE Cardinality(1..n) = n
    BY FS_Interval, SlotIsNat
  <1>2. ASSUME NEW S \in SUBSET Slots
        PROVE  /\ IsFiniteSet(S) /\ Cardinality(S) \in Nat /\ Cardinality(S) <= MaxCredentials
               /\ S = {} <=> Cardinality(S) = 0
               /\ \A s \in S : Cardinality(S \ {s}) = Cardinality(S) - 1
               /\ \A s \in Slots \ S : Cardinality(S \cup {s}) = Cardinality(S) + 1
    <2>1. IsFiniteSet(S) /\ Cardinality(S) \in Nat /\ Cardinality(S) <= MaxCredentials
      BY SlotsBounded, Zenon
    <2> USE <2>1
    <2>2. S = {} <=> Cardinality(S) = 0  BY FS_EmptySet, Zenon
    <2>3. \A s \in S : Cardinality(S \ {s}) = Cardinality(S) - 1  BY FS_RemoveElement, Zenon
    <2>4. \A s \in Slots \ S : Cardinality(S \cup {s}) = Cardinality(S) + 1
      BY FS_AddElement, Zenon
    <2> QED  BY <2>2, <2>3, <2>4, Zenon
  <1>3. ASSUME NEW S \in SUBSET Slots, S # {}
        PROVE  First(S) \in S /\ \A s \in S : First(S) <= s
    <2>1. S \in SUBSET Nat  BY SlotIsNat, Zenon
    <2> QED  BY <1>3, <2>1, LeastIs, Zenon
  <1> QED  BY <1>1, <1>2, <1>3, OrderIs, Zenon DEF Counts

USE CountsHold

-----------------------------------------------------------------------------
(* Fingerprint templates.                                                   *)

LEMMA TemplatesFinite ==
  /\ MaxTemplates \in Nat /\ Samples \in Nat \ {0} /\ Unused \in Nat /\ Unused = Samples + 1
  /\ \A t \in Templates : t \in Nat /\ t # 0 /\ t \in 0..MaxTemplates
  /\ \A b : IsFiniteSet(Taken(b)) /\ Cardinality(Taken(b)) \in Nat
  <1>1. MaxTemplates \in Nat /\ Samples \in Nat \ {0} /\ Unused \in Nat /\ Unused = Samples + 1
    BY Fido2Assumption DEF Unused
  <1> USE <1>1
  <1>2. \A t \in Templates : t \in Nat /\ t # 0 /\ t \in 0..MaxTemplates  BY DEF Templates
  <1>3. IsFiniteSet(Templates)  BY FS_Interval DEF Templates
  <1>4. ASSUME NEW b  PROVE IsFiniteSet(Taken(b)) /\ Cardinality(Taken(b)) \in Nat
    <2>1. Taken(b) \in SUBSET Templates  BY Zenon DEF Taken
    <2>2. IsFiniteSet(Taken(b))  BY <1>3, <2>1, FS_Subset, Zenon
    <2> QED  BY <2>2, FS_CardinalityType, Zenon
  <1> QED  BY <1>2, <1>4, Zenon

\* One template changes.
LEMMA BioEdit ==
  ASSUME NEW b \in Bio, NEW d \in Bio, NEW t \in Templates, NEW x \in 0..Unused,
         d.left = [b.left EXCEPT ![t] = x]
  PROVE  /\ x = Unused => Taken(d) = Taken(b) \ {t} /\ Incomplete(d) = Incomplete(b) \ {t}
         /\ x # Unused => Taken(d) = Taken(b) \cup {t}
         /\ x \in 1..Samples => Incomplete(d) = Incomplete(b) \cup {t}
         /\ x \notin 1..Samples => Incomplete(d) = Incomplete(b) \ {t}
  <1>1. b.left \in [Templates -> 0..Unused]  BY Zenon DEF Bio
  <1>2. d.left[t] = x /\ \A s \in Templates : s # t => d.left[s] = b.left[s]  BY <1>1, Zenon
  <1> USE <1>2
  <1>3. Unused \notin 1..Samples  BY TemplatesFinite
  <1>4. x = Unused => Taken(d) = Taken(b) \ {t}  BY Zenon DEF Taken
  <1>5. x # Unused => Taken(d) = Taken(b) \cup {t}  BY Zenon DEF Taken
  <1>6. x \in 1..Samples => Incomplete(d) = Incomplete(b) \cup {t}  BY Zenon DEF Incomplete
  <1>7. x \notin 1..Samples => Incomplete(d) = Incomplete(b) \ {t}  BY Zenon DEF Incomplete
  <1> QED  BY <1>3, <1>4, <1>5, <1>6, <1>7, Zenon

LEMMA AbandonedIs ==
  ASSUME BioGood(bio)
  PROVE  BioGood(Abandoned) /\ Abandoned.active = 0
  <1>1. bio \in Bio /\ bio.left \in [Templates -> 0..Unused] /\ bio.active \in 0..MaxTemplates /\ bio.count \in Nat
    BY Zenon DEF BioGood, Bio
  <1> USE <1>1
  <1>2. CASE bio.active = 0
    <2>1. Abandoned = bio  BY <1>2, Zenon DEF Abandoned
    <2> QED  BY <1>2, <2>1, Zenon
  <1>3. CASE bio.active # 0
    <2> DEFINE t == bio.active
               left == [bio.left EXCEPT ![t] = Unused]
    <2>1. Incomplete(bio) = {t}  BY <1>3, Zenon DEF BioGood
    <2>2. t \in Templates /\ bio.left[t] \in 1..Samples  BY <2>1, Zenon DEF Incomplete
    <2> USE <2>2
    <2>3. Abandoned = [left |-> left, count |-> bio.count - 1, active |-> 0]
      BY <1>3, Zenon DEF Abandoned
    <2>4. t \in Taken(bio)  BY TemplatesFinite DEF Taken
    <2>5. bio.count = Cardinality(Taken(bio)) /\ IsFiniteSet(Taken(bio))
      BY TemplatesFinite, Zenon DEF BioGood
    <2>6. Cardinality(Taken(bio) \ {t}) = bio.count - 1  BY <2>4, <2>5, FS_RemoveElement, Zenon
    <2>7. bio.count - 1 \in Nat
      <3>1. bio.count # 0  BY <2>4, <2>5, FS_EmptySet, Zenon
      <3> QED  BY <3>1
    <2>8. Unused \in 0..Unused  BY TemplatesFinite
    <2>9. left \in [Templates -> 0..Unused]  BY <2>8, Zenon
    <2>10. Abandoned \in Bio /\ Abandoned.left = left /\ Abandoned.count = bio.count - 1 /\ Abandoned.active = 0
      <3> HIDE DEF left
      <3> QED  BY <2>3, <2>7, <2>9, TemplatesFinite DEF Bio
    <2>11. Taken(Abandoned) = Taken(bio) \ {t} /\ Incomplete(Abandoned) = Incomplete(bio) \ {t}
      BY <2>10, <2>8, BioEdit
    <2> QED  BY <2>1, <2>6, <2>10, <2>11, Zenon DEF BioGood
  <1> QED  BY <1>2, <1>3, Zenon

LEMMA EnrollBeginBio ==
  ASSUME BioGood(bio), EnrollBegin
  PROVE  BioGood(bio')
  <1> DEFINE a == Abandoned
             free == {t \in Templates : a.left[t] = Unused}
             t == First(free)
             left == [a.left EXCEPT ![t] = Samples]
  <1>1. bio' = IF free = {} THEN a ELSE [left |-> left, count |-> a.count + 1, active |-> t]
    BY Zenon DEF EnrollBegin
  <1>2. BioGood(a) /\ a.active = 0  BY AbandonedIs, Zenon
  <1> USE <1>2
  <1> HIDE DEF a
  <1>3. a \in Bio /\ a.left \in [Templates -> 0..Unused] /\ a.count \in Nat  BY Zenon DEF BioGood, Bio
  <1> USE <1>3
  <1>4. CASE free = {}  BY <1>1, <1>4, Zenon
  <1>5. CASE free # {}
    <2>1. free \in SUBSET Nat  BY TemplatesFinite, Zenon
    <2>2. t \in free  BY <1>5, <2>1, LeastIs, Zenon
    <2>3. t \in Templates /\ t \notin Taken(a) /\ t # 0 /\ t \in 0..MaxTemplates
      BY <2>2, TemplatesFinite, Zenon DEF Taken
    <2> USE <2>3
    <2>4. Samples \in 0..Unused /\ Samples \in 1..Samples /\ Samples # Unused  BY TemplatesFinite
    <2>5. left \in [Templates -> 0..Unused]  BY <2>4, Zenon
    <2>6. bio' = [left |-> left, count |-> a.count + 1, active |-> t]  BY <1>1, <1>5, Zenon
    <2> HIDE DEF t, free
    <2>7. bio' \in Bio /\ bio'.left = left /\ bio'.count = a.count + 1 /\ bio'.active = t
      <3> HIDE DEF left
      <3> QED  BY <2>5, <2>6 DEF Bio
    <2>8. Taken(bio') = Taken(a) \cup {t} /\ Incomplete(bio') = Incomplete(a) \cup {t}
      BY <2>4, <2>7, BioEdit
    <2>9. Incomplete(a) = {} /\ a.count = Cardinality(Taken(a))  BY Zenon DEF BioGood
    <2>10. Cardinality(Taken(a) \cup {t}) = a.count + 1
      <3>1. IsFiniteSet(Taken(a))  BY TemplatesFinite, Zenon
      <3> QED  BY ONLY <2>3, <2>9, <3>1, FS_AddElement, Zenon
    <2> QED  BY <2>7, <2>8, <2>9, <2>10, Zenon DEF BioGood
  <1> QED  BY <1>4, <1>5, Zenon

LEMMA EnrollCaptureBio ==
  ASSUME BioGood(bio), EnrollCaptureNext
  PROVE  BioGood(bio')
  <1> DEFINE t == bio.active
             n == IF bio.left[t] > 0 THEN bio.left[t] - 1 ELSE 0
             left == [bio.left EXCEPT ![t] = n]
             active == IF n = 0 THEN 0 ELSE t
  <1>1. /\ bio \in Bio /\ bio.left \in [Templates -> 0..Unused] /\ bio.count \in Nat
        /\ bio.active \in 0..MaxTemplates /\ bio.active # 0
    BY Zenon DEF BioGood, Bio, EnrollCaptureNext
  <1> USE <1>1
  <1>2. Incomplete(bio) = {t}  BY Zenon DEF BioGood
  <1>3. t \in Templates /\ bio.left[t] \in 1..Samples  BY <1>2, Zenon DEF Incomplete
  <1> USE <1>3
  <1>4. /\ n \in 0..Unused /\ n # Unused /\ (n = 0 => n \notin 1..Samples)
        /\ (n # 0 => n \in 1..Samples)
    BY TemplatesFinite
  <1>5. left \in [Templates -> 0..Unused]  BY <1>4, Zenon
  <1>6. active \in 0..MaxTemplates  BY TemplatesFinite
  <1>7. bio' = [bio EXCEPT !.left = left, !.active = active]
    BY Zenon DEF EnrollCaptureNext, Bio
  <1> HIDE DEF n
  <1>8. bio' \in Bio /\ bio'.left = left /\ bio'.count = bio.count /\ bio'.active = active
    <2> HIDE DEF left, active
    <2> QED  BY <1>5, <1>6, <1>7, Zenon DEF Bio
  <1>9. /\ Taken(bio') = Taken(bio) \cup {t}
        /\ n # 0 => Incomplete(bio') = Incomplete(bio) \cup {t}
        /\ n = 0 => Incomplete(bio') = Incomplete(bio) \ {t}
    BY <1>4, <1>8, BioEdit
  <1>10. Taken(bio') = Taken(bio)
    <2>1. t \in Taken(bio)  BY TemplatesFinite DEF Taken
    <2> QED  BY <1>9, <2>1, Zenon
  <1> QED  BY <1>2, <1>8, <1>9, <1>10, Zenon DEF BioGood

LEMMA RemoveEnrollmentBio ==
  ASSUME BioGood(bio), NEW t \in Templates, RemoveEnrollment(t)
  PROVE  BioGood(bio')
  <1> DEFINE left == [bio.left EXCEPT ![t] = Unused]
             n == IF bio.count > 0 THEN bio.count - 1 ELSE 0
             active == IF bio.active = t THEN 0 ELSE bio.active
  <1>1. /\ bio \in Bio /\ bio.left \in [Templates -> 0..Unused] /\ bio.count \in Nat
        /\ bio.active \in 0..MaxTemplates /\ bio.left[t] # Unused
    BY Zenon DEF BioGood, Bio, RemoveEnrollment
  <1> USE <1>1
  <1>2. bio' = [left |-> left, count |-> n, active |-> active]  BY Zenon DEF RemoveEnrollment
  <1>3. t \in Taken(bio)  BY Zenon DEF Taken
  <1>4. bio.count = Cardinality(Taken(bio)) /\ IsFiniteSet(Taken(bio))
    BY TemplatesFinite, Zenon DEF BioGood
  <1>5. bio.count # 0  BY <1>3, <1>4, FS_EmptySet, Zenon
  <1>6. Cardinality(Taken(bio) \ {t}) = n /\ n \in Nat
    <2>1. Cardinality(Taken(bio) \ {t}) = bio.count - 1  BY <1>3, <1>4, FS_RemoveElement, Zenon
    <2> QED  BY <1>5, <2>1
  <1>7. Unused \in 0..Unused /\ 0 \in 0..MaxTemplates  BY TemplatesFinite
  <1>8. left \in [Templates -> 0..Unused] /\ active \in 0..MaxTemplates  BY <1>7, Zenon
  <1>9. bio' \in Bio /\ bio'.left = left /\ bio'.count = n /\ bio'.active = active
    <2> HIDE DEF left, n, active
    <2> QED  BY <1>2, <1>6, <1>8, Zenon DEF Bio
  <1>10. Taken(bio') = Taken(bio) \ {t} /\ Incomplete(bio') = Incomplete(bio) \ {t}
    BY <1>7, <1>9, BioEdit
  <1>11. Incomplete(bio) = IF bio.active = 0 THEN {} ELSE {bio.active}  BY Zenon DEF BioGood
  <1>12. Incomplete(bio') = IF active = 0 THEN {} ELSE {active}
    BY <1>10, <1>11, TemplatesFinite, Zenon
  <1> QED  BY <1>6, <1>9, <1>10, <1>12, Zenon DEF BioGood

LEMMA NoBioGood == BioGood(NoBio)
  <1>1. /\ NoBio.left = [t \in Templates |-> Unused] /\ NoBio.count = 0 /\ NoBio.active = 0
        /\ 0 \in 0..MaxTemplates /\ Unused \in 0..Unused /\ Unused \notin 1..Samples
    BY TemplatesFinite DEF NoBio, Unused
  <1>2. NoBio \in Bio  BY TemplatesFinite DEF NoBio, Bio, Unused
  <1>3. Taken(NoBio) = {} /\ Incomplete(NoBio) = {}  BY <1>1, Zenon DEF Taken, Incomplete
  <1> QED  BY <1>1, <1>2, <1>3, FS_EmptySet, Zenon DEF BioGood

-----------------------------------------------------------------------------
(* Pending assertions and enumerations.                                     *)

LEMMA NothingPending ==
  /\ NoAssertion \in [rp : Rps \cup {NoRp}, rest : Seq(Slots)]
  /\ NoAssertion.rest = <<>> /\ NoAssertion.rp = NoRp
  /\ NoEnum \in [rps : Seq(Rps), rp : Rps \cup {NoRp}, slots : Seq(Slots)]
  /\ NoEnum.rps = <<>> /\ NoEnum.slots = <<>> /\ NoEnum.rp = NoRp
  /\ Range(<<>>) = {}
  BY DEF NoAssertion, NoEnum, Range

\* What is left of a sequence was in it.
LEMMA TailIs ==
  ASSUME NEW S, NEW q \in Seq(S), q # <<>>
  PROVE  /\ Head(q) \in Range(q) /\ Tail(q) \in Seq(S) /\ Range(Tail(q)) \subseteq Range(q)
  <1>1. /\ Head(q) = q[1] /\ Tail(q) \in Seq(S) /\ Len(q) \in Nat /\ Len(q) # 0
        /\ Len(Tail(q)) = Len(q) - 1 /\ \A i \in 1..Len(Tail(q)) : Tail(q)[i] = q[i + 1]
    OBVIOUS
  <1> USE <1>1
  <1>2. DOMAIN q = 1..Len(q) /\ DOMAIN Tail(q) = 1..Len(Tail(q))  OBVIOUS
  <1> USE <1>2
  <1>3. 1 \in DOMAIN q  OBVIOUS
  <1>4. \A i \in DOMAIN Tail(q) : i + 1 \in DOMAIN q  OBVIOUS
  <1> QED  BY <1>3, <1>4 DEF Range

\* A command other than the assertions: the pending ones are dropped.
LEMMA DropsAssertions ==
  ASSUME assertion' = NoAssertion
  PROVE  assertion' \in [rp : Rps \cup {NoRp}, rest : Seq(Slots)] /\ NextIsOfSameRp'
  BY NothingPending, Zenon DEF NextIsOfSameRp

LEMMA DropsEnum ==
  ASSUME enum' = NoEnum
  PROVE  enum' \in [rps : Seq(Rps), rp : Rps \cup {NoRp}, slots : Seq(Slots)] /\ EnumerationIsLive'
  BY NothingPending, Zenon DEF EnumerationIsLive

\* Enumerations go on while credentials keep their slots and relying parties.
LEMMA KeepsEnum ==
  ASSUME Sides, env' = env, enum' = enum, "save" \notin env.faults => KeepsRps
  PROVE  /\ enum' \in [rps : Seq(Rps), rp : Rps \cup {NoRp}, slots : Seq(Slots)]
         /\ EnumerationIsLive'
  <1> SUFFICES ASSUME "save" \notin env.faults
               PROVE  /\ \A s \in Range(enum.slots) : s \in InUse(ctx') /\ ctx'.credentials[s].rp = enum.rp
                      /\ \A rp \in Range(enum.rps) : \E s \in InUse(ctx') : ctx'.credentials[s].rp = rp
    BY Zenon DEF Sides, EnumerationIsLive
  <1>1. /\ \A s \in Range(enum.slots) : s \in InUse(ctx) /\ ctx.credentials[s].rp = enum.rp
        /\ \A rp \in Range(enum.rps) : \E s \in InUse(ctx) : ctx.credentials[s].rp = rp
    BY Zenon DEF Sides, EnumerationIsLive
  <1> QED  BY <1>1, Zenon DEF KeepsRps

LEMMA SamePlaces == ASSUME ctx' = ctx PROVE KeepsRps
  BY Zenon DEF KeepsRps

\* The PIN commands leave the table alone.
LEMMA PinsKeepRps ==
  ASSUME Core, \/ \E p \in Pins : SetPin(p) \/ GetPinToken(p)
               \/ \E p, q \in Pins : ChangePin(p, q)
  PROVE  KeepsRps
  <1>1. ctx \in Ctx  BY FileBook, Zenon
  <1>2. ctx'.credentials = ctx.credentials
    BY <1>1, Zenon DEF SetPin, GetPinToken, ChangePin, WrongPin, ReplacePin, Ctx
  <1>3. InUse(ctx') = InUse(ctx)  BY <1>2, Zenon DEF InUse
  <1> QED  BY <1>2, <1>3, Zenon DEF KeepsRps

\* The matches of a GetAssertion.
LEMMA AssertFirstInv ==
  ASSUME Fido2Inv, NEW rp \in Rps, NEW m \in Seq(Slots), AssertFirst(rp, m), up,
         \A s \in Range(m) : s \in InUse(ctx) /\ ctx.credentials[s].rp = rp,
         UNCHANGED <<env, up, early, enum, bio, keys, starts, issued, accepted, wrong>>
  PROVE  Fido2Inv'
  <1>1. CASE m = <<>>
    <2>1. assertion' = NoAssertion /\ UNCHANGED <<ctx, file, shown>>  BY <1>1, Zenon DEF AssertFirst
    <2>2. Core'  BY <2>1, CoreSame, Zenon DEF Fido2Inv, Core, CoreTypes, histories
    <2>3. Sides'  BY <2>1, DropsAssertions, KeepsEnum, SamePlaces, Zenon DEF Fido2Inv, Sides
    <2> QED  BY <2>2, <2>3, Zenon DEF Fido2Inv
  <1>2. CASE m # <<>>
    <2>1. /\ SignOwn(Head(m)) /\ SaveAnyway(ctx')
          /\ assertion' = [rp |-> rp, rest |-> Tail(m)]
      BY <1>2, Zenon DEF AssertFirst
    <2> USE <2>1
    <2>2. Head(m) \in InUse(ctx) /\ Tail(m) \in Seq(Slots) /\ Range(Tail(m)) \subseteq Range(m)
      BY <1>2, TailIs, Zenon
    <2> USE <2>2
    <2>3. Edits /\ KeepsRps  BY SignOwnEdits, Zenon DEF Fido2Inv
    <2> USE <2>3
    <2>4. Core'  BY EditsCore, Zenon DEF Fido2Inv
    <2>5. assertion' \in [rp : Rps \cup {NoRp}, rest : Seq(Slots)]  BY Zenon
    <2>6. NextIsOfSameRp'  BY Zenon DEF NextIsOfSameRp, KeepsRps
    <2>7. Sides'  BY <2>5, <2>6, KeepsEnum, Zenon DEF Fido2Inv, Sides
    <2> QED  BY <2>4, <2>7, Zenon DEF Fido2Inv
  <1> QED  BY <1>1, <1>2, Zenon

\* The slots of a relying party, in the order of the table.
LEMMA Matches ==
  ASSUME NEW S \in SUBSET InUse(ctx)
  PROVE  InOrder(S) \in Seq(Slots) /\ Range(InOrder(S)) = S
  <1>1. S \in SUBSET Slots  BY Zenon DEF InUse
  <1>2. InOrder(S) \in Seq(S) /\ Range(InOrder(S)) = S  BY <1>1, InOrderIs, Zenon
  <1> QED  BY <1>1, <1>2

LEMMA GetAssertionAnyInv ==
  ASSUME Fido2Inv, NEW rp \in Rps, GetAssertionAny(rp)
  PROVE  Fido2Inv'
  <1> DEFINE S == {s \in InUse(ctx) : ctx.credentials[s].rp = rp /\ ctx.credentials[s].protect < 3}
  <1>1. InOrder(S) \in Seq(Slots) /\ Range(InOrder(S)) = S  BY Matches, Zenon
  <1>2. /\ AssertFirst(rp, InOrder(S)) /\ up
        /\ UNCHANGED <<env, up, early, enum, bio, keys, starts, issued, accepted, wrong>>
    BY Zenon DEF GetAssertionAny
  <1>3. \A s \in Range(InOrder(S)) : s \in InUse(ctx) /\ ctx.credentials[s].rp = rp  BY <1>1, Zenon
  <1> QED  BY <1>1, <1>2, <1>3, AssertFirstInv, Zenon

LEMMA GetAssertionOfInv ==
  ASSUME Fido2Inv, NEW rp \in Rps, NEW allow, GetAssertionOf(rp, allow)
  PROVE  Fido2Inv'
  <1> DEFINE listed == {i \in DOMAIN allow : Unwraps(allow[i], rp)}
             S(i) == {s \in InUse(ctx) : ctx.credentials[s].id = allow[i] /\ ctx.credentials[s].rp = rp}
             m == IF Len(allow) = 1 THEN InOrder(S(1)) ELSE InOrder(S(1)) \o InOrder(S(2))
  <1>1. up /\ UNCHANGED <<env, up, early, enum, bio, keys, starts, issued, accepted, wrong>>
    BY Zenon DEF GetAssertionOf
  <1> USE <1>1
  <1>2. IF listed # {} THEN SignGlobal /\ SaveAnyway(ctx') /\ assertion' = NoAssertion
        ELSE AssertFirst(rp, m)
    BY Zenon DEF GetAssertionOf
  <1>3. CASE SignGlobal /\ SaveAnyway(ctx') /\ assertion' = NoAssertion
    <2>1. Edits /\ KeepsRps  BY <1>3, SignGlobalEdits, Zenon DEF Fido2Inv
    <2>2. Core'  BY <2>1, EditsCore, Zenon DEF Fido2Inv
    <2>3. Sides'  BY <1>3, <2>1, DropsAssertions, KeepsEnum, Zenon DEF Fido2Inv, Sides
    <2> QED  BY <2>2, <2>3, Zenon DEF Fido2Inv
  <1>4. CASE AssertFirst(rp, m)
    <2> DEFINE a == InOrder(S(1))
               b == InOrder(S(2))
    <2>1. a \in Seq(Slots) /\ b \in Seq(Slots)  BY Matches, Zenon
    <2>2. /\ \A s \in Range(a) : s \in InUse(ctx) /\ ctx.credentials[s].rp = rp
          /\ \A s \in Range(b) : s \in InUse(ctx) /\ ctx.credentials[s].rp = rp
      BY Matches
    <2> HIDE DEF a, b, S
    <2>3. a \o b \in Seq(Slots) /\ Range(a \o b) \subseteq Range(a) \cup Range(b)
      <3>1. /\ a \o b \in Seq(Slots) /\ Len(a) \in Nat /\ Len(b) \in Nat
            /\ DOMAIN (a \o b) = 1..(Len(a) + Len(b)) /\ DOMAIN a = 1..Len(a) /\ DOMAIN b = 1..Len(b)
            /\ \A i \in 1..(Len(a) + Len(b)) :
                  (a \o b)[i] = IF i <= Len(a) THEN a[i] ELSE b[i - Len(a)]
        BY <2>1
      <3>2. \A i \in 1..(Len(a) + Len(b)) :
               IF i <= Len(a) THEN i \in DOMAIN a ELSE i - Len(a) \in DOMAIN b
        BY <3>1
      <3> QED  BY <3>1, <3>2, Zenon DEF Range
    <2>4. m \in Seq(Slots) /\ \A s \in Range(m) : s \in InUse(ctx) /\ ctx.credentials[s].rp = rp
      BY <2>1, <2>2, <2>3, Zenon DEF a, b
    <2> HIDE DEF m
    <2> QED  BY <1>4, <2>4, AssertFirstInv, Zenon
  <1> QED  BY <1>2, <1>3, <1>4, Zenon

LEMMA GetNextAssertionInv ==
  ASSUME Fido2Inv, GetNextAssertion
  PROVE  Fido2Inv'
  <1>1. /\ up /\ assertion.rest # <<>>
        /\ UNCHANGED <<env, up, early, enum, bio, keys, starts, issued, accepted, wrong>>
    BY Zenon DEF GetNextAssertion
  <1> USE <1>1
  <1>2. CASE NextAssertion
    <2> DEFINE q == assertion.rest
    <2>1. /\ SignOwn(Head(q)) /\ SaveAnyway(ctx')
          /\ assertion' = [assertion EXCEPT !.rest = Tail(q)]
      BY <1>2, Zenon DEF NextAssertion
    <2>2. assertion \in [rp : Rps \cup {NoRp}, rest : Seq(Slots)] /\ q \in Seq(Slots)
      BY Zenon DEF Fido2Inv, Sides
    <2>3. \A s \in Range(q) : s \in InUse(ctx) /\ ctx.credentials[s].rp = assertion.rp
      BY Zenon DEF Fido2Inv, Sides, NextIsOfSameRp
    <2>4. Head(q) \in Range(q) /\ Tail(q) \in Seq(Slots) /\ Range(Tail(q)) \subseteq Range(q)
      BY <2>2, TailIs, Zenon
    <2> USE <2>4
    <2>5. Edits /\ KeepsRps  BY <2>1, <2>3, SignOwnEdits, Zenon DEF Fido2Inv
    <2> USE <2>5
    <2>6. Core'  BY EditsCore, Zenon DEF Fido2Inv
    <2>7. /\ assertion' \in [rp : Rps \cup {NoRp}, rest : Seq(Slots)]
          /\ assertion'.rp = assertion.rp /\ assertion'.rest = Tail(q)
      BY <2>1, <2>2, Zenon
    <2>8. NextIsOfSameRp'  BY <2>3, <2>7, Zenon DEF NextIsOfSameRp, KeepsRps
    <2>9. Sides'  BY <2>7, <2>8, KeepsEnum, Zenon DEF Fido2Inv, Sides
    <2> QED  BY <2>6, <2>9, Zenon DEF Fido2Inv
  <1>3. CASE assertion' = NoAssertion /\ UNCHANGED <<ctx, file, shown>>
    <2>1. Core'  BY <1>3, CoreSame, Zenon DEF Fido2Inv, Core, CoreTypes, histories
    <2>2. Sides'  BY <1>3, DropsAssertions, KeepsEnum, SamePlaces, Zenon DEF Fido2Inv, Sides
    <2> QED  BY <2>1, <2>2, Zenon DEF Fido2Inv
  <1> QED  BY <1>2, <1>3, Zenon DEF GetNextAssertion

\* A management command that reads: what it leaves to enumerate is live.
LEMMA ReadsInv ==
  ASSUME Fido2Inv, Manage, UNCHANGED <<ctx, file>>,
         enum' \in [rps : Seq(Rps), rp : Rps \cup {NoRp}, slots : Seq(Slots)],
         EnumerationIsLive'
  PROVE  Fido2Inv'
  <1>1. /\ up /\ assertion' = NoAssertion
        /\ UNCHANGED <<env, up, early, bio, keys, starts, issued, accepted, wrong, shown>>
    BY Zenon DEF Manage, Command, histories
  <1>2. Core'  BY <1>1, CoreSame, Zenon DEF Fido2Inv, Core, CoreTypes, histories
  <1>3. Sides'  BY <1>1, DropsAssertions, Zenon DEF Fido2Inv, Sides
  <1> QED  BY <1>2, <1>3, Zenon DEF Fido2Inv

LEMMA EnumerateRpsBeginInv ==
  ASSUME Fido2Inv, EnumerateRpsBegin
  PROVE  Fido2Inv'
  <1> DEFINE S == {s \in InUse(ctx) :
                     ~\E t \in InUse(ctx) : t < s /\ ctx.credentials[t].rp = ctx.credentials[s].rp}
             q == InOrder(S)
             rps == [i \in DOMAIN q |-> ctx.credentials[q[i]].rp]
             rest == IF rps = <<>> THEN rps ELSE Tail(rps)
  <1>1. Manage /\ UNCHANGED <<ctx, file>> /\ enum' = [NoEnum EXCEPT !.rps = rest]
    BY Zenon DEF EnumerateRpsBegin
  <1> USE <1>1
  <1>2. q \in Seq(Slots) /\ Range(q) = S  BY Matches, ZenonT(30)
  <1>3. ctx \in Ctx  BY Zenon DEF Fido2Inv, Core, CoreTypes
  <1>4. \A i \in DOMAIN q : q[i] \in InUse(ctx) /\ ctx.credentials[q[i]].rp \in Rps
    <2>1. \A i \in DOMAIN q : q[i] \in S  BY <1>2, Zenon DEF Range
    <2> QED  BY <1>3, <2>1, InUseIs, Zenon
  <1> HIDE DEF q, S
  <1>5. rps \in Seq(Rps) /\ DOMAIN rps = DOMAIN q
    <2>1. DOMAIN q = 1..Len(q) /\ Len(q) \in Nat  BY <1>2
    <2> QED  BY <1>4, <2>1
  <1>6. \A rp \in Range(rps) : \E s \in InUse(ctx) : ctx.credentials[s].rp = rp
    BY <1>4, <1>5, Zenon DEF Range
  <1> HIDE DEF rps
  <1>7. rest \in Seq(Rps) /\ Range(rest) \subseteq Range(rps)  BY <1>5, TailIs, Zenon
  <1> HIDE DEF rest
  <1>8. /\ enum' \in [rps : Seq(Rps), rp : Rps \cup {NoRp}, slots : Seq(Slots)]
        /\ enum'.rps = rest /\ enum'.slots = <<>>
    BY <1>7, NothingPending, Zenon
  <1>9. EnumerationIsLive'
    BY <1>6, <1>7, <1>8, NothingPending, Zenon DEF EnumerationIsLive
  <1> QED  BY <1>8, <1>9, ReadsInv, Zenon

LEMMA EnumerateCredsBeginInv ==
  ASSUME Fido2Inv, NEW rp \in Rps, EnumerateCredsBegin(rp)
  PROVE  Fido2Inv'
  <1> DEFINE S == {s \in InUse(ctx) : ctx.credentials[s].rp = rp}
             q == InOrder(S)
             rest == IF q = <<>> THEN q ELSE Tail(q)
  <1>1. Manage /\ UNCHANGED <<ctx, file>> /\ enum' = [NoEnum EXCEPT !.rp = rp, !.slots = rest]
    BY Zenon DEF EnumerateCredsBegin
  <1> USE <1>1
  <1>2. q \in Seq(Slots) /\ Range(q) = S  BY Matches, Zenon
  <1>3. \A s \in Range(q) : s \in InUse(ctx) /\ ctx.credentials[s].rp = rp  BY <1>2, Zenon
  <1> HIDE DEF q, S
  <1>4. rest \in Seq(Slots) /\ Range(rest) \subseteq Range(q)  BY <1>2, TailIs, Zenon
  <1> HIDE DEF rest
  <1>5. /\ enum' \in [rps : Seq(Rps), rp : Rps \cup {NoRp}, slots : Seq(Slots)]
        /\ enum'.rps = <<>> /\ enum'.rp = rp /\ enum'.slots = rest
    BY <1>4, NothingPending, Zenon
  <1>6. EnumerationIsLive'
    BY <1>3, <1>4, <1>5, NothingPending, Zenon DEF EnumerationIsLive
  <1> QED  BY <1>5, <1>6, ReadsInv, Zenon

LEMMA EnumerateNextInv ==
  ASSUME Fido2Inv, EnumerateRpsNext \/ EnumerateCredsNext
  PROVE  Fido2Inv'
  <1>1. Manage /\ UNCHANGED <<ctx, file>> /\ env' = env
    BY Zenon DEF EnumerateRpsNext, EnumerateCredsNext, Manage, Command
  <1> USE <1>1
  <1>2. /\ enum \in [rps : Seq(Rps), rp : Rps \cup {NoRp}, slots : Seq(Slots)]
        /\ enum.rps \in Seq(Rps) /\ enum.slots \in Seq(Slots) /\ EnumerationIsLive
    BY Zenon DEF Fido2Inv, Sides
  <1> USE <1>2
  <1>3. CASE EnumerateRpsNext
    <2>1. enum.rps # <<>> /\ enum' = [enum EXCEPT !.rps = Tail(enum.rps)]
      BY <1>3, Zenon DEF EnumerateRpsNext
    <2>2. Tail(enum.rps) \in Seq(Rps) /\ Range(Tail(enum.rps)) \subseteq Range(enum.rps)
      BY <2>1, TailIs, Zenon
    <2>3. /\ enum' \in [rps : Seq(Rps), rp : Rps \cup {NoRp}, slots : Seq(Slots)]
          /\ enum'.rps = Tail(enum.rps) /\ enum'.rp = enum.rp /\ enum'.slots = enum.slots
      BY <2>1, <2>2, Zenon
    <2>4. EnumerationIsLive'  BY <2>2, <2>3, Zenon DEF EnumerationIsLive
    <2> QED  BY <2>3, <2>4, ReadsInv, Zenon
  <1>4. CASE EnumerateCredsNext
    <2>1. enum.slots # <<>> /\ enum' = [enum EXCEPT !.slots = Tail(enum.slots)]
      BY <1>4, Zenon DEF EnumerateCredsNext
    <2>2. Tail(enum.slots) \in Seq(Slots) /\ Range(Tail(enum.slots)) \subseteq Range(enum.slots)
      BY <2>1, TailIs, Zenon
    <2>3. /\ enum' \in [rps : Seq(Rps), rp : Rps \cup {NoRp}, slots : Seq(Slots)]
          /\ enum'.rps = enum.rps /\ enum'.rp = enum.rp /\ enum'.slots = Tail(enum.slots)
      BY <2>1, <2>2, Zenon
    <2>4. EnumerationIsLive'  BY <2>2, <2>3, Zenon DEF EnumerationIsLive
    <2> QED  BY <2>3, <2>4, ReadsInv, Zenon
  <1> QED  BY <1>3, <1>4, Zenon

-----------------------------------------------------------------------------
(* The invariant.                                                           *)

\* A command that edits the saved state and drops the pending assertions.
LEMMA EditsInv ==
  ASSUME Fido2Inv, Edits, assertion' = NoAssertion,
         \/ enum' = NoEnum
         \/ enum' = enum /\ ("save" \notin env.faults => KeepsRps),
         BioGood(bio')
  PROVE  Fido2Inv'
  <1>1. Core'  BY EditsCore, Zenon DEF Fido2Inv
  <1>2. up' /\ env' = env  BY Zenon DEF Edits
  <1>3. /\ enum' \in [rps : Seq(Rps), rp : Rps \cup {NoRp}, slots : Seq(Slots)]
        /\ EnumerationIsLive'
    <2>1. CASE enum' = NoEnum  BY <2>1, DropsEnum, Zenon
    <2>2. CASE enum' = enum /\ ("save" \notin env.faults => KeepsRps)
      BY <1>2, <2>2, KeepsEnum, Zenon DEF Fido2Inv
    <2> QED  BY <2>1, <2>2, Zenon
  <1>4. Sides'  BY <1>2, <1>3, DropsAssertions, Zenon DEF Sides
  <1> QED  BY <1>1, <1>4, Zenon DEF Fido2Inv

LEMMA PinsInv ==
  ASSUME Fido2Inv, \/ \E p \in Pins : SetPin(p) \/ GetPinToken(p)
                   \/ \E p, q \in Pins : ChangePin(p, q)
  PROVE  Fido2Inv'
  <1>1. Edits
    <2>1. ASSUME NEW p \in Pins, SetPin(p)  PROVE Edits  BY <2>1, SetPinEdits, Zenon DEF Fido2Inv
    <2>2. ASSUME NEW p \in Pins, GetPinToken(p)  PROVE Edits  BY <2>2, GetPinTokenEdits, Zenon DEF Fido2Inv
    <2>3. ASSUME NEW p \in Pins, NEW q \in Pins, ChangePin(p, q)  PROVE Edits
      BY <2>3, ChangePinEdits, Zenon DEF Fido2Inv
    <2> QED  BY <2>1, <2>2, <2>3, Zenon
  <1>2. KeepsRps  BY PinsKeepRps, Zenon DEF Fido2Inv
  <1>3. assertion' = NoAssertion /\ enum' = enum /\ bio' = bio
    BY Zenon DEF SetPin, GetPinToken, ChangePin, Command
  <1>4. BioGood(bio')  BY <1>3, Zenon DEF Fido2Inv, Sides
  <1> QED  BY <1>1, <1>2, <1>3, <1>4, EditsInv, Zenon

LEMMA EnrollInv ==
  ASSUME Fido2Inv, Enroll, BioGood(bio')
  PROVE  Fido2Inv'
  <1>1. /\ assertion' = NoAssertion /\ UNCHANGED <<env, up, early, ctx, enum, file, keys, starts, histories>>
        /\ up
    BY Zenon DEF Enroll, Command
  <1>2. Core'  BY <1>1, CoreSame, Zenon DEF Fido2Inv, Core, CoreTypes
  <1>3. Sides'  BY <1>1, DropsAssertions, KeepsEnum, SamePlaces, Zenon DEF Fido2Inv, Sides
  <1> QED  BY <1>2, <1>3, Zenon DEF Fido2Inv

LEMMA EndedInv ==
  ASSUME Fido2Inv, Crash \/ Cleanup
  PROVE  Fido2Inv'
  <1>1. up /\ Ended  BY Zenon DEF Crash, Cleanup
  <1>2. file' = file \/ file' = Image(ctx)  BY Zenon DEF Crash, Cleanup, SaveAnyway, Saved
  <1>3. Core'  BY <1>1, <1>2, EndedCore, Zenon DEF Fido2Inv
  <1>4. assertion' = NoAssertion /\ enum' = NoEnum /\ bio' = NoBio  BY <1>1, Zenon DEF Ended
  <1>5. Sides'  BY <1>4, DropsAssertions, DropsEnum, NoBioGood, Zenon DEF Sides
  <1> QED  BY <1>3, <1>5, Zenon DEF Fido2Inv

LEMMA StartInv ==
  ASSUME Fido2Inv, Start
  PROVE  Fido2Inv'
  <1>1. Core'  BY StartCore, Zenon DEF Fido2Inv
  <1>2. assertion' = NoAssertion /\ enum' = NoEnum /\ bio' = bio
    BY Zenon DEF Start, Fido2Inv, Sides
  <1>3. Sides'  BY <1>2, DropsAssertions, DropsEnum, Zenon DEF Fido2Inv, Sides
  <1> QED  BY <1>1, <1>3, Zenon DEF Fido2Inv

\* A step that changes nothing but the clock.
LEMMA SameInv ==
  ASSUME Fido2Inv, early' \in BOOLEAN,
         UNCHANGED <<env, up, ctx, assertion, enum, bio, file, keys, starts, histories>>
  PROVE  Fido2Inv'
  <1>1. Core'  BY CoreSame, Zenon DEF Fido2Inv
  <1>2. Sides'  BY Zenon DEF Fido2Inv, Sides, NextIsOfSameRp, EnumerationIsLive
  <1> QED  BY <1>1, <1>2, Zenon DEF Fido2Inv

LEMMA NextInv ==
  ASSUME Fido2Inv, Next
  PROVE  Fido2Inv'
  <1>1. CASE Start  BY <1>1, StartInv, Zenon
  <1>2. CASE Crash \/ Cleanup  BY <1>2, EndedInv, Zenon
  <1>3. CASE TenSeconds  BY <1>3, SameInv, Zenon DEF TenSeconds
  <1>4. CASE Refused
    <2>1. /\ up /\ assertion' = NoAssertion
          /\ UNCHANGED <<env, up, early, ctx, enum, bio, file, keys, starts, histories>>
      BY <1>4, Zenon DEF Refused, Command
    <2>2. Core'  BY <2>1, CoreSame, Zenon DEF Fido2Inv, Core, CoreTypes
    <2>3. Sides'  BY <2>1, DropsAssertions, KeepsEnum, SamePlaces, Zenon DEF Fido2Inv, Sides
    <2> QED  BY <2>2, <2>3, Zenon DEF Fido2Inv
  <1>5. CASE Reset
    <2>1. assertion' = NoAssertion /\ enum' = NoEnum /\ bio' = NoBio  BY <1>5, Zenon DEF Reset, Command
    <2> QED  BY <1>5, <2>1, ResetEdits, NoBioGood, EditsInv, Zenon DEF Fido2Inv
  <1>6. CASE \/ \E p \in Pins : SetPin(p) \/ GetPinToken(p)
             \/ \E p, q \in Pins : ChangePin(p, q)
    BY <1>6, PinsInv, Zenon
  <1>7. ASSUME NEW rp \in Rps, MakeNonResident(rp)  PROVE Fido2Inv'
    <2>1. Edits  BY <1>7, MakeNonResidentEdits, Zenon DEF Fido2Inv
    <2>2. assertion' = NoAssertion /\ enum' = enum /\ bio' = bio /\ ctx' = Counted
          /\ ctx \in Ctx /\ ctx.global < MaxCount
      BY <1>7, Zenon DEF MakeNonResident, Command, Fido2Inv, Core, CoreTypes
    <2> USE <2>2
    <2>3. KeepsRps  BY CountedIs, Zenon DEF KeepsRps
    <2>4. BioGood(bio')  BY Zenon DEF Fido2Inv, Sides
    <2> QED  BY <2>1, <2>3, <2>4, EditsInv, Zenon
  <1>8. ASSUME NEW rp \in Rps, NEW u \in Users, NEW protect \in Protections, MakeResident(rp, u, protect)
        PROVE  Fido2Inv'
    <2>1. Edits /\ ("save" \notin env.faults => KeepsRps)
      BY <1>8, MakeResidentEdits, Zenon DEF Fido2Inv
    <2>2. assertion' = NoAssertion /\ enum' = enum /\ bio' = bio
      BY <1>8, Zenon DEF MakeResident, Command
    <2>3. BioGood(bio')  BY <2>2, Zenon DEF Fido2Inv, Sides
    <2> QED  BY <2>1, <2>2, <2>3, EditsInv, Zenon
  <1>9. CASE \E rp \in Rps : GetAssertionAny(rp)  BY <1>9, GetAssertionAnyInv, Zenon
  <1>10. ASSUME NEW rp \in Rps, NEW allow \in AllowLists, GetAssertionOf(rp, allow)  PROVE Fido2Inv'
    BY <1>10, GetAssertionOfInv, Zenon
  <1>11. CASE GetNextAssertion  BY <1>11, GetNextAssertionInv, Zenon
  <1>12. CASE EnumerateRpsBegin  BY <1>12, EnumerateRpsBeginInv, Zenon
  <1>13. CASE EnumerateRpsNext \/ EnumerateCredsNext  BY <1>13, EnumerateNextInv, Zenon
  <1>14. CASE \E rp \in Rps : EnumerateCredsBegin(rp)  BY <1>14, EnumerateCredsBeginInv, Zenon
  <1>15. ASSUME NEW s \in InUse(ctx), DeleteCredential(s)  PROVE Fido2Inv'
    <2>1. Edits  BY <1>15, DeleteCredentialEdits, Zenon DEF Fido2Inv
    <2>2. assertion' = NoAssertion /\ enum' = NoEnum /\ bio' = bio
      BY <1>15, Zenon DEF DeleteCredential, Manage, Command
    <2>3. BioGood(bio')  BY <2>2, Zenon DEF Fido2Inv, Sides
    <2> QED  BY <2>1, <2>2, <2>3, EditsInv, Zenon
  <1>16. CASE UpdateUserInformation
    <2>1. /\ up /\ UNCHANGED <<env, up, early, ctx, bio, keys, starts, histories>> /\ SaveAnyway(ctx')
          /\ assertion' = NoAssertion /\ enum' = NoEnum
      BY <1>16, Zenon DEF UpdateUserInformation, Manage, Command, SaveAnyway
    <2> USE <2>1
    <2>2. Edits  BY SavedAgain, Zenon DEF Fido2Inv
    <2>3. BioGood(bio')  BY Zenon DEF Fido2Inv, Sides
    <2> QED  BY <2>2, <2>3, EditsInv, Zenon
  <1>17. CASE ManageOther  BY <1>17, ReadsInv, DropsEnum, Zenon DEF ManageOther
  <1>18. CASE EnrollBegin
    <2>1. Enroll /\ BioGood(bio')  BY <1>18, EnrollBeginBio, Zenon DEF EnrollBegin, Fido2Inv, Sides
    <2> QED  BY <2>1, EnrollInv, Zenon
  <1>19. CASE EnrollCaptureNext
    <2>1. Enroll /\ BioGood(bio')  BY <1>19, EnrollCaptureBio, Zenon DEF EnrollCaptureNext, Fido2Inv, Sides
    <2> QED  BY <2>1, EnrollInv, Zenon
  <1>20. CASE CancelEnrollment
    <2>1. Enroll /\ BioGood(bio')  BY <1>20, AbandonedIs, Zenon DEF CancelEnrollment, Fido2Inv, Sides
    <2> QED  BY <2>1, EnrollInv, Zenon
  <1>21. ASSUME NEW t \in Templates, RemoveEnrollment(t)  PROVE Fido2Inv'
    <2>1. Enroll /\ BioGood(bio')  BY <1>21, RemoveEnrollmentBio, Zenon DEF RemoveEnrollment, Fido2Inv, Sides
    <2> QED  BY <2>1, EnrollInv, Zenon
  <1> QED  BY Zenon, <1>1, <1>2, <1>3, <1>4, <1>5, <1>6, <1>7, <1>8, <1>9, <1>10, <1>11, <1>12, <1>13,
              <1>14, <1>15, <1>16, <1>17, <1>18, <1>19, <1>20, <1>21 DEF Next

LEMMA InitInv ==
  ASSUME Init
  PROVE  Fido2Inv
  <1>1. Core  BY InitCore, Zenon
  <1>2. assertion = NoAssertion /\ enum = NoEnum /\ bio = NoBio  BY Zenon DEF Init
  <1>3. Sides
    BY <1>2, NothingPending, NoBioGood, Zenon DEF Sides, NextIsOfSameRp, EnumerationIsLive
  <1> QED  BY <1>1, <1>3, Zenon DEF Fido2Inv

\* Every behaviour of the authenticator keeps the invariant.
THEOREM InvariantHolds == Spec => []Fido2Inv
  <1>1. Init => Fido2Inv  BY InitInv, Zenon
  <1>2. Fido2Inv /\ [Next]_vars => Fido2Inv'
    <2>1. ASSUME Fido2Inv, Next  PROVE Fido2Inv'  BY <2>1, NextInv, Zenon
    <2>2. ASSUME Fido2Inv, UNCHANGED vars  PROVE Fido2Inv'
      <3> USE <2>2
      <3>1. early' \in BOOLEAN  BY Zenon DEF Fido2Inv, Core, CoreTypes, vars
      <3>2. UNCHANGED <<env, up, ctx, assertion, enum, bio, file, keys, starts, histories>>
        BY Zenon DEF vars, histories
      <3> QED  BY <3>1, <3>2, SameInv, Zenon
    <2> QED  BY <2>1, <2>2, Zenon
  <1> QED  BY <1>1, <1>2, PTL DEF Spec

-----------------------------------------------------------------------------
(* What the invariant gives.                                                *)

\* However often hiya-fido2d is restarted or crashes, at most MaxRetries wrong
\* PINs in a row are taken, if saves and the wrap key do not fail: the retries
\* on disk and the wrong PINs since then add up to no more.
THEOREM WrongPinsAreBounded == Spec => []TriesBounded
  <1>1. Fido2Inv => TriesBounded
    <2> SUFFICES ASSUME Core, Safe  PROVE wrong <= MaxRetries
      BY Zenon DEF Fido2Inv, TriesBounded, Safe
    <2>1. wrong \in Nat /\ Content(file) \in Ctx /\ MaxRetries \in Nat
      BY ContentIs, Fido2Assumption, Zenon DEF Core, HistoryTypes
    <2>2. Content(file).pin.retries \in Nat  BY <2>1 DEF Ctx, Pin
    <2> QED  BY <2>1, <2>2, FileBook DEF TriesGood
  <1> QED  BY <1>1, InvariantHolds, PTL

\* The PIN in force is one a client was told of, whatever saves failed and
\* wherever the daemon crashed, as long as the wrap key is not lost.
THEOREM PinStaysInForce == Spec => []PinInForce
  <1>1. Fido2Inv => PinInForce  BY Zenon DEF Fido2Inv, Core, Book, PinInForce
  <1> QED  BY <1>1, InvariantHolds, PTL

\* The table, its count and credentials.bin agree, and a crash loses no
\* credential and no PIN that was reported saved.
THEOREM StoreStaysConsistent == Spec => []StoreConsistent
  <1>1. Fido2Inv => StoreConsistent
    <2> SUFFICES ASSUME Core, Sides  PROVE StoreConsistent
      BY Zenon DEF Fido2Inv
    <2>1. bio \in [left : [Templates -> 0..Unused], count : Nat, active : 0..MaxTemplates]
      BY Zenon DEF Sides, BioGood, Bio
    <2>2. TypeOK  BY <2>1, Zenon DEF Core, CoreTypes, HistoryTypes, Sides, TypeOK
    <2> QED  BY <2>2, Zenon DEF Core, StoreConsistent
  <1> QED  BY <1>1, InvariantHolds, PTL

\* GetNextAssertion never returns a credential of another relying party or a
\* freed slot: its pointers into the table do not outlive the next command.
THEOREM AssertionsStayWithRp == Spec => []NextIsOfSameRp
  <1>1. Fido2Inv => NextIsOfSameRp  BY Zenon DEF Fido2Inv, Sides
  <1> QED  BY <1>1, InvariantHolds, PTL

\* An enumeration that goes on across registrations returns live credentials.
THEOREM EnumerationStaysLive == Spec => []EnumerationIsLive
  <1>1. Fido2Inv => EnumerationIsLive  BY Zenon DEF Fido2Inv, Sides
  <1> QED  BY <1>1, InvariantHolds, PTL

\* Signature counters never repeat, across crashes and restarts.
THEOREM CountersGrow == Spec => []CountersNeverRepeat
  <1>1. Fido2Inv => CountersNeverRepeat
    BY Zenon DEF Fido2Inv, Core, Book, CountersGood, CountersNeverRepeat, Safe
  <1> QED  BY <1>1, InvariantHolds, PTL

\* Only the enrollment under way has an incomplete template, and the count of
\* templates is exact.
THEOREM TemplatesAgree == Spec => []OneIncompleteTemplate
  <1>1. Fido2Inv => OneIncompleteTemplate
    BY Zenon DEF Fido2Inv, Sides, BioGood, Incomplete, Taken, OneIncompleteTemplate
  <1> QED  BY <1>1, InvariantHolds, PTL
=============================================================================
