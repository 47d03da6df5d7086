---------------------------- MODULE DaemonProofs ----------------------------
(***************************************************************************)
(* Proofs about the two tables of hiya-authd: the enrollments, for any      *)
(* users, fingers, threads, limits and faults, and the sessions, for any    *)
(* array size, users, connections, ages and extensions.                     *)
(***************************************************************************)
EXTENDS SessionTable, EnrollmentStore, FiniteSetTheorems, TLAPS

USE SMTT(30), ZenonT(30)

-----------------------------------------------------------------------------
(* The enrollments: what the operations make of one user's entries.         *)

\* A nonempty set of numbers has a least element.
LEMMA LeastIs ==
  ASSUME NEW S \in SUBSET Nat, S # {}
  PROVE  \E x \in S : \A y \in S : x <= y
  <1>1. PICK x \in S : \A y \in S : ~(<<y, x>> \in OpToRel(<, Nat))
    BY NatLessThanWellFounded, WFMin, Zenon
  <1>2. \A y \in S : ~(y < x)  BY <1>1, Zenon DEF OpToRel
  <1> QED  BY <1>2

\* add_enrollment and the append of enroll_user: one entry more at most, and no
\* print but the new one.
LEMMA AddedIs ==
  ASSUME NEW path, NEW s \in Seq(Entry), NEW e \in Entry
  PROVE  /\ Added(path, s, e) \in Seq(Entry)
         /\ Len(Added(path, s, e)) <= Len(s) + 1
         /\ PrintsOf(Added(path, s, e)) \subseteq PrintsOf(s) \cup {e.print}
  <1> DEFINE there == path = "Enroll" /\ \E i \in DOMAIN s : s[i].finger = e.finger
             r == [i \in DOMAIN s |->
                     IF /\ s[i].finger = e.finger
                        /\ \A j \in 1..(i - 1) : s[j].finger # e.finger
                       THEN e ELSE s[i]]
  <1>1. CASE there
    <2>1. Added(path, s, e) = r  BY <1>1, Zenon DEF Added
    <2>2. r \in [1..Len(s) -> Entry] /\ DOMAIN r = 1..Len(s)  OBVIOUS
    <2>3. r \in Seq(Entry) /\ Len(r) = Len(s)  BY <2>2
    <2>4. \A i \in DOMAIN r : r[i] = e \/ (i \in DOMAIN s /\ r[i] = s[i])  BY Zenon
    <2> HIDE DEF r
    <2>5. PrintsOf(r) \subseteq PrintsOf(s) \cup {e.print}  BY <2>4, Zenon DEF PrintsOf
    <2> QED  BY <2>1, <2>3, <2>5
  <1>2. CASE ~there
    <2>1. Added(path, s, e) = Append(s, e)  BY <1>2, Zenon DEF Added
    <2>2. Append(s, e) \in Seq(Entry) /\ Len(Append(s, e)) = Len(s) + 1  OBVIOUS
    <2>3. \A i \in DOMAIN Append(s, e) : Append(s, e)[i] = e \/ (i \in DOMAIN s /\ Append(s, e)[i] = s[i])
      BY <2>2
    <2>4. PrintsOf(Append(s, e)) \subseteq PrintsOf(s) \cup {e.print}  BY <2>3, Zenon DEF PrintsOf
    <2> QED  BY <2>1, <2>2, <2>4
  <1> QED  BY <1>1, <1>2, Zenon

\* DeleteEnrollment and RemoveFinger: one entry less, and no new print.
LEMMA RemovedIs ==
  ASSUME NEW s \in Seq(Entry), NEW f, \E i \in DOMAIN s : s[i].finger = f
  PROVE  /\ Removed(s, f) \in Seq(Entry)
         /\ Len(Removed(s, f)) <= Len(s)
         /\ PrintsOf(Removed(s, f)) \subseteq PrintsOf(s)
  <1> DEFINE Is(i) == s[i].finger = f /\ \A j \in 1..(i - 1) : s[j].finger # f
             i == CHOOSE i \in DOMAIN s : Is(i)
             a == SubSeq(s, 1, i - 1)
             b == SubSeq(s, i + 1, Len(s))
  <1>1. \E k \in DOMAIN s : Is(k)
    <2> DEFINE S == {k \in DOMAIN s : s[k].finger = f}
    <2>1. S \in SUBSET Nat /\ S # {}  OBVIOUS
    <2>2. PICK k \in S : \A y \in S : k <= y  BY <2>1, LeastIs, Zenon
    <2>3. \A j \in 1..(k - 1) : s[j].finger # f  BY <2>2
    <2> QED  BY <2>2, <2>3, Zenon
  <1>2. i \in DOMAIN s  BY <1>1, Zenon
  <1>3. Removed(s, f) = a \o b  BY Zenon DEF Removed
  <1> HIDE DEF i, Is
  <1>4. i \in 1..Len(s) /\ Len(s) \in Nat  BY <1>2
  <1>5. /\ a \in Seq(Entry) /\ Len(a) = i - 1
        /\ b \in Seq(Entry) /\ Len(b) = Len(s) - i
    BY <1>4
  <1>6. \A k \in 1..Len(a) : k \in DOMAIN s /\ a[k] = s[k]  BY <1>4, <1>5
  <1>7. \A k \in 1..Len(b) : k + i \in DOMAIN s /\ b[k] = s[k + i]  BY <1>4, <1>5
  <1> HIDE DEF a, b
  <1>8. a \o b \in Seq(Entry) /\ Len(a \o b) = Len(a) + Len(b)  BY <1>5
  <1>9. \A k \in DOMAIN (a \o b) : \E j \in DOMAIN s : (a \o b)[k] = s[j]
    <2> SUFFICES ASSUME NEW k \in DOMAIN (a \o b)
                 PROVE  \E j \in DOMAIN s : (a \o b)[k] = s[j]
      BY Zenon
    <2>1. k \in 1..(Len(a) + Len(b))  BY <1>8
    <2>2. CASE k <= Len(a)  BY <1>5, <1>6, <2>1, <2>2
    <2>3. CASE k > Len(a)
      <3>1. k - Len(a) \in 1..Len(b) /\ (a \o b)[k] = b[k - Len(a)]  BY <1>5, <2>1, <2>3
      <3> QED  BY <1>7, <3>1, Zenon
    <2> QED  BY <1>5, <2>1, <2>2, <2>3
  <1>10. PrintsOf(a \o b) \subseteq PrintsOf(s)  BY <1>9, Zenon DEF PrintsOf
  <1> QED  BY <1>3, <1>4, <1>5, <1>8, <1>10

-----------------------------------------------------------------------------
(* The enrollments: a save.                                                 *)

\* What a save has done: it wrote the files of W, those of old before the key k
\* was made and the others after.
SavedAs(mem, W, k, old) ==
  /\ W \in Written(mem) /\ k \in {key, key + 1} /\ old \in SUBSET W
  /\ KeyAfter(k) /\ (W # {} => k # 0) /\ (old # {} => key # 0)
  /\ files' = [u \in Users |->
       IF u \in W THEN [key |-> IF u \in old THEN key ELSE k, entries |-> mem[u]]
                  ELSE Left(mem, u)]
  /\ key' = k
  /\ durable' = (durable \ (Prints(memory) \ Prints(mem)))
                  \cup UNION {PrintsOf(mem[u]) : u \in W}

LEMMA SaveIs ==
  ASSUME NEW mem, Save(mem)
  PROVE  \E W, k, old : SavedAs(mem, W, k, old)
  BY Zenon DEF Save, SavedAs

\* A file that exists was written under a key.
FilesHaveKeys == \A u \in Users : files[u] # NoFile => files[u].key # 0

\* The key is made once, unless a short read replaces it.
LEMMA KeyIsMadeOnce ==
  ASSUME NEW k, KeyAfter(k), faults \subseteq {"save"}
  PROVE  k = key \/ key = 0
  BY Zenon DEF KeyAfter

LEMMA PrintsAreNumbers ==
  ASSUME NEW s \in Seq(Entry)
  PROVE  PrintsOf(s) \subseteq Nat
  <1>1. \A i \in DOMAIN s : s[i] \in Entry  OBVIOUS
  <1>2. \A i \in DOMAIN s : s[i].print \in Nat  BY <1>1, Zenon DEF Entry
  <1> QED  BY <1>2, Zenon DEF PrintsOf

\* A save that cannot fail, with no more users than it collects, writes all.
LEMMA AllAreWritten ==
  ASSUME Cardinality(Users) <= MaxSavedUids, "save" \notin faults, NEW mem,
         NEW W \in Written(mem)
  PROVE  W = Present(mem)
  <1>1. /\ W \subseteq Present(mem) /\ Present(mem) \subseteq Users
        /\ W = Present(mem) \/ Cardinality(W) = MaxSavedUids
    BY Zenon DEF Written, Present
  <1>2. IsFiniteSet(Users) /\ MaxSavedUids \in Nat  BY StoreAssumption, Zenon
  <1>3. /\ Cardinality(W) \in Nat /\ Cardinality(Users) \in Nat
        /\ Cardinality(W) <= Cardinality(Users)
        /\ Cardinality(W) = Cardinality(Users) => W = Users
    BY <1>1, <1>2, FS_Subset, FS_CardinalityType, Zenon
  <1>4. CASE Cardinality(W) = MaxSavedUids
    <2>1. W = Users  BY <1>2, <1>3, <1>4
    <2> QED  BY <1>1, <2>1, Zenon
  <1> QED  BY <1>1, <1>4, Zenon

\* bio_daemon_save_enrollments leaves whole files under a key, and all of them
\* in step with memory when nothing fails.
LEMMA SaveLeaves ==
  ASSUME StoreTypes, FilesHaveKeys, NEW mem \in [Users -> Seq(Entry)], Save(mem)
  PROVE  /\ files' \in [Users -> [key : Nat, entries : Seq(Entry)]]
         /\ key' \in Nat /\ durable' \subseteq Nat
         /\ FilesHaveKeys'
         /\ (Cardinality(Users) <= MaxSavedUids /\ faults = {}) =>
              \A u \in Present(mem) : files'[u] = [key |-> key', entries |-> mem[u]]
  <1>1. PICK W, k, old : SavedAs(mem, W, k, old)  BY SaveIs, Zenon
  <1>2. k \in Nat /\ key \in Nat /\ key' = k  BY <1>1 DEF SavedAs, StoreTypes
  <1>3. W \subseteq Users /\ old \subseteq W  BY <1>1, Zenon DEF SavedAs, Written, Present
  <1>4. /\ \A u \in W : files'[u] = [key |-> IF u \in old THEN key ELSE k, entries |-> mem[u]]
        /\ \A u \in Users \ W : files'[u] = files[u]
    BY <1>1, <1>3, Zenon DEF SavedAs, Left
  <1>0. files' = [u \in Users |-> files'[u]]  BY <1>1, Zenon DEF SavedAs
  <1>5. W # {} => k # 0  BY <1>1, Zenon DEF SavedAs
  <1>6. old # {} => key # 0  BY <1>1, Zenon DEF SavedAs
  <1>7. files' \in [Users -> [key : Nat, entries : Seq(Entry)]]
    <2>1. \A u \in Users : files'[u] \in [key : Nat, entries : Seq(Entry)]
      <3> SUFFICES ASSUME NEW u \in Users
                   PROVE  files'[u] \in [key : Nat, entries : Seq(Entry)]
        BY Zenon
      <3>1. CASE u \in W
        <4>1. mem[u] \in Seq(Entry)  BY Zenon
        <4>2. (IF u \in old THEN key ELSE k) \in Nat  BY <1>2, Zenon
        <4>3. files'[u] = [key |-> IF u \in old THEN key ELSE k, entries |-> mem[u]]
          BY <1>4, <3>1, Zenon
        <4> QED  BY <4>1, <4>2, <4>3
      <3>2. CASE u \notin W  BY <1>4, <3>2, Zenon DEF StoreTypes
      <3> QED  BY <3>1, <3>2, Zenon
    <2> QED  BY <1>0, <2>1, Zenon
  <1>8. durable' \subseteq Nat
    <2>1. durable' \subseteq durable \cup UNION {PrintsOf(mem[u]) : u \in W}
      BY <1>1, Zenon DEF SavedAs
    <2>2. \A u \in W : PrintsOf(mem[u]) \subseteq Nat  BY <1>3, PrintsAreNumbers, Zenon
    <2> QED  BY <2>1, <2>2, ZenonT(40) DEF StoreTypes
  <1>9. FilesHaveKeys'
    <2> SUFFICES ASSUME NEW u \in Users, files'[u] # NoFile
                 PROVE  files'[u].key # 0
      BY Zenon DEF FilesHaveKeys, NoFile
    <2>1. CASE u \in W
      <3>1. files'[u].key = IF u \in old THEN key ELSE k
        <4>1. files'[u] = [key |-> IF u \in old THEN key ELSE k, entries |-> mem[u]]
          BY <1>4, <2>1, Zenon
        <4> QED  BY <4>1
      <3>2. u \in old => key # 0  BY <1>6, Zenon
      <3>3. k # 0  BY <1>5, <2>1, Zenon
      <3> QED  BY <3>1, <3>2, <3>3, Zenon
    <2>2. CASE u \notin W  BY <1>4, <2>2, Zenon DEF FilesHaveKeys
    <2> QED  BY <2>1, <2>2, Zenon
  <1>10. ASSUME Cardinality(Users) <= MaxSavedUids, faults = {}, NEW u \in Present(mem)
         PROVE  files'[u] = [key |-> key', entries |-> mem[u]]
    <2>1. W \in Written(mem) /\ KeyAfter(k)  BY <1>1, Zenon DEF SavedAs
    <2>2. u \in W  BY <1>10, <2>1, AllAreWritten, Zenon
    <2>3. k = key \/ key = 0  BY <1>10, <2>1, KeyIsMadeOnce, Zenon
    <2> QED  BY <1>2, <1>4, <1>6, <2>2, <2>3, Zenon
  <1> QED  BY <1>2, <1>7, <1>8, <1>9, <1>10, Zenon

-----------------------------------------------------------------------------
(* The enrollments: every step keeps types, keys and the limit, and memory  *)
(* in step with the files.                                                  *)

Saved == StoreTypes /\ FilesHaveKeys /\ MemoryIsOnDisk

FewUsers == Cardinality(Users) <= MaxSavedUids

LEMMA PrintsOfAll ==
  ASSUME NEW mem \in [Users -> Seq(Entry)]
  PROVE  Prints(mem) \subseteq Nat
  <1>1. \A u \in Users : PrintsOf(mem[u]) \subseteq Nat  BY PrintsAreNumbers, Zenon
  <1> QED  BY <1>1, Zenon DEF Prints

\* A change of memory that ends in a save.
LEMMA EditKeeps ==
  ASSUME StoreTypes, FilesHaveKeys,
         NEW mem \in [Users -> Seq(Entry)], memory' = mem, Save(mem),
         UNCHANGED <<faults, up, limit, scans, starts, chip>>,
         job' \in [Threads -> Job], clearing' \in BOOLEAN, deleted' \subseteq Nat
  PROVE  StoreTypes' /\ FilesHaveKeys' /\ (FewUsers => MemoryIsOnDisk')
  <1>1. /\ files' \in [Users -> [key : Nat, entries : Seq(Entry)]]
        /\ key' \in Nat /\ durable' \subseteq Nat
        /\ FilesHaveKeys'
        /\ (FewUsers /\ faults = {}) =>
             \A u \in Present(mem) : files'[u] = [key |-> key', entries |-> mem[u]]
    BY SaveLeaves, Zenon DEF FewUsers
  <1>2. StoreTypes'  BY <1>1, Zenon DEF StoreTypes
  <1>3. FewUsers => MemoryIsOnDisk'  BY <1>1, Zenon DEF MemoryIsOnDisk
  <1> QED  BY <1>1, <1>2, <1>3, Zenon

\* Added and Removed, in the table of all users.
LEMMA StoreEdits ==
  ASSUME StoreTypes, FilesHaveKeys, NEW t \in Threads, Store(t)
  PROVE  /\ StoreTypes' /\ FilesHaveKeys' /\ (FewUsers => MemoryIsOnDisk')
         /\ \A u \in Users : Len(memory'[u]) > Len(memory[u]) => Len(memory'[u]) <= limit
  <1> DEFINE j == job[t]
             e == [finger |-> j.finger, print |-> j.print]
             s == Added(j.path, memory[j.uid], e)
             mem == [memory EXCEPT ![j.uid] = s]
  <1>1. /\ memory' = mem /\ Save(mem) /\ ~Full(j.uid) /\ j.phase = "store"
        /\ job' = [job EXCEPT ![t] = Idle]
        /\ UNCHANGED <<faults, up, limit, clearing, chip, scans, starts, deleted>>
    BY Zenon DEF Store
  <1>2. j.uid \in Users /\ e \in Entry
    <2>1. j \in Job /\ j # Idle  BY <1>1 DEF StoreTypes, Idle
    <2>2. j \in [phase : Phases, path : Paths, uid : Users, finger : Fingers, print : Nat]
      BY <2>1, Zenon DEF Job
    <2> QED  BY <2>2, Zenon DEF Entry
  <1> HIDE DEF e, j
  <1>3. memory \in [Users -> Seq(Entry)] /\ memory[j.uid] \in Seq(Entry)  BY <1>2, Zenon DEF StoreTypes
  <1>4. s \in Seq(Entry) /\ Len(s) <= Len(memory[j.uid]) + 1  BY <1>2, <1>3, AddedIs, Zenon
  <1> HIDE DEF s
  <1>5. mem \in [Users -> Seq(Entry)]  BY <1>2, <1>3, <1>4, Zenon
  <1>6. mem[j.uid] = s /\ \A u \in Users : u # j.uid => mem[u] = memory[u]  BY <1>2, <1>3, Zenon
  <1> HIDE DEF mem
  <1>7. job' \in [Threads -> Job] /\ clearing' \in BOOLEAN /\ deleted' \subseteq Nat
    BY <1>1, Zenon DEF StoreTypes, Job
  <1>8. StoreTypes' /\ FilesHaveKeys' /\ (FewUsers => MemoryIsOnDisk')
    BY <1>1, <1>5, <1>7, EditKeeps, Zenon
  <1>9. Len(s) <= limit
    <2>1. Len(memory[j.uid]) \in Nat /\ Len(s) \in Nat /\ limit \in Nat
      BY <1>3, <1>4, StoreAssumption DEF StoreTypes
    <2>2. ~(Len(memory[j.uid]) >= limit)  BY <1>1, Zenon DEF Full
    <2> QED  BY <1>4, <2>1, <2>2
  <1>10. ASSUME NEW u \in Users, Len(memory'[u]) > Len(memory[u])
         PROVE  Len(memory'[u]) <= limit
    <2>1. Len(memory[u]) \in Nat  BY <1>3
    <2>2. u = j.uid  BY <1>1, <1>6, <1>10, <2>1
    <2> QED  BY <1>1, <1>6, <1>9, <2>2, Zenon
  <1> QED  BY <1>8, <1>10, Zenon

LEMMA DeleteEdits ==
  ASSUME StoreTypes, FilesHaveKeys, NEW u \in Users, NEW f \in Fingers, DeleteEnrollment(u, f)
  PROVE  /\ StoreTypes' /\ FilesHaveKeys' /\ (FewUsers => MemoryIsOnDisk')
         /\ \A v \in Users : Len(memory'[v]) <= Len(memory[v])
  <1> DEFINE s == Removed(memory[u], f)
             mem == [memory EXCEPT ![u] = s]
  <1>1. /\ memory' = mem /\ Save(mem) /\ \E i \in DOMAIN memory[u] : memory[u][i].finger = f
        /\ deleted' = deleted \cup (Prints(memory) \ Prints(mem))
        /\ UNCHANGED <<faults, up, limit, job, clearing, chip, scans, starts>>
    BY Zenon DEF DeleteEnrollment
  <1>2. memory \in [Users -> Seq(Entry)] /\ memory[u] \in Seq(Entry)  BY Zenon DEF StoreTypes
  <1>3. s \in Seq(Entry) /\ Len(s) <= Len(memory[u])  BY <1>1, <1>2, RemovedIs, Zenon
  <1> HIDE DEF s
  <1>4. mem \in [Users -> Seq(Entry)]  BY <1>2, <1>3, Zenon
  <1>5. mem[u] = s /\ \A v \in Users : v # u => mem[v] = memory[v]  BY <1>2, Zenon
  <1> HIDE DEF mem
  <1>6. deleted' \subseteq Nat  BY <1>1, <1>2, PrintsOfAll, Zenon DEF StoreTypes
  <1>7. job' \in [Threads -> Job] /\ clearing' \in BOOLEAN  BY <1>1, Zenon DEF StoreTypes
  <1>8. StoreTypes' /\ FilesHaveKeys' /\ (FewUsers => MemoryIsOnDisk')
    BY <1>1, <1>4, <1>6, <1>7, EditKeeps, Zenon
  <1>9. \A v \in Users : Len(memory[v]) \in Nat  BY <1>2
  <1> QED  BY <1>1, <1>3, <1>5, <1>8, <1>9

LEMMA DeleteAllEdits ==
  ASSUME StoreTypes, FilesHaveKeys, NEW u \in Users, DeleteAll(u)
  PROVE  /\ StoreTypes' /\ FilesHaveKeys' /\ (FewUsers => MemoryIsOnDisk')
         /\ \A v \in Users : Len(memory'[v]) <= Len(memory[v])
  <1> DEFINE mem == [memory EXCEPT ![u] = <<>>]
  <1>1. /\ memory' = mem /\ Save(mem) /\ clearing' = TRUE
        /\ deleted' = deleted \cup PrintsOf(memory[u])
        /\ UNCHANGED <<faults, up, limit, job, chip, scans, starts>>
    BY Zenon DEF DeleteAll
  <1>2. memory \in [Users -> Seq(Entry)] /\ memory[u] \in Seq(Entry)  BY Zenon DEF StoreTypes
  <1>3. mem \in [Users -> Seq(Entry)]  BY <1>2
  <1>4. mem[u] = <<>> /\ \A v \in Users : v # u => mem[v] = memory[v]  BY <1>2, Zenon
  <1> HIDE DEF mem
  <1>5. deleted' \subseteq Nat  BY <1>1, <1>2, PrintsAreNumbers, Zenon DEF StoreTypes
  <1>6. job' \in [Threads -> Job] /\ clearing' \in BOOLEAN  BY <1>1, Zenon DEF StoreTypes
  <1>7. StoreTypes' /\ FilesHaveKeys' /\ (FewUsers => MemoryIsOnDisk')
    BY <1>1, <1>3, <1>5, <1>6, EditKeeps, Zenon
  <1>8. \A v \in Users : Len(memory[v]) \in Nat  BY <1>2
  <1> QED  BY <1>1, <1>4, <1>7, <1>8

\* bio_daemon_load_enrollments: what verifies, or as many zeroed entries as were
\* read before it gave up.
LEMMA LoadTypes ==
  ASSUME StoreTypes, LoadAll \/ LoadGivesUp
  PROVE  memory' \in [Users -> Seq(Entry)] /\ key' \in Nat
  <1>1. CASE LoadAll
    <2>1. PICK k \in {key, key + 1}, R \in SUBSET Users :
            key' = k /\ memory' = [u \in Users |-> IF u \in R THEN files[u].entries ELSE <<>>]
      BY <1>1, Zenon DEF LoadAll
    <2>2. \A u \in Users : files[u].entries \in Seq(Entry)  BY Zenon DEF StoreTypes
    <2>3. \A u \in Users : (IF u \in R THEN files[u].entries ELSE <<>>) \in Seq(Entry)  BY <2>2
    <2>4. k \in Nat  BY DEF StoreTypes
    <2> QED  BY <2>1, <2>3, <2>4, Zenon
  <1>2. CASE LoadGivesUp
    <2>1. PICK R \in SUBSET Users :
            LET n == Cardinality({p \in R \X (1..MaxScans) : p[2] \in DOMAIN files[p[1]].entries})
            IN  memory' = [Empty EXCEPT ![RootUser] = [i \in 1..n |-> Zeroed]] /\ key' = key
      BY <1>2, Zenon DEF LoadGivesUp
    <2> DEFINE T == {p \in R \X (1..MaxScans) : p[2] \in DOMAIN files[p[1]].entries}
               n == Cardinality(T)
    <2>2. n \in Nat
      <3>1. IsFiniteSet(R)  BY StoreAssumption, FS_Subset, Zenon
      <3>2. IsFiniteSet(1..MaxScans)  BY StoreAssumption, FS_Interval
      <3>3. IsFiniteSet(R \X (1..MaxScans))  BY <3>1, <3>2, FS_Product, Zenon
      <3>4. IsFiniteSet(T)  BY <3>3, FS_Subset, Zenon
      <3> QED  BY <3>4, FS_CardinalityType, Zenon
    <2>3. memory' = [Empty EXCEPT ![RootUser] = [i \in 1..n |-> Zeroed]] /\ key' = key  BY <2>1, Zenon
    <2> HIDE DEF n
    <2>4. [i \in 1..n |-> Zeroed] \in Seq(Entry)  BY <2>2 DEF Zeroed, Entry
    <2>5. Empty \in [Users -> Seq(Entry)]  BY DEF Empty
    <2> QED  BY <2>3, <2>4, <2>5, Zenon DEF StoreTypes
  <1> QED  BY <1>1, <1>2, Zenon

\* Without a fault, and with keys for all files, what is loaded is on disk.
LEMMA LoadAgrees ==
  ASSUME StoreTypes, FilesHaveKeys, LoadAll, faults = {}, UNCHANGED files,
         NEW u \in Users, memory'[u] # <<>>
  PROVE  files'[u] = [key |-> key', entries |-> memory'[u]]
  <1>1. PICK k \in {key, key + 1}, R \in SUBSET {v \in Users : Verifies(v)} :
          /\ KeyAfter(k) /\ key' = k
          /\ memory' = [v \in Users |-> IF v \in R THEN files[v].entries ELSE <<>>]
    BY Zenon DEF LoadAll
  <1>2. u \in R /\ memory'[u] = files[u].entries  BY <1>1, Zenon
  <1>3. files[u].key = key /\ files[u].key # 0  BY <1>2, Zenon DEF Verifies, FilesHaveKeys
  <1>4. k = key  BY <1>1, <1>3, KeyIsMadeOnce, Zenon
  <1>5. files[u] = [key |-> files[u].key, entries |-> files[u].entries]  BY Zenon DEF StoreTypes
  <1> QED  BY <1>1, <1>2, <1>3, <1>4, <1>5, Zenon

LEMMA StartEdits ==
  ASSUME StoreTypes, FilesHaveKeys, NEW n \in Limits, Start(n)
  PROVE  StoreTypes' /\ FilesHaveKeys' /\ MemoryIsOnDisk'
  <1>1. /\ up' = TRUE /\ starts' = starts + 1 /\ limit' = n /\ (LoadAll \/ LoadGivesUp)
        /\ UNCHANGED <<faults, job, clearing, files, chip, scans, durable, deleted>>
    BY Zenon DEF Start
  <1>2. memory' \in [Users -> Seq(Entry)] /\ key' \in Nat  BY <1>1, LoadTypes, Zenon
  <1>3. starts' \in Nat  BY <1>1 DEF StoreTypes
  <1>4. StoreTypes'  BY <1>1, <1>2, <1>3, Zenon DEF StoreTypes
  <1>5. FilesHaveKeys'  BY <1>1, Zenon DEF FilesHaveKeys
  <1>6. MemoryIsOnDisk'
    <2> SUFFICES ASSUME faults = {}, NEW u \in Users, memory'[u] # <<>>
                 PROVE  files'[u] = [key |-> key', entries |-> memory'[u]]
      BY <1>1, Zenon DEF MemoryIsOnDisk, Present
    <2>1. LoadAll  BY <1>1, Zenon DEF LoadGivesUp
    <2> QED  BY <1>1, <2>1, LoadAgrees, Zenon
  <1> QED  BY <1>4, <1>5, <1>6, Zenon

\* The scan: a thread's enrollment goes on with a new print, or is over.
LEMMA ScanEdits ==
  ASSUME StoreTypes, NEW t \in Threads, Scan(t)
  PROVE  /\ scans' \in Nat /\ chip' \subseteq 1..scans' /\ job' \in [Threads -> Job]
         /\ UNCHANGED <<faults, up, memory, limit, clearing, files, key, starts, durable, deleted>>
  <1>1. /\ job[t].phase = "scan"
        /\ \E kept \in {chip, {}} : Scanned(t, kept) \/ ScanFails(t, kept)
        /\ UNCHANGED <<faults, up, memory, limit, clearing, files, key, starts, durable, deleted>>
    BY Zenon DEF Scan
  <1>2. PICK kept \in {chip, {}} : Scanned(t, kept) \/ ScanFails(t, kept)  BY <1>1, Zenon
  <1>3. kept \subseteq 1..scans /\ scans \in Nat /\ job \in [Threads -> Job]  BY Zenon DEF StoreTypes
  <1>4. CASE Scanned(t, kept)
    <2>1. scans' = scans + 1 /\ chip' = kept \cup {scans + 1}
      BY <1>4, Zenon DEF Scanned
    <2> DEFINE e == [[job[t] EXCEPT !.phase = "store"] EXCEPT !.print = scans + 1]
    <2>2. job' = [job EXCEPT ![t] = e]
      BY <1>3, <1>4, Zenon DEF Scanned
    <2>3. job[t] \in [phase : Phases, path : Paths, uid : Users, finger : Fingers, print : Nat]
      BY <1>1, <1>3 DEF Job, Idle
    <2>4. e \in [phase : Phases, path : Paths, uid : Users, finger : Fingers, print : Nat]
      <3>1. ASSUME NEW r \in [phase : Phases, path : Paths, uid : Users, finger : Fingers, print : Nat]
            PROVE  [r EXCEPT !.phase = "store"]
                     \in [phase : Phases, path : Paths, uid : Users, finger : Fingers, print : Nat]
        BY Zenon DEF Phases
      <3>2. ASSUME NEW r \in [phase : Phases, path : Paths, uid : Users, finger : Fingers, print : Nat]
            PROVE  [r EXCEPT !.print = scans + 1]
                     \in [phase : Phases, path : Paths, uid : Users, finger : Fingers, print : Nat]
        BY <1>3
      <3> QED  BY <2>3, <3>1, <3>2, Zenon
    <2> HIDE DEF e
    <2>5. job' \in [Threads -> Job]  BY <1>3, <2>2, <2>4, Zenon DEF Job
    <2>6. scans' \in Nat /\ chip' \subseteq 1..scans'  BY <1>3, <2>1
    <2> QED  BY <1>1, <2>5, <2>6, Zenon
  <1>5. CASE ScanFails(t, kept)
    <2>1. chip' = kept /\ scans' = scans /\ job' = [job EXCEPT ![t] = Idle]  BY <1>5, Zenon DEF ScanFails
    <2> QED  BY <1>1, <1>3, <2>1, Zenon DEF Job
  <1> QED  BY <1>2, <1>4, <1>5, Zenon

\* Every step: the types and the keys of files, the limit, and, with no more
\* users than a save collects, memory on disk.
LEMMA StoreStep ==
  ASSUME StoreTypes, FilesHaveKeys, [StoreNext]_storeVars
  PROVE  /\ StoreTypes' /\ FilesHaveKeys'
         /\ FewUsers /\ MemoryIsOnDisk => MemoryIsOnDisk'
         /\ \A u \in Users : (up /\ Len(memory'[u]) > Len(memory[u])) => Len(memory'[u]) <= limit
  <1> DEFINE Goal == /\ StoreTypes' /\ FilesHaveKeys'
                     /\ FewUsers /\ MemoryIsOnDisk => MemoryIsOnDisk'
                     /\ \A u \in Users : (up /\ Len(memory'[u]) > Len(memory[u])) => Len(memory'[u]) <= limit
  <1>0. \A u \in Users : Len(memory[u]) \in Nat  BY DEF StoreTypes
  <1>a. ASSUME scans' \in Nat, chip' \subseteq 1..scans', job' \in [Threads -> Job],
               clearing' \in BOOLEAN, limit' \in Limits,
               UNCHANGED <<faults, up, memory, files, key, starts, durable, deleted>>
        PROVE  Goal
    <2>1. StoreTypes'  BY <1>a, Zenon DEF StoreTypes
    <2>2. FilesHaveKeys'  BY <1>a, Zenon DEF FilesHaveKeys
    <2>3. MemoryIsOnDisk => MemoryIsOnDisk'  BY <1>a, Zenon DEF MemoryIsOnDisk, Present
    <2> QED  BY <1>0, <1>a, <2>1, <2>2, <2>3
  <1>b. scans \in Nat /\ chip \subseteq 1..scans /\ job \in [Threads -> Job] /\ clearing \in BOOLEAN /\ limit \in Limits
    BY Zenon DEF StoreTypes
  <1>c. ASSUME StoreTypes' /\ FilesHaveKeys' /\ (FewUsers => MemoryIsOnDisk'),
               \A u \in Users : Len(memory'[u]) <= Len(memory[u])
        PROVE  Goal
    <2>1. \A u \in Users : Len(memory'[u]) \in Nat  BY <1>c DEF StoreTypes
    <2> QED  BY <1>0, <1>c, <2>1
  <1>1. ASSUME NEW t \in Threads, NEW path \in Paths, NEW u \in Users, NEW f \in Fingers,
               BeginEnroll(t, path, u, f)
        PROVE  Goal
    <2>1. [phase |-> "scan", path |-> path, uid |-> u, finger |-> f, print |-> 0] \in Job
      BY Zenon DEF Job, Phases
    <2>2. job' \in [Threads -> Job]  BY <1>1, <1>b, <2>1, Zenon DEF BeginEnroll
    <2> QED  BY <1>1, <1>a, <1>b, <2>2, Zenon DEF BeginEnroll
  <1>2. ASSUME NEW t \in Threads, Scan(t)  PROVE Goal
    BY <1>2, <1>a, <1>b, ScanEdits, Zenon
  <1>3. ASSUME NEW t \in Threads, Store(t)  PROVE Goal
    BY <1>3, StoreEdits, Zenon
  <1>4. ASSUME NEW t \in Threads, StoreFails(t)  PROVE Goal
    <2>1. job' \in [Threads -> Job]  BY <1>4, <1>b, Zenon DEF StoreFails, Job
    <2> QED  BY <1>4, <1>a, <1>b, <2>1, Zenon DEF StoreFails
  <1>5. ASSUME NEW u \in Users, NEW f \in Fingers, DeleteEnrollment(u, f)  PROVE Goal
    BY <1>5, <1>c, DeleteEdits, Zenon
  <1>6. ASSUME NEW u \in Users, DeleteAll(u)  PROVE Goal
    BY <1>6, <1>c, DeleteAllEdits, Zenon
  <1>7. ASSUME ClearChip  PROVE Goal
    <2>1. chip' \subseteq 1..scans /\ clearing' \in BOOLEAN  BY <1>7, <1>b, Zenon DEF ClearChip
    <2> QED  BY <1>7, <1>a, <1>b, <2>1, Zenon DEF ClearChip
  <1>8. ASSUME NEW n \in Limits, ReloadLimit(n)  PROVE Goal
    BY <1>8, <1>a, <1>b, Zenon DEF ReloadLimit
  <1>9. ASSUME Crash  PROVE Goal
    <2>1. /\ up' = FALSE /\ memory' = Empty /\ job' = [t \in Threads |-> Idle] /\ clearing' = FALSE
          /\ UNCHANGED <<faults, limit, files, key, chip, scans, starts, durable, deleted>>
      BY <1>9, Zenon DEF Crash
    <2>2. Empty \in [Users -> Seq(Entry)] /\ [t \in Threads |-> Idle] \in [Threads -> Job]
      BY DEF Empty, Job
    <2>3. StoreTypes'  BY <2>1, <2>2, Zenon DEF StoreTypes
    <2>4. FilesHaveKeys'  BY <2>1, Zenon DEF FilesHaveKeys
    <2>5. MemoryIsOnDisk'  BY <2>1, Zenon DEF MemoryIsOnDisk
    <2>6. \A u \in Users : Len(memory'[u]) <= Len(memory[u])  BY <1>0, <2>1 DEF Empty
    <2> QED  BY <1>c, <2>3, <2>4, <2>5, <2>6, Zenon
  <1>10. ASSUME NEW n \in Limits, Start(n)  PROVE Goal
    <2>1. ~up  BY <1>10, Zenon DEF Start
    <2> QED  BY <1>10, <2>1, StartEdits, Zenon
  <1>11. ASSUME UNCHANGED storeVars  PROVE Goal
    BY <1>11, <1>a, <1>b, Zenon DEF storeVars
  <1> HIDE DEF Goal
  <1>12. Goal
    BY <1>1, <1>2, <1>3, <1>4, <1>5, <1>6, <1>7, <1>8, <1>9, <1>10, <1>11, Zenon DEF StoreNext
  <1> QED  BY <1>12, Zenon DEF Goal

LEMMA StoreStarts == StoreInit => StoreTypes /\ FilesHaveKeys /\ MemoryIsOnDisk
  <1> SUFFICES ASSUME StoreInit PROVE StoreTypes /\ FilesHaveKeys /\ MemoryIsOnDisk
    BY Zenon
  <1>1. /\ memory \in [Users -> Seq(Entry)] /\ job \in [Threads -> Job]
        /\ files \in [Users -> [key : Nat, entries : Seq(Entry)]]
    BY DEF StoreInit, Empty, NoFile, Job
  <1>2. StoreTypes  BY <1>1, Zenon DEF StoreInit, StoreTypes
  <1>3. FilesHaveKeys  BY Zenon DEF StoreInit, FilesHaveKeys
  <1>4. MemoryIsOnDisk  BY Zenon DEF StoreInit, MemoryIsOnDisk
  <1> QED  BY <1>2, <1>3, <1>4, Zenon

\* Both enrollment paths check the limit again under data_lock, so that no scan
\* that others overtook takes a user beyond it.
THEOREM LimitIsKept == StoreSpec => CapacityHolds
  <1>1. StoreInit => StoreTypes /\ FilesHaveKeys  BY StoreStarts, Zenon
  <1>2. StoreTypes /\ FilesHaveKeys /\ [StoreNext]_storeVars => StoreTypes' /\ FilesHaveKeys'
    BY StoreStep, Zenon
  <1>3. StoreTypes /\ FilesHaveKeys /\ [StoreNext]_storeVars =>
          [\A u \in Users : (up /\ Len(memory'[u]) > Len(memory[u])) => Len(memory'[u]) <= limit]_storeVars
    BY StoreStep, Zenon
  <1> QED  BY <1>1, <1>2, <1>3, PTL DEF StoreSpec, CapacityHolds

\* bio_daemon_save_enrollments: while saves succeed, the files hold what is in
\* memory, as long as no more users have enrollments than a save collects.
THEOREM EnrollmentsAreSaved == FewUsers => (StoreSpec => []StoreConsistent)
  <1> SUFFICES ASSUME FewUsers PROVE StoreSpec => []StoreConsistent
    BY Zenon
  <1>1. StoreInit => Saved  BY StoreStarts, Zenon DEF Saved
  <1>2. Saved /\ [StoreNext]_storeVars => Saved'  BY StoreStep, Zenon DEF Saved
  <1>3. Saved => StoreConsistent  BY Zenon DEF Saved, StoreConsistent
  <1> QED  BY <1>1, <1>2, <1>3, PTL DEF StoreSpec

-----------------------------------------------------------------------------
(* The enrollments: what a restart finds.                                   *)

\* The prints of a user, in memory or on disk.
Held(u) == PrintsOf(memory[u]) \cup PrintsOf(files[u].entries)

Storing(t) == job[t].phase = "store"

\* Every file is under the key that the next load reads.
FilesCurrent == \A u \in Users : files[u] # NoFile => files[u].key = key

\* What a save has written is still in a file, and in memory while the daemon
\* runs, so that the next save of the file writes it again.
DurableIsHeld ==
  /\ \A x \in durable : \E u \in Users : x \in PrintsOf(files[u].entries)
  /\ up => durable \subseteq Prints(memory)

\* A print belongs to one user.
OwnPrints ==
  /\ \A u, v \in Users : \A x \in Held(u) \cap Held(v) : u = v
  /\ \A u \in Users : Held(u) \subseteq 1..scans

\* The print of a scan that is not stored yet is nobody else's.
FreshPrints ==
  /\ \A t \in Threads : Storing(t) =>
       job[t].print \in 1..scans /\ \A u \in Users : job[t].print \notin Held(u)
  /\ \A s, t \in Threads : Storing(s) /\ Storing(t) /\ job[s].print = job[t].print => s = t

Restorable == FilesCurrent /\ DurableIsHeld /\ OwnPrints /\ FreshPrints

\* A save keeps all of it: the users it does not reach keep a file that holds
\* what they had.
LEMMA SaveRestores ==
  ASSUME StoreTypes, FilesHaveKeys, Restorable, faults \subseteq {"save"}, up, up',
         NEW mem \in [Users -> Seq(Entry)], memory' = mem, Save(mem), scans' = scans,
         NEW w, NEW P \in SUBSET (1..scans), \A u \in Users : P \cap Held(u) = {},
         \A u \in Users : PrintsOf(mem[u]) \subseteq Held(u) \cup (IF u = w THEN P ELSE {}),
         \A t \in Threads : Storing(t)' =>
           Storing(t) /\ job'[t].print = job[t].print /\ job[t].print \notin P
  PROVE  Restorable'
  <1>1. PICK W, k, old : SavedAs(mem, W, k, old)  BY SaveIs, Zenon
  <1>2. W \subseteq Users /\ old \subseteq W  BY <1>1, Zenon DEF SavedAs, Written, Present
  <1>3. /\ \A u \in W : files'[u] = [key |-> IF u \in old THEN key ELSE k, entries |-> mem[u]]
        /\ \A u \in Users \ W : files'[u] = files[u]
    BY <1>1, <1>2, Zenon DEF SavedAs, Left
  <1>4. /\ key' = k /\ KeyAfter(k) /\ (old # {} => key # 0)
        /\ durable' = (durable \ (Prints(memory) \ Prints(mem)))
                        \cup UNION {PrintsOf(mem[u]) : u \in W}
    BY <1>1, Zenon DEF SavedAs
  <1>5. k = key \/ key = 0  BY <1>4, KeyIsMadeOnce, Zenon
  <1>6. \A u \in W : files'[u].key = k /\ files'[u].entries = mem[u]
    <2> SUFFICES ASSUME NEW u \in W  PROVE files'[u].key = k /\ files'[u].entries = mem[u]
      BY Zenon
    <2>1. (IF u \in old THEN key ELSE k) = k  BY <1>4, <1>5, Zenon
    <2>2. files'[u] = [key |-> k, entries |-> mem[u]]  BY <1>3, <2>1, Zenon
    <2> QED  BY ONLY <2>2
  <1>7. FilesCurrent'
    <2> SUFFICES ASSUME NEW u \in Users, files'[u] # NoFile  PROVE files'[u].key = key'
      BY Zenon DEF FilesCurrent, NoFile
    <2>1. CASE u \in W  BY <1>4, <1>6, <2>1, Zenon
    <2>2. CASE u \notin W
      <3>1. files'[u] = files[u] /\ files[u] # NoFile  BY <1>3, <2>2, Zenon
      <3>2. files[u].key = key /\ files[u].key # 0
        BY <3>1, Zenon DEF FilesHaveKeys, Restorable, FilesCurrent
      <3> QED  BY <1>4, <1>5, <3>1, <3>2, Zenon
    <2> QED  BY <2>1, <2>2, Zenon
  <1>8. \A u \in Users : Held(u)' \subseteq Held(u) \cup (IF u = w THEN P ELSE {})
    <2> SUFFICES ASSUME NEW u \in Users  PROVE Held(u)' \subseteq Held(u) \cup (IF u = w THEN P ELSE {})
      BY Zenon
    <2>1. CASE u \in W  BY <1>6, <2>1, Zenon DEF Held
    <2>2. CASE u \notin W  BY <1>3, <2>2, Zenon DEF Held
    <2> QED  BY <2>1, <2>2, Zenon
  <1>10. durable' \subseteq Prints(mem)
    BY <1>2, <1>4, Zenon DEF Restorable, DurableIsHeld, Prints
  <1>11. ASSUME NEW x \in durable'
         PROVE  \E u \in Users : x \in PrintsOf(files'[u].entries)
    <2>1. CASE \E u \in W : x \in PrintsOf(mem[u])  BY <1>2, <1>6, <2>1, Zenon
    <2>2. CASE ~(\E u \in W : x \in PrintsOf(mem[u]))
      <3>1. x \in durable  BY <1>4, <1>11, <2>2, Zenon
      <3>2. PICK v \in Users : x \in PrintsOf(files[v].entries)
        BY <3>1, Zenon DEF Restorable, DurableIsHeld
      <3>0. x \in Prints(mem)  BY <1>10, <1>11, Zenon
      <3>3. PICK u \in Users : x \in PrintsOf(mem[u])  BY <3>0, Zenon DEF Prints
      <3>4. x \in Held(v)  BY <3>2, Zenon DEF Held
      <3>5. x \notin P  BY <3>4, Zenon
      <3>6. x \in Held(u)  BY <3>3, <3>5, Zenon
      <3>7. u = v  BY <3>4, <3>6, Zenon DEF Restorable, OwnPrints
      <3>8. v \notin W  BY <2>2, <3>3, <3>7, Zenon
      <3> QED  BY <1>3, <3>2, <3>8, Zenon
    <2> QED  BY <2>1, <2>2, Zenon
  <1>12. DurableIsHeld'  BY <1>10, <1>11, Zenon DEF DurableIsHeld
  <1>13. OwnPrints'
    <2>1. ASSUME NEW u \in Users, NEW v \in Users, NEW x, x \in Held(u)', x \in Held(v)'
          PROVE  u = v
      <3>1. CASE x \in P
        <4>1. x \notin Held(u) /\ x \notin Held(v)  BY <3>1, Zenon
        <4> QED  BY <1>8, <2>1, <4>1, Zenon
      <3>2. CASE x \notin P
        <4>1. x \in Held(u) /\ x \in Held(v)  BY <1>8, <2>1, <3>2, Zenon
        <4> QED  BY <4>1, Zenon DEF Restorable, OwnPrints
      <3> QED  BY <3>1, <3>2, Zenon
    <2>2. \A u \in Users : Held(u)' \subseteq 1..scans'  BY <1>8, Zenon DEF Restorable, OwnPrints
    <2> QED  BY <2>1, <2>2, Zenon DEF OwnPrints
  <1>14. FreshPrints'
    <2>1. ASSUME NEW t \in Threads, Storing(t)'
          PROVE  job'[t].print \in 1..scans' /\ \A u \in Users : job'[t].print \notin Held(u)'
      <3>1. Storing(t) /\ job'[t].print = job[t].print /\ job[t].print \notin P  BY <2>1, Zenon
      <3>2. job[t].print \in 1..scans /\ \A u \in Users : job[t].print \notin Held(u)
        BY <3>1, Zenon DEF Restorable, FreshPrints
      <3> QED  BY <1>8, <3>1, <3>2, Zenon
    <2>2. ASSUME NEW s \in Threads, NEW t \in Threads, Storing(s)', Storing(t)',
                 job'[s].print = job'[t].print
          PROVE  s = t
      BY <2>2, Zenon DEF Restorable, FreshPrints
    <2> QED  BY <2>1, <2>2, Zenon DEF FreshPrints
  <1> QED  BY <1>7, <1>12, <1>13, <1>14, Zenon DEF Restorable

\* The steps that neither save nor load keep it.
LEMMA OthersRestore ==
  ASSUME StoreTypes, Restorable, up' => up, durable' = durable, UNCHANGED <<files, key>>,
         memory' = memory \/ (~up' /\ memory' = Empty),
         scans' \in Nat, scans <= scans', FreshPrints'
  PROVE  Restorable'
  <1>1. \A u \in Users : Held(u)' \subseteq Held(u)
    <2>1. \A u \in Users : PrintsOf(Empty[u]) = {}  BY DEF PrintsOf, Empty
    <2> QED  BY <2>1, Zenon DEF Held
  <1>2. FilesCurrent'  BY Zenon DEF Restorable, FilesCurrent
  <1>3. DurableIsHeld'
    <2>1. up' => memory' = memory  BY Zenon
    <2> QED  BY <2>1, Zenon DEF Restorable, DurableIsHeld, Prints
  <1>4. OwnPrints'
    <2>1. 1..scans \subseteq 1..scans'  BY DEF StoreTypes
    <2> QED  BY <1>1, <2>1, Zenon DEF Restorable, OwnPrints
  <1> QED  BY <1>2, <1>3, <1>4, Zenon DEF Restorable

LEMMA StoreRestores ==
  ASSUME StoreTypes, FilesHaveKeys, Restorable, faults \subseteq {"save"}, up,
         NEW t \in Threads, Store(t)
  PROVE  Restorable'
  <1> DEFINE j == job[t]
             e == [finger |-> j.finger, print |-> j.print]
             s == Added(j.path, memory[j.uid], e)
             mem == [memory EXCEPT ![j.uid] = s]
  <1>1. /\ memory' = mem /\ Save(mem) /\ j.phase = "store"
        /\ job' = [job EXCEPT ![t] = Idle] /\ up' = up /\ scans' = scans
    BY Zenon DEF Store
  <1>2. j.uid \in Users /\ e \in Entry /\ e.print = j.print
    <2>1. j \in Job /\ j # Idle  BY <1>1 DEF StoreTypes, Idle
    <2>2. j \in [phase : Phases, path : Paths, uid : Users, finger : Fingers, print : Nat]
      BY <2>1, Zenon DEF Job
    <2> QED  BY <2>2, Zenon DEF Entry
  <1>3. j.print \in 1..scans /\ \A u \in Users : j.print \notin Held(u)
    BY <1>1, Zenon DEF Restorable, FreshPrints, Storing
  <1>9. \A r \in Threads : Storing(r)' => Storing(r) /\ job'[r].print = job[r].print /\ job[r].print # j.print
    <2>1. ASSUME NEW r \in Threads, Storing(r)'
          PROVE  Storing(r) /\ job'[r].print = job[r].print /\ job[r].print # j.print
      <3>1. r # t /\ job'[r] = job[r]  BY <1>1, <2>1, Zenon DEF Storing, StoreTypes, Idle
      <3>2. Storing(r) /\ Storing(t)  BY <1>1, <2>1, <3>1, Zenon DEF Storing
      <3> QED  BY <3>1, <3>2, Zenon DEF Restorable, FreshPrints
    <2> QED  BY <2>1, Zenon
  <1> HIDE DEF e, j
  <1>4. memory \in [Users -> Seq(Entry)] /\ memory[j.uid] \in Seq(Entry)  BY <1>2, Zenon DEF StoreTypes
  <1>5. s \in Seq(Entry) /\ PrintsOf(s) \subseteq PrintsOf(memory[j.uid]) \cup {j.print}
    BY <1>2, <1>4, AddedIs, Zenon
  <1> HIDE DEF s
  <1>6. mem \in [Users -> Seq(Entry)]  BY <1>2, <1>4, <1>5, Zenon
  <1>7. mem[j.uid] = s /\ \A u \in Users : u # j.uid => mem[u] = memory[u]  BY <1>2, <1>4, Zenon
  <1> HIDE DEF mem
  <1> DEFINE P == {j.print}
             w == j.uid
  <1>8. \A u \in Users : PrintsOf(mem[u]) \subseteq Held(u) \cup (IF u = w THEN P ELSE {})
    BY <1>5, <1>7, Zenon DEF Held
  <1>10. P \in SUBSET (1..scans) /\ \A u \in Users : P \cap Held(u) = {}
    BY <1>3, Zenon
  <1>11. \A r \in Threads : Storing(r)' =>
           Storing(r) /\ job'[r].print = job[r].print /\ job[r].print \notin P
    BY <1>9, Zenon
  <1>12. memory' = mem /\ Save(mem) /\ up' /\ scans' = scans  BY <1>1, Zenon
  <1> HIDE DEF P, w
  <1> QED  BY <1>6, <1>8, <1>10, <1>11, <1>12, SaveRestores, Zenon

\* Deletions: every user has the prints it had, or fewer.
LEMMA FewerRestore ==
  ASSUME StoreTypes, FilesHaveKeys, Restorable, faults \subseteq {"save"}, up, up',
         NEW mem \in [Users -> Seq(Entry)], memory' = mem, Save(mem), UNCHANGED <<scans, job>>,
         \A u \in Users : PrintsOf(mem[u]) \subseteq PrintsOf(memory[u])
  PROVE  Restorable'
  <1>1. \A u \in Users : PrintsOf(mem[u]) \subseteq Held(u) \cup (IF u = 0 THEN {} ELSE {})
    BY Zenon DEF Held
  <1>2. {} \in SUBSET (1..scans) /\ \A u \in Users : {} \cap Held(u) = {}  BY Zenon
  <1>3. \A r \in Threads : Storing(r)' =>
          Storing(r) /\ job'[r].print = job[r].print /\ job[r].print \notin {}
    BY Zenon DEF Storing
  <1> QED  BY <1>1, <1>2, <1>3, SaveRestores, Zenon

LEMMA DeletesRestore ==
  ASSUME StoreTypes, FilesHaveKeys, Restorable, faults \subseteq {"save"},
         NEW u \in Users,
         DeleteAll(u) \/ \E f \in Fingers : DeleteEnrollment(u, f)
  PROVE  Restorable'
  <1>0. memory \in [Users -> Seq(Entry)] /\ memory[u] \in Seq(Entry)  BY Zenon DEF StoreTypes
  <1>1. ASSUME NEW s \in Seq(Entry), PrintsOf(s) \subseteq PrintsOf(memory[u]),
               up, up', memory' = [memory EXCEPT ![u] = s], Save([memory EXCEPT ![u] = s]),
               UNCHANGED <<scans, job>>
        PROVE  Restorable'
    <2> DEFINE mem == [memory EXCEPT ![u] = s]
    <2>1. mem \in [Users -> Seq(Entry)]  BY <1>0, Zenon
    <2>2. mem[u] = s /\ \A v \in Users : v # u => mem[v] = memory[v]  BY <1>0, Zenon
    <2>3. memory' = mem /\ Save(mem)  BY <1>1, Zenon
    <2> HIDE DEF mem
    <2>4. \A v \in Users : PrintsOf(mem[v]) \subseteq PrintsOf(memory[v])  BY <1>1, <2>2, Zenon
    <2> QED  BY <1>1, <2>1, <2>3, <2>4, FewerRestore, Zenon
  <1>2. CASE DeleteAll(u)
    <2>1. <<>> \in Seq(Entry) /\ PrintsOf(<<>>) \subseteq PrintsOf(memory[u])  BY DEF PrintsOf
    <2> QED  BY <1>1, <1>2, <2>1, Zenon DEF DeleteAll
  <1>3. ASSUME NEW f \in Fingers, DeleteEnrollment(u, f)
        PROVE  Restorable'
    <2>1. \E i \in DOMAIN memory[u] : memory[u][i].finger = f  BY <1>3, Zenon DEF DeleteEnrollment
    <2>2. Removed(memory[u], f) \in Seq(Entry) /\ PrintsOf(Removed(memory[u], f)) \subseteq PrintsOf(memory[u])
      BY <1>0, <2>1, RemovedIs, Zenon
    <2> QED  BY <1>1, <1>3, <2>2, Zenon DEF DeleteEnrollment
  <1> QED  BY <1>2, <1>3, Zenon

\* A start without key or load faults finds every file that there is.
LEMMA StartRestores ==
  ASSUME StoreTypes, FilesHaveKeys, Restorable, faults \subseteq {"save"}, NEW n \in Limits, Start(n),
         \A t \in Threads : ~Storing(t)
  PROVE  Restorable' /\ durable \subseteq Prints(memory')
  <1>1. LoadAll /\ UNCHANGED <<job, files, scans, durable>> /\ up'
    BY Zenon DEF Start, LoadGivesUp
  <1>2. PICK k \in {key, key + 1}, R \in SUBSET {u \in Users : Verifies(u)} :
          /\ KeyAfter(k) /\ key' = k
          /\ k = key => R = {u \in Users : Verifies(u)}
          /\ memory' = [u \in Users |-> IF u \in R THEN files[u].entries ELSE <<>>]
    BY <1>1, Zenon DEF LoadAll
  <1>3. k = key \/ key = 0  BY <1>2, KeyIsMadeOnce, Zenon
  <1>4. \A u \in Users : files[u] # NoFile => files[u].key = key /\ files[u].key # 0
    BY Zenon DEF Restorable, FilesCurrent, FilesHaveKeys
  <1>5. \A u \in Users : files[u] # NoFile => k = key /\ u \in R
    BY <1>2, <1>3, <1>4, Zenon DEF Verifies
  <1>6. \A u \in Users : PrintsOf(memory'[u]) = PrintsOf(files[u].entries)
    <2> SUFFICES ASSUME NEW u \in Users  PROVE PrintsOf(memory'[u]) = PrintsOf(files[u].entries)
      BY Zenon
    <2>1. CASE files[u] # NoFile
      <3>1. u \in R  BY <1>5, <2>1, Zenon
      <3> QED  BY <1>2, <3>1, Zenon
    <2>2. CASE files[u] = NoFile
      <3>1. u \notin R  BY <2>2, Zenon DEF Verifies
      <3>2. memory'[u] = <<>>  BY <1>2, <3>1, Zenon
      <3>3. files[u].entries = <<>>  BY ONLY <2>2 DEF NoFile
      <3> QED  BY <3>2, <3>3, Zenon
    <2> QED  BY <2>1, <2>2, Zenon
  <1>7. durable \subseteq Prints(memory')
    BY <1>6, Zenon DEF Restorable, DurableIsHeld, Prints
  <1>8. \A u \in Users : Held(u)' \subseteq Held(u)  BY <1>1, <1>6, Zenon DEF Held
  <1>9. FilesCurrent'
    <2>1. \A u \in Users : files[u] # NoFile => files[u].key = k  BY <1>4, <1>5, Zenon
    <2> QED  BY <1>1, <1>2, <2>1, Zenon DEF FilesCurrent, NoFile
  <1>10. DurableIsHeld'  BY <1>1, <1>7, Zenon DEF Restorable, DurableIsHeld, Prints
  <1>11. OwnPrints'  BY <1>1, <1>8, Zenon DEF Restorable, OwnPrints
  <1>12. FreshPrints'  BY <1>1, Zenon DEF FreshPrints, Storing
  <1> QED  BY <1>7, <1>9, <1>10, <1>11, <1>12, Zenon DEF Restorable

\* Nobody enrolls while the daemon is down.
JobsNeedDaemon == \A t \in Threads : job[t] # Idle => up

RestoreInv ==
  StoreTypes /\ FilesHaveKeys /\ JobsNeedDaemon /\ (faults \subseteq {"save"} => Restorable)

LEMMA JobsStep ==
  ASSUME StoreTypes, JobsNeedDaemon, [StoreNext]_storeVars
  PROVE  JobsNeedDaemon'
  <1>0. job \in [Threads -> Job]  BY Zenon DEF StoreTypes
  <1>1. ASSUME NEW t \in Threads, up \/ job[t].phase # "idle", up' = up,
               \A s \in Threads : s # t => job'[s] = job[s]
        PROVE  JobsNeedDaemon'
    <2>1. up  BY <1>1 DEF JobsNeedDaemon, Idle
    <2> QED  BY <1>1, <2>1, Zenon DEF JobsNeedDaemon
  <1>2. ASSUME UNCHANGED <<job, up>> \/ (UNCHANGED job /\ up')
        PROVE  JobsNeedDaemon'
    BY <1>2 DEF JobsNeedDaemon
  <1>3. ASSUME NEW t \in Threads, NEW path \in Paths, NEW u \in Users, NEW f \in Fingers,
               BeginEnroll(t, path, u, f)
        PROVE  JobsNeedDaemon'
    <2>1. up /\ up' = up /\ \A s \in Threads : s # t => job'[s] = job[s]
      BY <1>0, <1>3, Zenon DEF BeginEnroll
    <2> QED  BY <1>1, <2>1, Zenon
  <1>4. ASSUME NEW t \in Threads, Scan(t) \/ Store(t) \/ StoreFails(t)
        PROVE  JobsNeedDaemon'
    <2>1. job[t].phase \in {"scan", "store"}  BY <1>4, Zenon DEF Scan, Store, StoreFails
    <2>2. up' = up  BY <1>4, Zenon DEF Scan, Store, StoreFails
    <2>3. \A s \in Threads : s # t => job'[s] = job[s]
      BY <1>0, <1>4, Zenon DEF Scan, Scanned, ScanFails, Store, StoreFails
    <2>4. job[t].phase # "idle"  BY <2>1, Zenon
    <2> QED  BY <1>1, <2>2, <2>3, <2>4, Zenon
  <1>5. ASSUME NEW u \in Users, DeleteAll(u) \/ \E f \in Fingers : DeleteEnrollment(u, f)
        PROVE  JobsNeedDaemon'
    BY <1>2, <1>5, Zenon DEF DeleteAll, DeleteEnrollment
  <1>6. ASSUME ClearChip \/ \E n \in Limits : ReloadLimit(n) \/ Start(n)
        PROVE  JobsNeedDaemon'
    BY <1>2, <1>6, Zenon DEF ClearChip, ReloadLimit, Start
  <1>7. ASSUME Crash
        PROVE  JobsNeedDaemon'
    BY <1>7, Zenon DEF Crash, JobsNeedDaemon
  <1>8. ASSUME UNCHANGED storeVars
        PROVE  JobsNeedDaemon'
    BY <1>2, <1>8, Zenon DEF storeVars
  <1> QED  BY <1>3, <1>4, <1>5, <1>6, <1>7, <1>8, Zenon DEF StoreNext

\* Thread t alone may come to store, with the print of the latest scan.
OnlyScans(t) ==
  \A s \in Threads : Storing(s)' =>
    \/ Storing(s) /\ job'[s].print = job[s].print
    \/ s = t /\ job'[s].print = scans + 1 /\ scans' = scans + 1

\* Such a step keeps pending prints fresh.
LEMMA FreshStays ==
  ASSUME Restorable, StoreTypes, scans' \in Nat, scans <= scans',
         memory' = memory \/ (~up' /\ memory' = Empty), UNCHANGED files,
         NEW t, OnlyScans(t)
  PROVE  FreshPrints'
  <1> DEFINE n == scans + 1
  <1>1. \A u \in Users : Held(u)' \subseteq Held(u)
    <2>1. \A u \in Users : PrintsOf(Empty[u]) = {}  BY DEF PrintsOf, Empty
    <2> QED  BY <2>1, Zenon DEF Held
  <1>2. /\ scans \in Nat /\ n \notin 1..scans /\ 1..scans \subseteq 1..scans'
        /\ scans' = n => n \in 1..scans'
    BY DEF StoreTypes
  <1>7. \A s \in Threads : Storing(s)' =>
          \/ Storing(s) /\ job'[s].print = job[s].print
          \/ s = t /\ job'[s].print = n /\ scans' = n
    BY Zenon DEF OnlyScans
  <1> HIDE DEF n
  <1>3. \A u \in Users : n \notin Held(u)
    BY <1>2, Zenon DEF Restorable, OwnPrints
  <1>4. \A s \in Threads : Storing(s) => job[s].print # n
    BY <1>2, Zenon DEF Restorable, FreshPrints
  <1>5. ASSUME NEW s \in Threads, Storing(s)'
        PROVE  job'[s].print \in 1..scans' /\ \A u \in Users : job'[s].print \notin Held(u)'
    <2>1. CASE Storing(s) /\ job'[s].print = job[s].print
      BY <1>1, <1>2, <2>1, Zenon DEF Restorable, FreshPrints
    <2>2. CASE s = t /\ job'[s].print = n /\ scans' = n
      BY <1>1, <1>2, <1>3, <2>2, Zenon
    <2> QED  BY <1>5, <1>7, <2>1, <2>2, Zenon
  <1>6. ASSUME NEW r \in Threads, NEW s \in Threads, Storing(r)', Storing(s)', job'[r].print = job'[s].print
        PROVE  r = s
    <2>1. CASE Storing(r) /\ job'[r].print = job[r].print /\ Storing(s) /\ job'[s].print = job[s].print
      BY <1>6, <2>1, Zenon DEF Restorable, FreshPrints
    <2> QED  BY <1>4, <1>6, <1>7, <2>1, Zenon
  <1> QED  BY <1>5, <1>6, Zenon DEF FreshPrints

\* The scan, the steps before and after it that store nothing, and the end of
\* the daemon.
LEMMA QuietRestores ==
  ASSUME StoreTypes, Restorable, UNCHANGED <<files, key, durable>>, up' => up,
         memory' = memory \/ (~up' /\ memory' = Empty),
         scans' \in Nat, scans <= scans',
         NEW t, OnlyScans(t)
  PROVE  Restorable'
  <1>1. FreshPrints'  BY FreshStays, Zenon
  <1> QED  BY <1>1, OthersRestore, Zenon

LEMMA ScanRestores ==
  ASSUME StoreTypes, Restorable, NEW t \in Threads, Scan(t)
  PROVE  Restorable'
  <1>1. /\ UNCHANGED <<up, memory, files, key, durable>>
        /\ \E kept \in {chip, {}} : Scanned(t, kept) \/ ScanFails(t, kept)
    BY Zenon DEF Scan
  <1>2. PICK kept \in {chip, {}} : Scanned(t, kept) \/ ScanFails(t, kept)  BY <1>1, Zenon
  <1>3. scans \in Nat /\ job \in [Threads -> Job]  BY Zenon DEF StoreTypes
  <1>4. \A s \in Threads : s # t => job'[s] = job[s]
    BY <1>2, <1>3, Zenon DEF Scanned, ScanFails
  <1>5. CASE Scanned(t, kept)
    <2>1. job[t].phase = "scan"  BY Zenon DEF Scan
    <2>2. job[t] \in [phase : Phases, path : Paths, uid : Users, finger : Fingers, print : Nat]
      BY <1>3, <2>1 DEF Job, Idle
    <2> DEFINE e == [[job[t] EXCEPT !.phase = "store"] EXCEPT !.print = scans + 1]
    <2>3. job' = [job EXCEPT ![t] = e]  BY <1>3, <1>5, Zenon DEF Scanned
    <2>4. e.print = scans + 1
      <3>1. ASSUME NEW r \in [phase : Phases, path : Paths, uid : Users, finger : Fingers, print : Nat]
            PROVE  [r EXCEPT !.phase = "store"]
                     \in [phase : Phases, path : Paths, uid : Users, finger : Fingers, print : Nat]
        BY Zenon DEF Phases
      <3>2. ASSUME NEW r \in [phase : Phases, path : Paths, uid : Users, finger : Fingers, print : Nat]
            PROVE  [r EXCEPT !.print = scans + 1].print = scans + 1
        BY Zenon
      <3> QED  BY <2>2, <3>1, <3>2, Zenon
    <2> HIDE DEF e
    <2>5. job'[t].print = scans + 1  BY <1>3, <2>3, <2>4, Zenon
    <2>6. scans' = scans + 1  BY <1>5, Zenon DEF Scanned
    <2>7. scans' \in Nat /\ scans <= scans'  BY <1>3, <2>6
    <2>8. OnlyScans(t)  BY <1>4, <2>5, <2>6, Zenon DEF Storing, OnlyScans
    <2> QED  BY <1>1, <2>7, <2>8, QuietRestores, Zenon
  <1>6. CASE ScanFails(t, kept)
    <2>1. job' = [job EXCEPT ![t] = Idle] /\ scans' = scans  BY <1>6, Zenon DEF ScanFails
    <2>2. scans' \in Nat /\ scans <= scans'  BY <1>3, <2>1
    <2>3. ~Storing(t)'  BY <1>3, <2>1, Zenon DEF Storing, Idle
    <2>4. OnlyScans(t)  BY <1>4, <2>3, Zenon DEF Storing, OnlyScans
    <2> QED  BY <1>1, <2>2, <2>4, QuietRestores, Zenon
  <1> QED  BY <1>2, <1>5, <1>6, Zenon

LEMMA RestoreStep ==
  ASSUME RestoreInv, [StoreNext]_storeVars
  PROVE  /\ RestoreInv'
         /\ (faults \subseteq {"save"} /\ ~up /\ up') => durable \subseteq Prints(memory')
  <1>1. StoreTypes' /\ FilesHaveKeys' /\ JobsNeedDaemon'
    BY StoreStep, JobsStep, Zenon DEF RestoreInv
  <1>2. faults' = faults
    BY Zenon DEF StoreNext, storeVars, BeginEnroll, Scan, Store, StoreFails, DeleteEnrollment,
       DeleteAll, ClearChip, ReloadLimit, Crash, Start
  <1>3. SUFFICES ASSUME faults \subseteq {"save"}
                 PROVE  Restorable' /\ (~up /\ up' => durable \subseteq Prints(memory'))
    BY <1>1, <1>2, Zenon DEF RestoreInv
  <1> DEFINE Goal == Restorable' /\ (~up /\ up' => durable \subseteq Prints(memory'))
  <1>4. StoreTypes /\ FilesHaveKeys /\ Restorable /\ scans \in Nat /\ scans <= scans /\ job \in [Threads -> Job]
    BY <1>3 DEF RestoreInv, StoreTypes
  <1>5. \A t \in Threads : Storing(t) => up
    BY DEF RestoreInv, JobsNeedDaemon, Storing, Idle
  <1>6. ASSUME UNCHANGED <<files, key, durable, scans>>, up' => up,
               memory' = memory \/ (~up' /\ memory' = Empty),
               \A s \in Threads : Storing(s)' => Storing(s) /\ job'[s].print = job[s].print
        PROVE  Goal
    <2>1. scans' \in Nat /\ scans <= scans'  BY <1>4, <1>6, Zenon
    <2>2. OnlyScans(Main)  BY <1>6, Zenon DEF OnlyScans
    <2>3. Restorable'  BY <1>4, <1>6, <2>1, <2>2, QuietRestores, Zenon
    <2> QED  BY <1>6, <2>3, Zenon
  <1>7. ASSUME NEW t \in Threads, NEW path \in Paths, NEW u \in Users, NEW f \in Fingers,
               BeginEnroll(t, path, u, f)
        PROVE  Goal
    <2>1. job' = [job EXCEPT ![t] =
            [phase |-> "scan", path |-> path, uid |-> u, finger |-> f, print |-> 0]]
      BY <1>7, Zenon DEF BeginEnroll
    <2>2. \A s \in Threads : Storing(s)' => Storing(s) /\ job'[s].print = job[s].print
      BY <1>4, <2>1, Zenon DEF Storing
    <2> QED  BY <1>6, <1>7, <2>2, Zenon DEF BeginEnroll
  <1>8. ASSUME NEW t \in Threads, Scan(t)  PROVE Goal
    <2>1. up' = up  BY <1>8, Zenon DEF Scan
    <2> QED  BY <1>4, <1>8, <2>1, ScanRestores, Zenon
  <1>9. ASSUME NEW t \in Threads, Store(t)  PROVE Goal
    <2>1. up /\ up' = up  BY <1>5, <1>9, Zenon DEF Store, Storing
    <2> QED  BY <1>3, <1>4, <1>9, <2>1, StoreRestores, Zenon
  <1>10. ASSUME NEW t \in Threads, StoreFails(t)  PROVE Goal
    <2>1. job' = [job EXCEPT ![t] = Idle]  BY <1>10, Zenon DEF StoreFails
    <2>2. \A s \in Threads : Storing(s)' => Storing(s) /\ job'[s].print = job[s].print
      BY <1>4, <2>1, Zenon DEF Storing, Idle
    <2> QED  BY <1>6, <1>10, <2>2, Zenon DEF StoreFails
  <1>11. ASSUME NEW u \in Users, DeleteAll(u) \/ \E f \in Fingers : DeleteEnrollment(u, f)
         PROVE  Goal
    <2>1. up  BY <1>11, Zenon DEF DeleteAll, DeleteEnrollment
    <2> QED  BY <1>3, <1>4, <1>11, <2>1, DeletesRestore, Zenon
  <1>12. ASSUME ClearChip \/ (\E n \in Limits : ReloadLimit(n)) \/ UNCHANGED storeVars
         PROVE  Goal
    <2>1. UNCHANGED <<files, key, durable, scans, up, memory, job>>
      BY <1>12, Zenon DEF ClearChip, ReloadLimit, storeVars
    <2> QED  BY <1>6, <2>1, Zenon DEF Storing
  <1>13. ASSUME Crash  PROVE Goal
    <2>1. job' = [t \in Threads |-> Idle]  BY <1>13, Zenon DEF Crash
    <2>2. \A s \in Threads : ~Storing(s)'  BY <2>1, Zenon DEF Storing, Idle
    <2> QED  BY <1>6, <1>13, <2>2, Zenon DEF Crash
  <1>14. ASSUME NEW n \in Limits, Start(n)  PROVE Goal
    <2>1. \A t \in Threads : ~Storing(t)  BY <1>5, <1>14, Zenon DEF Start
    <2> QED  BY <1>3, <1>4, <1>14, <2>1, StartRestores, Zenon
  <1> HIDE DEF Goal
  <1>15. Goal
    BY <1>7, <1>8, <1>9, <1>10, <1>11, <1>12, <1>13, <1>14, Zenon DEF StoreNext
  <1> QED  BY <1>15, Zenon DEF Goal

\* bio_daemon_load_enrollments after any sequence of saves, half-finished saves,
\* deletions and crashes: nothing that a save wrote and nobody removed is lost.
THEOREM RestartsLoseNothing == StoreSpec => RestartRestores
  <1>1. StoreInit => RestoreInv
    <2> SUFFICES ASSUME StoreInit PROVE RestoreInv
      BY Zenon
    <2>1. StoreTypes /\ FilesHaveKeys  BY StoreStarts, Zenon
    <2>2. \A t \in Threads : job[t] = Idle /\ ~Storing(t)  BY Zenon DEF StoreInit, Storing, Idle
    <2>3. \A u \in Users : Held(u) = {}  BY DEF StoreInit, Held, Empty, NoFile, PrintsOf
    <2>4. Restorable
      BY <2>2, <2>3, Zenon DEF StoreInit, Restorable, FilesCurrent, DurableIsHeld, OwnPrints, FreshPrints
    <2> QED  BY <2>1, <2>2, <2>4, Zenon DEF RestoreInv, JobsNeedDaemon
  <1>2. RestoreInv /\ [StoreNext]_storeVars => RestoreInv'  BY RestoreStep, Zenon
  <1>3. RestoreInv /\ [StoreNext]_storeVars =>
          [(faults \subseteq {"save"} /\ ~up /\ up') => durable \subseteq Prints(memory')]_storeVars
    BY RestoreStep, Zenon
  <1> QED  BY <1>1, <1>2, <1>3, PTL DEF StoreSpec, RestartRestores

-----------------------------------------------------------------------------
(* The sessions.                                                            *)

\* Tokens in the table have been drawn.
TokensDrawn == \A i \in Slots : sessions[i].token <= drawn

SessionInv ==
  /\ TypeOK
  /\ CountMatchesActive
  /\ NoneOutOfReach
  /\ TokensDrawn
  /\ TokensUnique
  /\ VerifiedWasProved
  /\ NeverFromTheFuture

USE SessionAssumption

\* The search range is a non-empty initial part of the array.
LEMMA UsableFacts ==
  ASSUME NEW n \in 1..MaxSlots
  PROVE  /\ Capacity(n) = n
         /\ 0..(Capacity(n) - 1) \subseteq Slots
  BY DEF Capacity, Slots

\* The active slots are finitely many, so that counting them makes sense.
LEMMA ActiveFinite ==
  /\ IsFiniteSet(Active)
  /\ Cardinality(Active) \in Nat
  /\ \A S \in SUBSET Active : /\ IsFiniteSet(S)
                              /\ Cardinality(S) \in Nat
                              /\ Cardinality(S) <= Cardinality(Active)
                              /\ Cardinality(Active \ S)
                                   = Cardinality(Active) - Cardinality(S)
<1>1. IsFiniteSet(Slots)
  BY FS_Interval DEF Slots
<1>2. IsFiniteSet(Active)
  BY <1>1, FS_Subset, Zenon DEF Active
<1>3. ASSUME NEW S \in SUBSET Active
      PROVE  /\ IsFiniteSet(S)
             /\ Cardinality(S) \in Nat
             /\ Cardinality(S) <= Cardinality(Active)
             /\ Cardinality(Active \ S) = Cardinality(Active) - Cardinality(S)
  <2>1. Active \cap S = S
    BY Zenon
  <2> QED
    BY <1>2, <2>1, FS_Subset, FS_Difference, FS_CardinalityType, Zenon
<1> QED
  BY <1>2, <1>3, FS_CardinalityType, Zenon

\* A step that ends the sessions of S, one decrement each, keeps the count.
LEMMA CountAfterRemoval ==
  ASSUME CountMatchesActive, NEW S \in SUBSET Active,
         Active' = Active \ S, count' = Minus(Cardinality(S))
  PROVE  CountMatchesActive'
  BY ActiveFinite, Zenon DEF CountMatchesActive, Minus

\* The slots of Deactivate(S): only the active flag changes, only in S.
LEMMA DeactivateFacts ==
  ASSUME TypeOK, NEW S \in SUBSET Slots
  PROVE  /\ Deactivate(S) \in [Slots -> Session]
         /\ \A i \in Slots :
              /\ Deactivate(S)[i].active = (sessions[i].active /\ i \notin S)
              /\ Deactivate(S)[i].verified = sessions[i].verified
              /\ Deactivate(S)[i].uid = sessions[i].uid
              /\ Deactivate(S)[i].sender = sessions[i].sender
              /\ Deactivate(S)[i].created = sessions[i].created
              /\ Deactivate(S)[i].token = sessions[i].token
<1> DEFINE d(i) == IF i \in S THEN [sessions[i] EXCEPT !.active = FALSE]
                              ELSE sessions[i]
<1>1. ASSUME NEW i \in Slots
      PROVE  /\ d(i) \in Session
             /\ d(i).active = (sessions[i].active /\ i \notin S)
             /\ d(i).verified = sessions[i].verified
             /\ d(i).uid = sessions[i].uid
             /\ d(i).sender = sessions[i].sender
             /\ d(i).created = sessions[i].created
             /\ d(i).token = sessions[i].token
  <2>1. sessions[i] \in Session
    BY Zenon DEF TypeOK
  <2>2. CASE i \in S
    BY <2>1, <2>2, Zenon DEF Session
  <2>3. CASE i \notin S
    BY <2>1, <2>3, Zenon DEF Session
  <2> QED
    BY <2>2, <2>3, Zenon
<1>2. Deactivate(S) = [i \in Slots |-> d(i)]
  BY Zenon DEF Deactivate
<1> HIDE DEF d
<1> QED
  BY <1>1, <1>2, Zenon

\* A step that only ends sessions and changes nothing else of the live ones.
Shrinks(S) ==
  /\ sessions' \in [Slots -> Session]
  /\ \A i \in Slots :
       /\ sessions'[i].active = (sessions[i].active /\ i \notin S)
       /\ sessions'[i].active => /\ sessions'[i].verified = sessions[i].verified
                                 /\ sessions'[i].created = sessions[i].created
                                 /\ sessions'[i].token = sessions[i].token
       /\ sessions'[i].token \in {NoToken, sessions[i].token}

\* Such a step keeps the whole invariant when the limit still covers the rest.
LEMMA ShrinkStep ==
  ASSUME SessionInv, NEW S \in SUBSET Active, Shrinks(S),
         count' = Minus(Cardinality(S)),
         maxSessions' \in 1..MaxSlots, maxAge' \in Ages,
         now' = now, drawn' = drawn, proved' = proved,
         Active \ S \subseteq Usable'
  PROVE  SessionInv'
<1>1. Active' = Active \ S
  BY Zenon DEF Active, Shrinks
<1>2. CountMatchesActive'
  BY <1>1, CountAfterRemoval, Zenon DEF SessionInv
<1>3. TypeOK'
  <2>0. Cardinality(S) \in Nat
    BY ActiveFinite, Zenon
  <2>1. count' \in Nat
    BY <2>0 DEF SessionInv, TypeOK, Minus
  <2> QED
    BY <2>1, Zenon DEF SessionInv, TypeOK, Shrinks
<1>4. NoneOutOfReach'
  BY <1>1, Zenon DEF NoneOutOfReach
<1>5. TokensDrawn'
  BY DEF SessionInv, TokensDrawn, Shrinks, TypeOK, NoToken
<1>6. TokensUnique' /\ VerifiedWasProved' /\ NeverFromTheFuture'
  <2>1. TokensUnique'
    <3>1. \A i \in Active' : i \in Active /\ sessions'[i].token = sessions[i].token
      BY <1>1, Zenon DEF Shrinks, Active
    <3>2. TokensUnique
      BY Zenon DEF SessionInv
    <3> QED
      BY ONLY <3>1, <3>2, Zenon DEF TokensUnique
  <2>2. VerifiedWasProved'
    BY <1>1, Zenon DEF SessionInv, VerifiedWasProved, Shrinks, Active
  <2>3. NeverFromTheFuture'
    BY <1>1, Zenon DEF SessionInv, NeverFromTheFuture, Shrinks, Active
  <2> QED
    BY <2>1, <2>2, <2>3, Zenon
<1> QED
  BY <1>2, <1>3, <1>4, <1>5, <1>6, Zenon DEF SessionInv

\* The zeroed table of a new daemon satisfies the invariant.
LEMMA InitSession == Init => SessionInv
<1> SUFFICES ASSUME Init PROVE SessionInv
  BY Zenon
<1>1. Wiped \in Session /\ ~Wiped.active /\ Wiped.token = 0
  BY DEF Wiped, Session, NoToken
<1>2. Active = {}
  BY <1>1, Zenon DEF Init, Active
<1>3. TypeOK
  BY <1>1 DEF Init, TypeOK
<1>4. CountMatchesActive
  BY <1>2, FS_EmptySet, Zenon DEF Init, CountMatchesActive
<1>5. TokensDrawn
  BY <1>1 DEF Init, TokensDrawn
<1> QED
  BY <1>2, <1>3, <1>4, <1>5, Zenon DEF SessionInv, NoneOutOfReach, TokensUnique,
     VerifiedWasProved, NeverFromTheFuture

\* create_session, in either of its uses, keeps the invariant.
LEMMA CreateStep ==
  ASSUME SessionInv, NEW uid \in Uids, NEW s \in Senders,
         NEW verified \in BOOLEAN, NEW ok \in BOOLEAN,
         Create(uid, s, verified, ok),
         UNCHANGED <<maxSessions, maxAge, now>>
  PROVE  SessionInv'
<1> USE DEF SessionInv
<1>0. Usable \subseteq Slots /\ Usable' = Usable
  BY UsableFacts, Zenon DEF TypeOK, Usable, Capacity
<1>1. CASE UNCHANGED <<sessions, count, drawn, proved>>
  BY <1>0, <1>1, Zenon DEF TypeOK, CountMatchesActive, NoneOutOfReach, TokensDrawn,
     TokensUnique, VerifiedWasProved, NeverFromTheFuture, Active
<1>2. ASSUME NEW i \in First(Candidates),
             drawn' = drawn + 1,
             sessions' = [sessions EXCEPT ![i] =
               [active |-> TRUE, verified |-> verified, uid |-> uid,
                sender |-> s, created |-> now, token |-> drawn + 1]],
             count' = (IF sessions[i].active THEN Minus(1) ELSE count) + 1,
             proved' = IF verified THEN proved \cup {drawn + 1} ELSE proved
      PROVE  SessionInv'
  <2>1. i \in Usable /\ i \in Slots
    BY <1>0, <1>2, Zenon DEF First, Candidates, Reusable, Oldest, Older
  <2> DEFINE new == [active |-> TRUE, verified |-> verified, uid |-> uid,
                     sender |-> s, created |-> now, token |-> drawn + 1]
  <2>2. new \in Session
    <3>1. now \in Int /\ drawn + 1 \in Nat /\ s \in Senders \cup {NoSender}
      BY DEF TypeOK
    <3> QED
      BY <3>1, Zenon DEF Session
  <2>3. /\ sessions' \in [Slots -> Session]
        /\ sessions'[i] = new
        /\ \A j \in Slots : j # i => sessions'[j] = sessions[j]
    BY <1>2, <2>1, <2>2, Zenon DEF TypeOK
  <2>4. /\ new.active /\ new.token = drawn + 1 /\ new.created = now
        /\ new.verified = verified
    BY Zenon
  <2> HIDE DEF new
  <2>5. Active' = Active \cup {i}
    BY <2>1, <2>3, <2>4, Zenon DEF Active
  <2>6. count \in Nat /\ (i \in Active => count >= 1)
    <3>1. CASE i \in Active
      <4>1. Cardinality(Active) # 0
        BY <3>1, ActiveFinite, FS_EmptySet, Zenon
      <4> QED
        BY <4>1, ActiveFinite DEF CountMatchesActive
    <3> QED
      BY <3>1, ActiveFinite, Zenon DEF CountMatchesActive
  <2>7. CountMatchesActive'
    <3>1. sessions[i].active <=> i \in Active
      BY <2>1, Zenon DEF Active
    <3>2. Cardinality(Active \cup {i}) =
             IF i \in Active THEN Cardinality(Active) ELSE Cardinality(Active) + 1
      BY ActiveFinite, FS_AddElement, Zenon
    <3> QED
      BY <1>2, <2>5, <2>6, <3>1, <3>2 DEF CountMatchesActive, Minus
  <2>8. TypeOK'
    BY <1>2, <2>3, <2>6 DEF TypeOK, Minus
  <2>9. TokensDrawn'
    <3>1. \A j \in Slots : sessions[j].token \in Nat /\ sessions[j].token <= drawn
      BY Zenon DEF TypeOK, Session, TokensDrawn
    <3>2. ASSUME NEW j \in Slots PROVE sessions'[j].token <= drawn'
      <4>1. CASE j = i
        <5>1. sessions'[j].token = drawn'
          BY <1>2, <2>3, <2>4, <4>1, Zenon
        <5>2. drawn' \in Nat
          BY <1>2 DEF TypeOK
        <5> QED
          BY ONLY <5>1, <5>2
      <4>2. CASE j # i
        <5>1. sessions'[j].token = sessions[j].token
          BY <2>3, <4>2, Zenon
        <5> QED
          BY <1>2, <3>1, <5>1 DEF TypeOK
      <4> QED
        BY <4>1, <4>2, Zenon
    <3> QED
      BY <3>2, Zenon DEF TokensDrawn
  <2>9a. NoneOutOfReach'
    BY <1>0, <2>1, <2>5, Zenon DEF NoneOutOfReach
  <2>9b. NeverFromTheFuture'
    BY <2>1, <2>3, <2>4, <2>5 DEF NeverFromTheFuture, TypeOK, Active
  <2>10. TokensUnique'
    <3>1. \A j \in Slots : sessions[j].token \in Nat /\ sessions[j].token <= drawn
      BY Zenon DEF TypeOK, Session, TokensDrawn
    <3>2. \A j \in Active' : \/ j = i /\ sessions'[j].token = drawn + 1
                             \/ /\ j # i /\ j \in Active
                                /\ sessions'[j].token = sessions[j].token
                                /\ sessions[j].token # drawn + 1
      <4> SUFFICES ASSUME NEW j \in Active', j # i
                   PROVE  /\ j \in Active
                          /\ sessions'[j].token = sessions[j].token
                          /\ sessions[j].token # drawn + 1
        BY <2>3, <2>4, Zenon
      <4>1. j \in Slots /\ j \in Active
        BY <2>5, Zenon DEF Active
      <4> QED
        BY <2>3, <3>1, <4>1 DEF TypeOK
    <3>3. drawn + 1 # NoToken
      BY DEF TypeOK, NoToken
    <3>4. \A j \in Active' : sessions'[j].token # NoToken
      BY <3>2, <3>3, Zenon DEF TokensUnique
    <3>5. \A j, k \in Active' : sessions'[j].token = sessions'[k].token => j = k
      BY <3>2, Zenon DEF TokensUnique
    <3> QED
      BY <3>4, <3>5, Zenon DEF TokensUnique
  <2>11. VerifiedWasProved'
    BY <1>2, <2>1, <2>3, <2>4, <2>5, Zenon DEF VerifiedWasProved, Active
  <2> QED
    BY <2>7, <2>8, <2>9, <2>9a, <2>9b, <2>10, <2>11, Zenon
<1>3. ASSUME NEW i \in First(Candidates),
             sessions' = [sessions EXCEPT ![i] = Wiped],
             count' = IF sessions[i].active THEN Minus(1) ELSE count,
             UNCHANGED <<drawn, proved>>
      PROVE  SessionInv'
  <2>1. i \in Usable /\ i \in Slots
    BY <1>0, <1>3, Zenon DEF First, Candidates, Reusable, Oldest, Older
  <2>2. Wiped \in Session /\ ~Wiped.active /\ Wiped.token = NoToken
    BY DEF Wiped, Session, NoToken
  <2>3. /\ sessions' \in [Slots -> Session]
        /\ sessions'[i] = Wiped
        /\ \A j \in Slots : j # i => sessions'[j] = sessions[j]
    BY <1>3, <2>1, <2>2, Zenon DEF TypeOK
  <2> DEFINE S == Active \cap {i}
  <2>4. Shrinks(S)
    BY <2>1, <2>2, <2>3, Zenon DEF Shrinks, Active, TypeOK, Session
  <2>5. count' = Minus(Cardinality(S))
    <3>1. CASE i \in Active
      <4>0. Cardinality({i}) = 1
        BY FS_Singleton, Zenon
      <4>1. Cardinality({i}) = 1 /\ S = {i}
        BY <3>1, <4>0, Zenon
      <4> QED
        BY <1>3, <3>1, <4>1, Zenon DEF Active
    <3>2. CASE i \notin Active
      <4>1. S = {} /\ ~sessions[i].active
        BY <2>1, <3>2, Zenon DEF Active
      <4>2. Cardinality(S) = 0
        BY <4>1, FS_EmptySet, Zenon
      <4> QED
        BY <1>3, <4>1, <4>2 DEF TypeOK, Minus
    <3> QED
      BY <3>1, <3>2, Zenon
  <2>6. Active \ S \subseteq Usable'
    BY <1>0, Zenon DEF NoneOutOfReach
  <2> QED
    BY <1>3, <2>4, <2>5, <2>6, ShrinkStep, Zenon DEF TypeOK
<1> QED
  BY <1>1, <1>2, <1>3, Zenon DEF Create, New

\* Deactivating lapsed or pruned sessions is a shrinking step.
LEMMA DeactivateShrinks ==
  ASSUME TypeOK, NEW S \in SUBSET Active, sessions' = Deactivate(S)
  PROVE  Shrinks(S)
<1>1. S \in SUBSET Slots
  BY Zenon DEF Active
<1> QED
  BY <1>1, DeactivateFacts DEF Shrinks

\* Verify expires sessions on its way to the match and sets at most the flag of
\* the matching one, after a scan that proves its holder.
LEMMA VerifyStep ==
  ASSUME SessionInv, NEW s \in Senders, NEW t \in 1..MaxTokens, NEW outcome,
         NEW scan \in ScanTimes, Verify(s, t, outcome, scan)
  PROVE  SessionInv'
<1> USE DEF SessionInv
<1> DEFINE S == Before(Matching(t))
           kept == Deactivate(S)
<1>0. Usable \subseteq Slots /\ Usable' = Usable
  BY UsableFacts, Zenon DEF TypeOK, Usable, Verify, Capacity
<1>1. S \in SUBSET Active
  BY <1>0, Zenon DEF Before, Lapsed, Active
<1>2. /\ count' = Minus(Cardinality(S))
      /\ UNCHANGED <<maxSessions, maxAge, drawn>>
  BY Zenon DEF Verify
<1>3. Active \ S \subseteq Usable'
  BY <1>0, Zenon DEF NoneOutOfReach
<1>4. CASE sessions' = kept /\ UNCHANGED <<now, proved>>
  <2>1. Shrinks(S)
    BY <1>1, <1>4, DeactivateShrinks, Zenon
  <2> QED
    BY <1>1, <1>2, <1>3, <1>4, <2>1, ShrinkStep, Zenon DEF TypeOK
<1>5. ASSUME NEW i \in First(Matching(t)),
             now' = now + scan,
             sessions' = [kept EXCEPT ![i].verified =
                   CASE outcome = "match" -> TRUE
                     [] outcome = "unsigned" -> FALSE
                     [] OTHER -> @],
             proved' = IF outcome = "match" THEN proved \cup {t} ELSE proved
      PROVE  SessionInv'
  <2> DEFINE v == CASE outcome = "match" -> TRUE
                    [] outcome = "unsigned" -> FALSE
                    [] OTHER -> kept[i].verified
  <2>1. i \in Slots /\ i \in Active /\ sessions[i].token = t
    BY <1>0, <1>5, Zenon DEF First, Matching, Active
  <2>2. /\ kept \in [Slots -> Session]
        /\ \A j \in Slots :
             /\ kept[j].active = (sessions[j].active /\ j \notin S)
             /\ kept[j].verified = sessions[j].verified
             /\ kept[j].created = sessions[j].created
             /\ kept[j].token = sessions[j].token
    <3>1. S \in SUBSET Slots
      BY <1>1, Zenon DEF Active
    <3>2. TypeOK
      BY Zenon
    <3> QED
      BY ONLY <3>1, <3>2, DeactivateFacts, Zenon
  <2>3. v \in BOOLEAN /\ (v => outcome = "match" \/ sessions[i].verified)
    BY <2>1, <2>2, Zenon DEF Session
  <2> HIDE DEF kept
  <2>4. sessions' = [kept EXCEPT ![i] = [kept[i] EXCEPT !.verified = v]]
    BY <1>5, Zenon
  <2> HIDE DEF v
  <2>5. kept[i] \in Session
    BY <2>1, <2>2, Zenon
  <2>6. LET e == [kept[i] EXCEPT !.verified = v]
        IN  /\ e \in Session /\ e.verified = v /\ e.active = kept[i].active
            /\ e.created = kept[i].created /\ e.token = kept[i].token
    BY <2>3, <2>5, Zenon DEF Session
  <2>7. /\ sessions' \in [Slots -> Session]
        /\ \A j \in Slots :
             /\ sessions'[j].active = (sessions[j].active /\ j \notin S)
             /\ sessions'[j].created = sessions[j].created
             /\ sessions'[j].token = sessions[j].token
             /\ sessions'[j].verified = IF j = i THEN v ELSE sessions[j].verified
    <3>1. sessions' \in [Slots -> Session]
      BY <2>1, <2>2, <2>4, <2>6, Zenon
    <3>2. sessions'[i] = [kept[i] EXCEPT !.verified = v]
      BY <2>1, <2>2, <2>4, Zenon
    <3>3. \A j \in Slots : j # i => sessions'[j] = kept[j]
      BY <2>2, <2>4, Zenon
    <3>4. ASSUME NEW j \in Slots
          PROVE  /\ sessions'[j].active = (sessions[j].active /\ j \notin S)
                 /\ sessions'[j].created = sessions[j].created
                 /\ sessions'[j].token = sessions[j].token
                 /\ sessions'[j].verified = IF j = i THEN v ELSE sessions[j].verified
      <4>1. CASE j = i
        BY <2>1, <2>2, <2>6, <3>2, <4>1, Zenon
      <4>2. CASE j # i
        BY <2>2, <3>3, <4>2, Zenon
      <4> QED
        BY <4>1, <4>2, Zenon
    <3> QED
      BY <3>1, <3>4, Zenon
  <2>8. Active' = Active \ S
    BY <2>7, Zenon DEF Active
  <2>9. CountMatchesActive'
    BY <1>1, <1>2, <2>8, CountAfterRemoval, Zenon
  <2>10. TypeOK'
    <3>0. Cardinality(S) \in Nat
      BY <1>1, ActiveFinite, Zenon
    <3>1. count' \in Nat
      BY <1>2, <3>0 DEF TypeOK, Minus
    <3>2. now' \in Nat /\ proved' \subseteq Nat
      BY <1>5 DEF TypeOK
    <3> QED
      BY <1>2, <2>7, <3>1, <3>2, Zenon DEF TypeOK
  <2>11. TokensDrawn' /\ NoneOutOfReach'
    BY <1>0, <1>2, <2>7, <2>8, Zenon DEF TokensDrawn, NoneOutOfReach
  <2>12. TokensUnique'
    <3>1. \A j \in Active' : j \in Active /\ sessions'[j].token = sessions[j].token
      BY <2>7, <2>8, Zenon DEF Active
    <3> QED
      BY <3>1, Zenon DEF TokensUnique
  <2>13. VerifiedWasProved'
    <3> SUFFICES ASSUME NEW j \in Active', sessions'[j].verified
                 PROVE  sessions'[j].token \in proved'
      BY Zenon DEF VerifiedWasProved
    <3>1. j \in Slots /\ j \in Active
      BY <2>8, Zenon DEF Active
    <3>2. sessions'[j].token = sessions[j].token
      BY <2>7, <3>1, Zenon
    <3>3. sessions[j].verified \/ (j = i /\ outcome = "match")
      BY <2>3, <2>7, <3>1, Zenon
    <3>4. sessions[j].verified => sessions[j].token \in proved
      BY <3>1, Zenon DEF VerifiedWasProved
    <3> QED
      BY <1>5, <2>1, <3>2, <3>3, <3>4
  <2>14. NeverFromTheFuture'
    <3> SUFFICES ASSUME NEW j \in Active' PROVE sessions'[j].created <= now'
      BY Zenon DEF NeverFromTheFuture
    <3>1. j \in Slots /\ j \in Active
      BY <2>8, Zenon DEF Active
    <3>2. sessions[j].created \in Int /\ sessions[j].created <= now
      BY <3>1, Zenon DEF NeverFromTheFuture, TypeOK, Session
    <3>3. sessions'[j].created = sessions[j].created
      BY <2>7, <3>1, Zenon
    <3>4. now' \in Nat /\ now' >= now
      BY <1>5 DEF TypeOK
    <3>5. now \in Nat
      BY Zenon DEF TypeOK
    <3> QED
      BY ONLY <3>2, <3>3, <3>4, <3>5
  <2> QED
    BY <2>9, <2>10, <2>11, <2>12, <2>13, <2>14, Zenon
<1> QED
  BY <1>4, <1>5, Zenon DEF Verify

\* ExtendSession moves creation times, never past now, and ends expired sessions.
LEMMA ExtendStep ==
  ASSUME SessionInv, NEW s \in Senders, NEW secs \in Extensions,
         ExtendSession(s, secs)
  PROVE  SessionInv'
<1> USE DEF SessionInv
<1> DEFINE mine == {i \in Usable : Owns(s, i) /\ sessions[i].verified}
           gone == {i \in mine : Expired(i)}
           e(i) == CASE i \in gone -> [sessions[i] EXCEPT !.active = FALSE]
             [] i \in mine \ gone ->
                  [sessions[i] EXCEPT !.created = ExtendedCreated(i, secs)]
             [] OTHER -> sessions[i]
<1>0. Usable \subseteq Slots /\ Usable' = Usable
  BY UsableFacts, Zenon DEF TypeOK, Usable, ExtendSession, Capacity
<1>1. gone \in SUBSET Active
  BY <1>0, Zenon DEF Owns, Active
<1>2. /\ sessions' = [i \in Slots |-> e(i)]
      /\ count' = Minus(Cardinality(gone))
      /\ UNCHANGED <<maxSessions, maxAge, now, drawn, proved>>
  BY Zenon DEF ExtendSession
<1>3. \A i \in Slots : ExtendedCreated(i, secs) \in Int /\ ExtendedCreated(i, secs) <= now
  <2> SUFFICES ASSUME NEW i \in Slots
               PROVE  ExtendedCreated(i, secs) \in Int /\ ExtendedCreated(i, secs) <= now
    BY Zenon
  <2>1. sessions[i].created \in Int /\ maxAge \in Nat /\ now \in Nat /\ secs \in Nat
    BY Zenon DEF TypeOK, Session
  <2> DEFINE sum == maxAge - (now - sessions[i].created) + secs
  <2>2. sum \in Int
    BY <2>1
  <2> HIDE DEF sum
  <2>3. sum % UintRange \in Int
    BY <2>2
  <2>4. ExtendedCreated(i, secs) =
          now - (maxAge - (IF sum % UintRange > maxAge THEN maxAge ELSE sum % UintRange))
    BY Zenon DEF ExtendedCreated, sum
  <2> QED
    BY ONLY <2>1, <2>3, <2>4
<1>4. ASSUME NEW i \in Slots
      PROVE  /\ e(i) \in Session
             /\ e(i).active = (sessions[i].active /\ i \notin gone)
             /\ e(i).verified = sessions[i].verified
             /\ e(i).token = sessions[i].token
             /\ e(i).created = sessions[i].created \/ e(i).created <= now
  <2>1. sessions[i] \in Session
    BY Zenon DEF TypeOK
  <2> HIDE DEF mine
  <2>2. CASE i \in gone
    BY <2>1, <2>2, Zenon DEF Session
  <2>3. CASE i \in mine \ gone
    <3>1. e(i) = [sessions[i] EXCEPT !.created = ExtendedCreated(i, secs)]
      BY <2>3, Zenon
    <3> HIDE DEF e, gone
    <3> QED
      BY <1>3, <2>1, <2>3, <3>1, Zenon DEF Session
  <2>4. CASE i \notin mine
    <3>1. e(i) = sessions[i]
      BY <2>4, Zenon
    <3>2. i \notin gone
      BY <2>4, Zenon
    <3> HIDE DEF e, gone
    <3> QED
      BY <2>1, <3>1, <3>2, Zenon DEF Session
  <2> QED
    BY <2>2, <2>3, <2>4, Zenon
<1> HIDE DEF e, gone, mine
<1>5. /\ sessions' \in [Slots -> Session]
      /\ \A i \in Slots : sessions'[i] = e(i)
  BY <1>2, <1>4, Zenon
<1>6. Active' = Active \ gone
  BY <1>4, <1>5, Zenon DEF Active
<1>7. CountMatchesActive'
  BY <1>1, <1>2, <1>6, CountAfterRemoval, Zenon
<1>8. TypeOK'
  <2>0. Cardinality(gone) \in Nat
    BY <1>1, ActiveFinite, Zenon
  <2>1. count' \in Nat
    BY <1>2, <2>0 DEF TypeOK, Minus
  <2> QED
    BY <1>2, <1>5, <2>1, Zenon DEF TypeOK
<1>9. TokensDrawn' /\ NoneOutOfReach'
  BY <1>0, <1>2, <1>4, <1>5, <1>6, Zenon DEF TokensDrawn, NoneOutOfReach
<1>10. TokensUnique'
  <2>1. \A j \in Active' : j \in Active /\ sessions'[j].token = sessions[j].token
    BY <1>4, <1>5, <1>6, Zenon DEF Active
  <2> QED
    BY <2>1, Zenon DEF TokensUnique
<1>11. VerifiedWasProved'
  BY <1>2, <1>4, <1>5, <1>6, Zenon DEF VerifiedWasProved, Active
<1>12. NeverFromTheFuture'
  BY <1>2, <1>4, <1>5, <1>6, Zenon DEF NeverFromTheFuture, Active
<1> QED
  BY <1>7, <1>8, <1>9, <1>10, <1>11, <1>12, Zenon

\* RevokeSession wipes the caller's slots and counts each of them out.
LEMMA RevokeStep ==
  ASSUME SessionInv, NEW s \in Senders, RevokeSession(s)
  PROVE  SessionInv'
<1> USE DEF SessionInv
<1> DEFINE mine == {i \in Usable : Owns(s, i)}
<1>0. Usable \subseteq Slots /\ Usable' = Usable
  BY UsableFacts, Zenon DEF TypeOK, Usable, RevokeSession, Capacity
<1>1. mine \in SUBSET Active
  BY <1>0, Zenon DEF Owns, Active
<1>2. /\ sessions' = [i \in Slots |-> IF i \in mine THEN Wiped ELSE sessions[i]]
      /\ count' = Minus(Cardinality(mine))
      /\ UNCHANGED <<maxSessions, maxAge, now, drawn, proved>>
  BY Zenon DEF RevokeSession
<1> HIDE DEF mine
<1>3. Wiped \in Session /\ ~Wiped.active /\ Wiped.token = NoToken
  BY DEF Wiped, Session, NoToken
<1>4. Shrinks(mine)
  BY <1>2, <1>3, Zenon DEF Shrinks, TypeOK, Session
<1> QED
  BY <1>0, <1>1, <1>2, <1>4, ShrinkStep, Zenon DEF TypeOK, NoneOutOfReach

\* Every step of the daemon keeps the invariant.
LEMMA SessionStep == SessionInv /\ [Next]_vars => SessionInv'
<1> SUFFICES ASSUME SessionInv, [Next]_vars PROVE SessionInv'
  BY Zenon
<1> USE DEF SessionInv
<1>0. Usable \subseteq Slots
  BY UsableFacts, Zenon DEF TypeOK, Usable
<1>1. ASSUME NEW s \in Senders, NEW uid \in Uids, NEW ok \in BOOLEAN,
             CreateSession(s, uid, ok)
      PROVE  SessionInv'
  BY <1>1, CreateStep, Zenon DEF CreateSession
<1>2. ASSUME NEW s \in Senders, NEW ok \in BOOLEAN, Authenticate(s, ok)
      PROVE  SessionInv'
  BY <1>2, CreateStep, Zenon DEF Authenticate
<1>3. ASSUME NEW s \in Senders, IsAuthenticated(s)
      PROVE  SessionInv'
  <2> DEFINE S == Before(Authenticated(s))
  <2>1. S \in SUBSET Active
    BY <1>0, Zenon DEF Before, Lapsed, Active
  <2>2. Usable' = Usable
    BY <1>3, Zenon DEF Usable, IsAuthenticated, Capacity
  <2>3. Shrinks(S)
    BY <1>3, <2>1, DeactivateShrinks, Zenon DEF IsAuthenticated
  <2> QED
    BY <1>3, <2>1, <2>2, <2>3, ShrinkStep, Zenon
       DEF IsAuthenticated, TypeOK, NoneOutOfReach
<1>4. CASE Sweep
  <2>1. Lapsed \in SUBSET Active
    BY <1>0, Zenon DEF Lapsed, Active
  <2>2. Usable' = Usable
    BY <1>4, Zenon DEF Usable, Sweep, Capacity
  <2>3. Shrinks(Lapsed)
    BY <1>4, <2>1, DeactivateShrinks, Zenon DEF Sweep
  <2> QED
    BY <1>4, <2>1, <2>2, <2>3, ShrinkStep, Zenon DEF Sweep, TypeOK, NoneOutOfReach
<1>5. ASSUME NEW n \in 1..MaxSlots, NEW age \in Ages, Reload(n, age)
      PROVE  SessionInv'
  <2>1. Pruned(n) \in SUBSET Active
    BY Zenon DEF Pruned
  <2>2. Shrinks(Pruned(n))
    BY <1>5, <2>1, DeactivateShrinks, Zenon DEF Reload
  <2>3. Active \ Pruned(n) \subseteq Usable'
    BY <1>5, UsableFacts DEF Pruned, Usable, Reload, Active, Slots
  <2> QED
    BY <1>5, <2>1, <2>2, <2>3, ShrinkStep, Zenon DEF Reload
<1>6. CASE Tick
  <2>1. /\ UNCHANGED <<sessions, count, maxSessions, maxAge, drawn, proved>>
        /\ now' = now + 1
    BY <1>6, Zenon DEF Tick
  <2>2. now \in Nat /\ \A i \in Slots : sessions[i].created \in Int
    BY Zenon DEF TypeOK, Session
  <2>3. TypeOK' /\ CountMatchesActive'
    BY <2>1, <2>2 DEF TypeOK, CountMatchesActive, Active
  <2>4. NoneOutOfReach' /\ TokensDrawn' /\ TokensUnique' /\ VerifiedWasProved'
    BY <2>1, Zenon DEF NoneOutOfReach, TokensDrawn, TokensUnique, VerifiedWasProved, Active, Usable
  <2>5. NeverFromTheFuture'
    BY <2>1, <2>2 DEF NeverFromTheFuture, Active
  <2> QED
    BY <2>3, <2>4, <2>5, Zenon
<1>7. CASE UNCHANGED vars
  BY <1>7, Zenon DEF vars, TypeOK, CountMatchesActive, NoneOutOfReach, TokensDrawn,
     TokensUnique, VerifiedWasProved, NeverFromTheFuture, Active, Usable
<1> QED
  BY <1>1, <1>2, <1>3, <1>4, <1>5, <1>6, <1>7, Zenon,
     VerifyStep, ExtendStep, RevokeStep DEF Next

\* The inductive invariant holds in every state the session table can be in.
THEOREM SessionInvariant == Spec => []SessionInv
  BY InitSession, SessionStep, PTL DEF Spec

\* The table keeps its types; d->session_count counts the active slots, and its
\* underflow guards never bite; prune_sessions_to_capacity leaves no session
\* beyond the search range; find_session's first match is the only one.
THEOREM TableAgrees == Spec => []TableConsistent
  BY SessionInvariant, PTL DEF SessionInv, TableConsistent

\* "verified" is set only by a check in the same session, whatever the slot
\* held before.
THEOREM VerifiedOnlyByProof == Spec => []VerifiedWasProved
  BY SessionInvariant, PTL DEF SessionInv

\* ExtendSession, wrapping or not, never moves created past now, and never
\* shortens a session as long as its guint sum fits: the remaining time is not
\* negative and what is added is not either.
THEOREM ExtensionsAreSound == Spec => []ExtensionsSound
<1>1. SessionInv => ExtendNeverShortens
  <2> SUFFICES ASSUME SessionInv, NEW i \in Active, NEW secs \in Extensions,
                      ~Expired(i), maxAge + secs < UintRange
               PROVE  ExtendedCreated(i, secs) >= sessions[i].created
    BY Zenon DEF ExtendNeverShortens
  <2>1. /\ sessions[i].created \in Int /\ sessions[i].created <= now
        /\ maxAge \in Nat /\ now \in Nat /\ secs \in Nat
    BY Zenon DEF SessionInv, TypeOK, Session, NeverFromTheFuture, Active
  <2> DEFINE sum == maxAge - (now - sessions[i].created) + secs
  <2>2. sum \in 0..(UintRange - 1) /\ sum >= maxAge - (now - sessions[i].created)
    BY <2>1 DEF Expired
  <2>3. ExtendedCreated(i, secs) =
          now - (maxAge - (IF sum % UintRange > maxAge THEN maxAge ELSE sum % UintRange))
    BY Zenon DEF ExtendedCreated
  <2> HIDE DEF sum
  <2>4. sum % UintRange = sum
    BY <2>2
  <2> QED
    BY <2>1, <2>2, <2>3, <2>4
<1> QED
  BY <1>1, SessionInvariant, PTL DEF SessionInv, ExtensionsSound

\* What a step may leave active: a session that was, with its token, or a new one
\* with the token just drawn.
RevivesNothing ==
  \A i \in Slots : sessions'[i].active =>
    \/ sessions[i].active /\ sessions'[i].token = sessions[i].token
    \/ drawn' = drawn + 1 /\ sessions'[i].token = drawn + 1

\* No method, sweep or reload makes an ended session active again.
LEMMA NoRevival ==
  ASSUME SessionInv, Next
  PROVE  RevivesNothing
<1> USE DEF SessionInv
<1>0. Usable \subseteq Slots
  BY UsableFacts, Zenon DEF TypeOK, Usable
<1>1. ASSUME NEW uid \in Uids, NEW s \in Senders, NEW verified \in BOOLEAN,
             NEW ok \in BOOLEAN, Create(uid, s, verified, ok)
      PROVE  RevivesNothing
  <2>1. CASE UNCHANGED <<sessions, count, drawn, proved>>
    BY <2>1, Zenon DEF RevivesNothing
  <2>2. ASSUME NEW i \in First(Candidates), drawn' = drawn + 1,
               sessions' = [sessions EXCEPT ![i] = New(i, uid, s, verified)]
        PROVE  RevivesNothing
    BY <2>2, Zenon DEF RevivesNothing, New, TypeOK
  <2>3. ASSUME NEW i \in First(Candidates), sessions' = [sessions EXCEPT ![i] = Wiped]
        PROVE  RevivesNothing
    BY <2>3, Zenon DEF RevivesNothing, Wiped, TypeOK
  <2> QED
    BY <1>1, <2>1, <2>2, <2>3, Zenon DEF Create
<1>2. ASSUME NEW S \in SUBSET Slots, sessions' = Deactivate(S)
      PROVE  RevivesNothing
  BY <1>2, DeactivateFacts, Zenon DEF RevivesNothing
<1>3. ASSUME NEW s \in Senders, NEW t \in 1..MaxTokens, NEW outcome,
             NEW scan \in ScanTimes, Verify(s, t, outcome, scan)
      PROVE  RevivesNothing
  <2> DEFINE S == Before(Matching(t))
             kept == Deactivate(S)
  <2>1. S \in SUBSET Slots
    BY <1>0, Zenon DEF Before, Lapsed
  <2>2. CASE sessions' = kept
    BY <1>2, <2>1, <2>2, Zenon
  <2>3. ASSUME NEW i \in Slots, NEW v, sessions' = [kept EXCEPT ![i].verified = v]
        PROVE  RevivesNothing
    <3>1. /\ kept \in [Slots -> Session]
          /\ \A j \in Slots : /\ kept[j].active => sessions[j].active
                              /\ kept[j].token = sessions[j].token
      BY <2>1, DeactivateFacts, Zenon
    <3> HIDE DEF kept
    <3>2. \A j \in Slots : /\ sessions'[j].active = kept[j].active
                          /\ sessions'[j].token = kept[j].token
      BY <2>3, <3>1, Zenon DEF Session
    <3> QED
      BY <3>1, <3>2, Zenon DEF RevivesNothing
  <2> QED
    BY <1>0, <1>3, <2>2, <2>3, Zenon DEF Verify, First, Matching
<1>4. ASSUME NEW s \in Senders, NEW secs \in Extensions, ExtendSession(s, secs)
      PROVE  RevivesNothing
  <2>1. ASSUME NEW i \in Slots
        PROVE  /\ sessions'[i].active => sessions[i].active
               /\ sessions'[i].token = sessions[i].token
    <3>1. sessions[i] \in Session
      BY Zenon DEF TypeOK
    <3>2. \/ sessions'[i] = [sessions[i] EXCEPT !.active = FALSE]
          \/ sessions'[i] = [sessions[i] EXCEPT !.created = ExtendedCreated(i, secs)]
          \/ sessions'[i] = sessions[i]
      BY <1>4, Zenon DEF ExtendSession
    <3> QED
      BY <3>1, <3>2, Zenon DEF Session
  <2> QED
    BY <2>1, Zenon DEF RevivesNothing
<1>5. ASSUME NEW s \in Senders, RevokeSession(s)
      PROVE  RevivesNothing
  BY <1>5, Zenon DEF RevivesNothing, RevokeSession, Wiped
<1>6. ASSUME NEW s \in Senders, IsAuthenticated(s)
      PROVE  RevivesNothing
  <2>1. Before(Authenticated(s)) \in SUBSET Slots
    BY <1>0, Zenon DEF Before, Lapsed
  <2> QED
    BY <1>2, <1>6, <2>1, Zenon DEF IsAuthenticated
<1>7. CASE Sweep
  <2>1. Lapsed \in SUBSET Slots
    BY <1>0, Zenon DEF Lapsed
  <2> QED
    BY <1>2, <1>7, <2>1, Zenon DEF Sweep
<1>8. ASSUME NEW n \in 1..MaxSlots, NEW age \in Ages, Reload(n, age)
      PROVE  RevivesNothing
  <2>1. Pruned(n) \in SUBSET Slots
    BY Zenon DEF Pruned, Active
  <2> QED
    BY <1>2, <1>8, <2>1, Zenon DEF Reload
<1>9. CASE Tick
  BY <1>9, Zenon DEF Tick, RevivesNothing
<1>10. \A s \in Senders : UidOf[s] \in Uids
  BY Zenon
<1> QED
  BY <1>1, <1>3, <1>4, <1>5, <1>6, <1>7, <1>8, <1>9, <1>10, Zenon
     DEF Next, CreateSession, Authenticate

\* A token is live only from the moment it is drawn until its session ends, and
\* never again: expiry, eviction, revocation and pruning are final.
THEOREM EndedStaysEnded == Spec => DeadStaysDead
<1>1. SessionInv /\ [Next]_vars => [Live' \subseteq Live \cup (drawn + 1)..drawn']_vars
  <2> SUFFICES ASSUME SessionInv, Next
               PROVE  Live' \subseteq Live \cup (drawn + 1)..drawn'
    BY Zenon
  <2>1. drawn \in Nat /\ RevivesNothing
    BY NoRevival, Zenon DEF SessionInv, TypeOK
  <2>2. ASSUME NEW i \in Active'
        PROVE  sessions'[i].token \in Live \cup (drawn + 1)..drawn'
    BY <2>1, <2>2 DEF RevivesNothing, Live, Active
  <2> QED
    BY <2>2, Zenon DEF Live
<1> QED
  BY <1>1, SessionInvariant, PTL DEF Spec, DeadStaysDead

\* The step part of EvictsOnlyTheOldest.
EvictsFairly ==
  drawn' > drawn =>
    \A i \in Usable : (sessions[i].active /\ ~Expired(i) /\ sessions'[i] # sessions[i]) =>
      \A j \in Usable : /\ sessions[j].active /\ ~Expired(j)
                        /\ sessions[i].created <= sessions[j].created

\* create_session takes a free or lapsed slot if there is one, and else the
\* oldest session's; no other operation draws a token.
LEMMA FairEviction ==
  ASSUME SessionInv, Next
  PROVE  EvictsFairly
<1>1. /\ Usable \subseteq Slots /\ drawn \in Nat /\ now \in Nat
      /\ \A i \in Slots : sessions[i].created \in Int
      /\ sessions \in [Slots -> Session]
  BY UsableFacts, Zenon DEF SessionInv, TypeOK, Usable, Session
<1>2. ASSUME NEW uid, NEW s, NEW verified, NEW ok, Create(uid, s, verified, ok)
      PROVE  EvictsFairly
  <2>1. CASE drawn' = drawn
    BY <1>1, <2>1 DEF EvictsFairly
  <2>2. ASSUME NEW k \in First(Candidates),
               sessions' = [sessions EXCEPT ![k] = New(k, uid, s, verified)]
        PROVE  EvictsFairly
    <3> SUFFICES ASSUME NEW i \in Usable, sessions[i].active, ~Expired(i),
                        sessions'[i] # sessions[i],
                        NEW j \in Usable
                 PROVE  /\ sessions[j].active /\ ~Expired(j)
                        /\ sessions[i].created <= sessions[j].created
      BY Zenon DEF EvictsFairly
    <3>1. i = k
      BY <1>1, <2>2, Zenon
    <3>2. i \in Candidates /\ i \notin Reusable
      BY <2>2, <3>1, Zenon DEF First, Reusable
    <3>3. Reusable = {} /\ i \in Oldest
      BY <3>2, Zenon DEF Candidates
    <3>4. sessions[j].active /\ ~Expired(j)
      BY <3>3, Zenon DEF Reusable
    <3>5. sessions[i].created <= sessions[j].created
      <4>1. sessions[i].created < now /\ i \in Slots /\ j \in Slots
        BY <1>1, <3>3, Zenon DEF Oldest, Older
      <4>2. CASE j \in Older
        BY <3>3, <4>2, Zenon DEF Oldest
      <4>3. CASE j \notin Older
        <5>1. ~(sessions[j].created < now)
          BY <4>3, Zenon DEF Older
        <5> QED
          BY <1>1, <4>1, <5>1
      <4> QED
        BY <4>2, <4>3, Zenon
    <3> QED
      BY <3>4, <3>5, Zenon
  <2> QED
    BY <1>2, <2>1, <2>2, Zenon DEF Create
<1>3. CASE drawn' = drawn
  BY <1>1, <1>3 DEF EvictsFairly
<1> QED
  BY <1>2, <1>3, Zenon DEF Next, CreateSession, Authenticate, Verify, IsAuthenticated, ExtendSession,
                    RevokeSession, Sweep, Reload, Tick

\* A session ends once, and a new one pushes out another only from a table full
\* of live sessions, and then the oldest.
THEOREM EndsOnceAndFairly == Spec => EndsAreFinal
<1>1. SessionInv /\ [Next]_vars => [EvictsFairly]_vars
  BY FairEviction, Zenon
<1>2. Spec => [][EvictsFairly]_vars
  BY <1>1, SessionInvariant, PTL DEF Spec
<1> QED
  BY <1>2, EndedStaysEnded, Zenon DEF EndsAreFinal, EvictsOnlyTheOldest, EvictsFairly

=============================================================================
