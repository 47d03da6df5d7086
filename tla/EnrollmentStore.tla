-------------------------- MODULE EnrollmentStore --------------------------
(***************************************************************************)
(* The fingerprint enrollments of hiya-authd (src/daemon/bio_daemon.c): the *)
(* array in memory, the file per user it is saved to, the key the files are *)
(* authenticated with, and the templates a match-on-chip sensor keeps.      *)
(*                                                                          *)
(* Two code paths enroll: the D-Bus method Enroll on the main thread, and   *)
(* bio_daemon_enroll_user on the main thread or an fprintd worker.  Both     *)
(* check the capacity, scan with data_lock released, and check again.  A     *)
(* print stands for the template of one scan.  The array is kept per user:   *)
(* every search of it is for one user, and the order of the users in it      *)
(* changes with each load (readdir).                                        *)
(***************************************************************************)
EXTENDS Naturals, Sequences, FiniteSets

CONSTANTS Users, RootUser,
          Fingers, NoFinger,   \* NoFinger: finger 0 of a zeroed entry
          Main, Workers,       \* threads that enroll
          Limits,              \* values of max_enrollments_per_user
          MaxSavedUids,        \* 128, the uids a save collects
          FaultSets,           \* the sets of faults a behaviour may suffer: of
                               \* "save", "key" (short read), "load"
          MaxScans, MaxStarts, MaxKeys  \* bounds: scans, starts, keys made

ASSUME StoreAssumption ==
  /\ RootUser \in Users /\ IsFiniteSet(Users)
  /\ NoFinger \notin Fingers
  /\ Limits \subseteq Nat \ {0} /\ Limits # {}
  /\ MaxSavedUids \in Nat \ {0} /\ {MaxScans, MaxStarts, MaxKeys} \subseteq Nat

VARIABLES
  faults,    \* what may go wrong in this behaviour; never changes
  up,        \* the daemon runs
  memory,    \* d->enrollments, per user
  limit,     \* d->config.max_enrollments_per_user
  job,       \* the enrollment each thread is in
  clearing,  \* bio_daemon_delete_enrollments has yet to clear the sensor
  files,     \* <state_dir>/users/<uid>/enrollments.bin
  key,       \* the generation of enrollment_hmac.key; 0: none or truncated
  chip,      \* the prints in the sensor's own storage
  scans, starts,
  durable,   \* history: prints written to a file and not removed since
  deleted    \* history: prints whose deletion was reported done

storeVars == <<faults, up, memory, limit, job, clearing, files, key, chip, scans, starts,
          durable, deleted>>

Threads == {Main} \cup Workers
Entry == [finger : Fingers \cup {NoFinger}, print : Nat]
Zeroed == [finger |-> NoFinger, print |-> 0]
NoFile == [key |-> 0, entries |-> <<>>]
Paths == {"Enroll", "enroll_user"}
Phases == {"scan", "store"}
Idle == [phase |-> "idle"]
Job == {Idle} \cup [phase : Phases, path : Paths, uid : Users, finger : Fingers, print : Nat]

PrintsOf(entries) == {entries[i].print : i \in DOMAIN entries}
Prints(mem) == UNION {PrintsOf(mem[u]) : u \in Users}
Empty == [u \in Users |-> <<>>]
Present(mem) == {u \in Users : mem[u] # <<>>}
Verifies(u) == files[u] # NoFile /\ files[u].key = key

StoreInit ==
  /\ faults \in FaultSets
  /\ up = FALSE
  /\ memory = Empty
  /\ limit \in Limits
  /\ job = [t \in Threads |-> Idle]
  /\ clearing = FALSE
  /\ files = [u \in Users |-> NoFile]
  /\ key = 0
  /\ chip = {}
  /\ scans = 0 /\ starts = 0
  /\ durable = {} /\ deleted = {}

-----------------------------------------------------------------------------
\* get_enrollment_hmac_key: the key after a call; a short read replaces it.
KeyAfter(k) == \/ k = key
               \/ /\ k = key + 1 /\ key < MaxKeys
                  /\ key = 0 \/ "key" \in faults

\* Mutant: the loop over the uids ends one too early.
WrittenButOne(mem) ==
  {W \in SUBSET Present(mem) : Cardinality(W) + 1 = Cardinality(Present(mem))}

\* The uids a save writes.  It collects MaxSavedUids of those present; an I/O
\* error leaves one of them, or all from one on, with the file they had.
Written(mem) ==
  {W \in SUBSET Present(mem) :
     /\ Cardinality(W) <= MaxSavedUids
     /\ "save" \notin faults =>
          \/ W = Present(mem)
          \/ Cardinality(W) = MaxSavedUids}

\* Mutant: the file is written in place.
LeftTruncated(mem, u) == IF u \in Present(mem) THEN NoFile ELSE files[u]

\* The file a save leaves to a user it does not finish: the temporary file is
\* not renamed, and a user without entries is not visited.
Left(mem, u) == files[u]

\* bio_daemon_save_enrollments: a file is replaced as a whole (temporary file
\* and rename) or not at all.  The key is read again for each file.
Save(mem) ==
  \E W \in Written(mem), k \in {key, key + 1} :
    /\ KeyAfter(k) /\ (W # {} => k # 0)
    /\ \E old \in SUBSET W :
         /\ old # {} => key # 0
         /\ files' = [u \in Users |->
              IF u \in W THEN [key |-> IF u \in old THEN key ELSE k, entries |-> mem[u]]
                         ELSE Left(mem, u)]
    /\ key' = k
    /\ durable' = (durable \ (Prints(memory) \ Prints(mem)))
                    \cup UNION {PrintsOf(mem[u]) : u \in W}

\* Mutant: off by one.
OverFull(u) == Len(memory[u]) > limit

Full(u) == Len(memory[u]) >= limit

\* Both paths check the capacity before the scan.  Enroll runs on the main
\* thread; enroll_user on it too (StartFingerEnroll) or on a worker.
BeginEnroll(t, path, u, f) ==
  /\ up /\ job[t] = Idle
  /\ path = "Enroll" => t = Main
  /\ ~Full(u)
  /\ job' = [job EXCEPT ![t] =
       [phase |-> "scan", path |-> path, uid |-> u, finger |-> f, print |-> 0]]
  /\ UNCHANGED <<faults, up, memory, limit, clearing, files, key, chip, scans, starts,
                 durable, deleted>>

\* bio_fp_enroll and the sealing under fp_lock.  A sensor that knows the finger
\* refuses it; Enroll then clears the sensor and scans once more.
Scanned(t, kept) ==
  /\ scans < MaxScans
  /\ scans' = scans + 1
  /\ chip' = kept \cup {scans + 1}
  /\ job' = [job EXCEPT ![t].phase = "store", ![t].print = scans + 1]

ScanFails(t, kept) ==
  /\ chip' = kept
  /\ job' = [job EXCEPT ![t] = Idle]
  /\ UNCHANGED scans

Scan(t) ==
  /\ job[t].phase = "scan"
  /\ \/ Scanned(t, chip)
     \/ ScanFails(t, chip)
     \/ /\ chip # {} /\ job[t].path = "Enroll"
        /\ Scanned(t, {}) \/ ScanFails(t, {})
  /\ UNCHANGED <<faults, up, memory, limit, clearing, files, key, starts, durable, deleted>>

\* add_enrollment replaces the entry of the finger; enroll_user appends.
Added(path, entries, e) ==
  IF path = "Enroll" /\ \E i \in DOMAIN entries : entries[i].finger = e.finger
    THEN [i \in DOMAIN entries |->
            IF /\ entries[i].finger = e.finger
               /\ \A j \in 1..(i - 1) : entries[j].finger # e.finger
              THEN e ELSE entries[i]]
    ELSE Append(entries, e)

\* The second check of the capacity, under data_lock with what follows it.
Store(t) ==
  LET j == job[t]
      mem == [memory EXCEPT ![j.uid] =
                Added(j.path, @, [finger |-> j.finger, print |-> j.print])]
  IN  /\ j.phase = "store"
      /\ ~Full(j.uid)
      /\ memory' = mem
      /\ Save(mem)
      /\ job' = [job EXCEPT ![t] = Idle]
      /\ UNCHANGED <<faults, up, limit, clearing, chip, scans, starts, deleted>>

\* No room any more, no memory, or sealing failed where it is required.
StoreFails(t) ==
  /\ job[t].phase = "store"
  /\ job' = [job EXCEPT ![t] = Idle]
  /\ UNCHANGED <<faults, up, memory, limit, clearing, files, key, chip, scans, starts,
                 durable, deleted>>

-----------------------------------------------------------------------------
\* The first entry of the finger is taken out of the array.
Removed(entries, f) ==
  LET i == CHOOSE i \in DOMAIN entries :
             /\ entries[i].finger = f
             /\ \A j \in 1..(i - 1) : entries[j].finger # f
  IN  SubSeq(entries, 1, i - 1) \o SubSeq(entries, i + 1, Len(entries))

\* DeleteEnrollment and RemoveFinger.  Not held up by a scan of the main thread,
\* which dispatches other calls while it waits.
DeleteEnrollment(u, f) ==
  LET mem == [memory EXCEPT ![u] = Removed(@, f)]
  IN  /\ up
      /\ \E i \in DOMAIN memory[u] : memory[u][i].finger = f
      /\ memory' = mem
      /\ Save(mem)
      /\ deleted' = deleted \cup (Prints(memory) \ Prints(mem))
      /\ UNCHANGED <<faults, up, limit, job, clearing, chip, scans, starts>>

\* bio_daemon_delete_enrollments, up to the release of data_lock.
DeleteAll(u) ==
  LET mem == [memory EXCEPT ![u] = <<>>]
  IN  /\ up /\ ~clearing
      /\ memory' = mem
      /\ Save(mem)
      /\ clearing' = TRUE
      /\ deleted' = deleted \cup PrintsOf(memory[u])
      /\ UNCHANGED <<faults, up, limit, job, chip, scans, starts>>

\* Its last step, which may fail; the whole of ClearDevice.
ClearChip ==
  /\ up
  /\ chip' \in {chip, {}}
  /\ clearing' = FALSE
  /\ UNCHANGED <<faults, up, memory, limit, job, files, key, scans, starts, durable, deleted>>

\* SIGHUP.
ReloadLimit(n) ==
  /\ up
  /\ limit' = n
  /\ UNCHANGED <<faults, up, memory, job, clearing, files, key, chip, scans, starts,
                 durable, deleted>>

\* The daemon ends, in whatever it is doing.
Crash ==
  /\ up
  /\ up' = FALSE
  /\ memory' = Empty
  /\ job' = [t \in Threads |-> Idle]
  /\ clearing' = FALSE
  /\ UNCHANGED <<faults, limit, files, key, chip, scans, starts, durable, deleted>>

-----------------------------------------------------------------------------
\* bio_daemon_load_enrollments: files that do not verify are skipped.  The key
\* is read for each file; once it is replaced no other file verifies.
LoadAll ==
  \E k \in {key, key + 1}, R \in SUBSET {u \in Users : Verifies(u)} :
    /\ KeyAfter(k)
    /\ k # key => \E u \in Users : files[u] # NoFile
    /\ k = key => R = {u \in Users : Verifies(u)}
    /\ key' = k
    /\ memory' = [u \in Users |-> IF u \in R THEN files[u].entries ELSE <<>>]

\* It gives up on a file (no key, no memory) and frees the array, leaving the
\* count of what it had read; bio_daemon_create goes on with a zeroed array of
\* that count.
LoadGivesUp ==
  \E R \in SUBSET {u \in Users : Verifies(u)} :
    /\ "load" \in faults
    /\ \E u \in Users \ R : files[u] # NoFile
    /\ LET n == Cardinality({p \in R \X (1..MaxScans) : p[2] \in DOMAIN files[p[1]].entries})
       IN  memory' = [Empty EXCEPT ![RootUser] = [i \in 1..n |-> Zeroed]]
    /\ UNCHANGED key

\* bio_daemon_create.
Start(n) ==
  /\ ~up /\ starts < MaxStarts
  /\ up' = TRUE /\ starts' = starts + 1
  /\ limit' = n
  /\ LoadAll \/ LoadGivesUp
  /\ UNCHANGED <<faults, job, clearing, files, chip, scans, durable, deleted>>

StoreNext ==
  \/ \E t \in Threads, path \in Paths, u \in Users, f \in Fingers : BeginEnroll(t, path, u, f)
  \/ \E t \in Threads : Scan(t)
  \/ \E t \in Threads : Store(t)
  \/ \E t \in Threads : StoreFails(t)
  \/ \E u \in Users, f \in Fingers : DeleteEnrollment(u, f)
  \/ \E u \in Users : DeleteAll(u)
  \/ ClearChip
  \/ \E n \in Limits : ReloadLimit(n)
  \/ Crash
  \/ \E n \in Limits : Start(n)

StoreSpec == StoreInit /\ [][StoreNext]_storeVars

-----------------------------------------------------------------------------
(* Properties.                                                             *)

StoreTypes ==
  /\ faults \in FaultSets
  /\ up \in BOOLEAN /\ clearing \in BOOLEAN
  /\ memory \in [Users -> Seq(Entry)]
  /\ limit \in Limits
  /\ job \in [Threads -> Job]
  /\ files \in [Users -> [key : Nat, entries : Seq(Entry)]]
  /\ key \in Nat /\ scans \in Nat /\ starts \in Nat
  /\ chip \subseteq 1..scans
  /\ durable \subseteq Nat /\ deleted \subseteq Nat

\* An enrollment adds an entry only while its user is under the limit in force
\* at that moment, whatever other enrollments, deletions and reloads happened
\* between its first check and the end of its scan.
CapacityHolds ==
  [][\A u \in Users : (up /\ Len(memory'[u]) > Len(memory[u])) => Len(memory'[u]) <= limit]_storeVars

\* What a save has written is in memory again after every later restart, unless
\* it was deleted or replaced: neither a crash nor a save that fails half way
\* costs a user an enrollment that was on disk, as long as the key is read whole.
RestartRestores ==
  [][(faults \subseteq {"save"} /\ ~up /\ up') => durable \subseteq Prints(memory')]_storeVars

\* While saves succeed, the file of every user with an enrollment holds exactly
\* the entries in memory, in their order, under the key the next load reads.
MemoryIsOnDisk ==
  (faults = {} /\ up) => \A u \in Present(memory) : files[u] = [key |-> key, entries |-> memory[u]]

\* Memory and files keep their types and agree.
StoreConsistent == StoreTypes /\ MemoryIsOnDisk

\* bio_daemon.c:5904: "Persist deletion to disk".  What was deleted does not
\* come back.
DeletionPersists == deleted \cap Prints(memory) = {}
=============================================================================
