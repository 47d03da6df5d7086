---------------------------- MODULE RateLimiter ----------------------------
(***************************************************************************)
(* The per-user verification rate limiter of hiya-authd                    *)
(* (src/daemon/bio_daemon.c): a table of limiters with a ring of failure   *)
(* times each, and the verifications that use it.  A verification checks   *)
(* the limiter, scans with no lock held, and reports the result later, so  *)
(* several verifications of one user can be past the check at once (the    *)
(* main thread's and those of the fprintd worker threads).                 *)
(***************************************************************************)
EXTENDS Integers, Sequences, FiniteSets

CONSTANTS Uids,
          Threads,        \* threads that verify
          TableSize,      \* 128
          RingSize,       \* 32
          MaxAttempts,    \* rate_limit_max_attempts
          Window,         \* rate_limit_window_seconds
          BaseLockout,    \* rate_limit_lockout_seconds
          MaxLockout,     \* 3600
          MaxDoublings,   \* 6
          MaxClock,       \* bound: latest second reached
          NoUid

ASSUME LimiterAssumption ==
  /\ {TableSize, RingSize, MaxAttempts, Window, BaseLockout, MaxLockout}
       \subseteq Nat \ {0}
  /\ MaxDoublings \in Nat /\ MaxClock \in Nat
  /\ NoUid \notin Uids

\* What the proofs use of powers of two.
ASSUME DoublingAssumption ==
  \A n \in 0..MaxDoublings : 2 ^ n \in Nat \ {0} /\ 2 ^ (n + 1) = 2 * 2 ^ n

VARIABLES
  limiters,     \* d->rate_limiters[0 .. rate_limiter_count - 1]
  now,          \* monotonic_seconds()
  verifying,    \* the user each thread verifies, past the check
  fails,        \* history: failure times of each user since its limiter was cleared
  lastLength    \* history: the last lockout of each user since a success

limiterVars == <<limiters, now, verifying, fails, lastLength>>

Ring == 0..(RingSize - 1)
Limiter == [uid : Uids, failures : [Ring -> Nat], idx : Nat,
            count : 0..RingSize, until : Nat, lockouts : Nat]
Fresh(u) == [uid |-> u, failures |-> [j \in Ring |-> 0], idx |-> 0,
             count |-> 0, until |-> 0, lockouts |-> 0]

Entries == 1..Len(limiters)
Has(u) == \E i \in Entries : limiters[i].uid = u
Locked(u) == \E i \in Entries : limiters[i].uid = u /\ limiters[i].until > now

\* Mutant: the lockout does not count.
LastFailure(i) ==
  LET times == {limiters[i].failures[j] : j \in Ring}
  IN  CHOOSE x \in times : \A y \in times : y <= x

\* A failure or a lockout end later than or equal to every other of the entry.
LastActivity(i) ==
  LET times == {limiters[i].failures[j] : j \in Ring} \cup {limiters[i].until}
  IN  CHOOSE x \in times : \A y \in times : y <= x

\* The first entry whose last activity is the oldest.
Victim == CHOOSE i \in Entries :
            /\ \A j \in Entries : LastActivity(i) <= LastActivity(j)
            /\ \A j \in 1..(i - 1) : LastActivity(i) < LastActivity(j)

\* Mutant: a user is not searched for first.
FoundUnsearched(u) == IF Len(limiters) < TableSize THEN Append(limiters, Fresh(u))
                      ELSE [limiters EXCEPT ![Victim] = Fresh(u)]

\* find_rate_limiter: the table with an entry for u, found, appended or put in
\* the place of the victim.
Found(u) == CASE Has(u) -> limiters
              [] ~Has(u) /\ Len(limiters) < TableSize -> Append(limiters, Fresh(u))
              [] OTHER -> [limiters EXCEPT ![Victim] = Fresh(u)]
IndexOf(u) == CHOOSE i \in 1..Len(Found(u)) : Found(u)[i].uid = u

\* The history of the users that still have a limiter.
Kept(table, h, none) ==
  [u \in Uids |-> IF \E i \in 1..Len(table) : table[i].uid = u THEN h[u] ELSE none]

LimiterInit ==
  /\ limiters = <<>>
  /\ now = 1
  /\ verifying = [t \in Threads |-> NoUid]
  /\ fails = [u \in Uids |-> <<>>]
  /\ lastLength = [u \in Uids |-> 0]

-----------------------------------------------------------------------------
\* check_verify_rate_limit, and the verification that goes on when it allows.
Begin(t, u) ==
  LET i == IndexOf(u)
      rl == Found(u)[i]
      over == rl.until > 0 /\ rl.until <= now
  IN  /\ verifying[t] = NoUid
      /\ limiters' = IF over
           THEN [Found(u) EXCEPT ![i].until = 0, ![i].count = 0, ![i].idx = 0]
           ELSE Found(u)
      /\ verifying' = IF rl.until > now THEN verifying
                                        ELSE [verifying EXCEPT ![t] = u]
      /\ fails' = [Kept(Found(u), fails, <<>>) EXCEPT ![u] = IF over THEN <<>> ELSE @]
      /\ lastLength' = Kept(Found(u), lastLength, 0)
      /\ UNCHANGED now

\* No device, no enrollment, shutdown or a TPM policy denial: nothing recorded.
Abandon(t) ==
  /\ verifying[t] # NoUid
  /\ verifying' = [verifying EXCEPT ![t] = NoUid]
  /\ UNCHANGED <<limiters, now, fails, lastLength>>

Smaller(a, b) == IF a < b THEN a ELSE b

LockoutLength(lockouts) ==
  Smaller(BaseLockout * 2 ^ Smaller(lockouts, MaxDoublings), MaxLockout)

\* Mutant: a failure as old as the window is not counted.
RecentStrictly(rl) ==
  Cardinality({j \in Ring : j < rl.count /\ now - rl.failures[j] < Window})

\* The failures counted before the new one is put in the ring.
RecentIn(rl) ==
  Cardinality({j \in Ring : j < rl.count /\ now - rl.failures[j] <= Window})

\* record_verify_failure.
Fail(t) ==
  LET u == verifying[t]
      i == IndexOf(u)
      rl == Found(u)[i]
      locks == RecentIn(rl) + 1 >= MaxAttempts
  IN  /\ u # NoUid
      /\ limiters' = [Found(u) EXCEPT ![i] =
           [rl EXCEPT !.failures[rl.idx % RingSize] = now,
                      !.idx = @ + 1,
                      !.count = Smaller(@ + 1, RingSize),
                      !.until = IF locks THEN now + LockoutLength(rl.lockouts) ELSE @,
                      !.lockouts = IF locks THEN @ + 1 ELSE @]]
      /\ verifying' = [verifying EXCEPT ![t] = NoUid]
      /\ fails' = [Kept(Found(u), fails, <<>>) EXCEPT ![u] = Append(@, now)]
      /\ lastLength' = [Kept(Found(u), lastLength, 0) EXCEPT ![u] =
                          IF locks THEN LockoutLength(rl.lockouts) ELSE @]
      /\ UNCHANGED now

\* reset_verify_rate_limit.
Succeed(t) ==
  LET u == verifying[t]
  IN  /\ u # NoUid
      /\ limiters' = [Found(u) EXCEPT ![IndexOf(u)] = Fresh(u)]
      /\ verifying' = [verifying EXCEPT ![t] = NoUid]
      /\ fails' = [Kept(Found(u), fails, <<>>) EXCEPT ![u] = <<>>]
      /\ lastLength' = [Kept(Found(u), lastLength, 0) EXCEPT ![u] = 0]
      /\ UNCHANGED now

Tick ==
  /\ now < MaxClock
  /\ now' = now + 1
  /\ UNCHANGED <<limiters, verifying, fails, lastLength>>

LimiterNext ==
  \/ \E t \in Threads : \E u \in Uids : Begin(t, u)
  \/ \E t \in Threads : Abandon(t)
  \/ \E t \in Threads : Fail(t)
  \/ \E t \in Threads : Succeed(t)
  \/ Tick

LimiterSpec == LimiterInit /\ [][LimiterNext]_limiterVars

-----------------------------------------------------------------------------
(* Properties.                                                             *)

LimiterTypes ==
  /\ limiters \in Seq(Limiter) /\ Len(limiters) <= TableSize
  /\ now \in Nat
  /\ verifying \in [Threads -> Uids \cup {NoUid}]
  /\ fails \in [Uids -> Seq(Nat)]
  /\ lastLength \in [Uids -> Nat]

\* A user never has two limiters, of which find_rate_limiter would use one.
OneLimiterPerUser ==
  \A i, j \in Entries : limiters[i].uid = limiters[j].uid => i = j

\* The table keeps its types and its limit, and one limiter per user.
TableConsistent == LimiterTypes /\ OneLimiterPerUser

\* A failure locks its user out exactly when max_attempts failures, this one
\* included, fall in the sliding window: the ring, its wrapping index and its
\* reset after an expired lockout forget no counted failure and revive none.
RecentFails(u) == Cardinality({k \in DOMAIN fails[u] : now - fails[u][k] <= Window})
LocksExactlyAtThreshold ==
  [][\A u \in Uids : Len(fails'[u]) > Len(fails[u]) =>
       /\ RecentFails(u)' >= MaxAttempts => Locked(u)'
       /\ RecentFails(u)' < MaxAttempts /\ ~Locked(u) => ~Locked(u)']_limiterVars

\* Successive lockouts double up to their cap until a verification succeeds,
\* although an expired lockout clears the failures it came from.
LockoutsEscalate ==
  [][\A u \in Uids :
       (lastLength[u] # 0 /\ lastLength'[u] # lastLength[u] /\ lastLength'[u] # 0) =>
         lastLength'[u] = Smaller(2 * lastLength[u], MaxLockout)]_limiterVars

\* A table at its limit drops a running lockout only when every entry is one.
EvictsLockedOnlyIfAllLocked ==
  [][\A u \in Uids : (Has(u) /\ ~Has(u)' /\ Locked(u)) =>
       \A i \in Entries : limiters[i].until > now]_limiterVars

\* Lockouts get longer until a success and are not dropped for room.
LockoutsStand == LockoutsEscalate /\ EvictsLockedOnlyIfAllLocked
=============================================================================
