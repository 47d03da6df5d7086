--------------------------- MODULE DaemonThreads ---------------------------
(***************************************************************************)
(* The threads of hiya-authd and the locks they share: the main thread,    *)
(* which dispatches D-Bus calls and timers from the default GLib context,   *)
(* and the fprintd worker threads; data_lock, fp_lock, the sensor, the TPM  *)
(* context, and the end of the daemon.                                     *)
(*                                                                          *)
(* A call is a program of steps.  "verify" runs a context of its own, with   *)
(* a timeout.  "enroll" and "clear" run a loop on the default context        *)
(* (src/fingerprint/bio_fingerprint.c): on the main thread that loop         *)
(* dispatches further calls, which makes the main thread a stack of calls;   *)
(* on a worker it waits for the main thread, which owns the context, to      *)
(* dispatch the completion.                                                 *)
(***************************************************************************)
EXTENDS Naturals, Sequences, FiniteSets

CONSTANTS Main, Workers,
          MainOps,       \* calls the clients make of the main thread
          WorkerOps,     \* operations the workers are given
          MaxDepth,      \* bound: nested calls on the main thread
          Free           \* an unowned lock

ASSUME ThreadsAssumption ==
  /\ Main \notin Workers /\ Free \notin Workers \cup {Main}
  /\ MaxDepth \in Nat \ {0}

VARIABLES
  stack,      \* the calls each thread is in, the innermost last
  owner,      \* the thread that holds each lock
  phase,      \* how far bio_daemon_destroy is
  shutting    \* d->shutting_down

vars == <<stack, owner, phase, shutting>>

Threads == {Main} \cup Workers
Locks == {"data", "fp"}
Stages == {"loop", "barrier", "closing", "closed", "freed"}

-----------------------------------------------------------------------------
(* The programs.  A pair takes or releases a lock.  Programs that differ in  *)
(* one step are the branches of one function.                               *)

Take(l) == <<"take", l>>
Give(l) == <<"give", l>>
Do(what) == <<"do", what>>

\* Mutant: a return without the unlock.
BrieflyKept(l) == <<Take(l)>>

Briefly(l) == <<Take(l), Give(l)>>
\* fp_lock, and the shutting_down check the lock is taken with.
UnderFp(steps) == <<Take("fp"), Do("check")>> \o steps \o <<Give("fp")>>

\* Verify, VerifyUser and bio_daemon_verify_user, with plain and with sealed
\* templates.
VerifyCall == {Briefly("data") \o UnderFp(unseal \o <<Do("verify")>>) \o Briefly("data") :
                 unseal \in {<<>>, <<Do("tpm")>>}}

\* auto_unlock_user_vault, which Verify and Authenticate end with.
AutoUnlock == Briefly("data") \o UnderFp(<<Do("tpm")>>) \o Briefly("data")
VerifyThenUnlock == {verify \o AutoUnlock : verify \in VerifyCall}

\* The method Enroll, with and without a TPM.
EnrollCall == {Briefly("data") \o UnderFp(<<Do("enroll")>> \o seal) \o Briefly("data") :
                 seal \in {<<>>, <<Do("tpm")>>}}

\* bio_daemon_enroll_user: it seals with data_lock held, under fp_lock taken
\* again and without the check.
SealAgain == <<Take("fp"), Do("tpm"), Give("fp")>>
EnrollUser == {Briefly("data") \o UnderFp(<<Do("enroll")>>)
                 \o <<Take("data")>> \o seal \o <<Give("data")>> :
                 seal \in {<<>>, SealAgain}}

\* ClearDevice; bio_daemon_delete_enrollments, whose last step takes no lock.
ClearDevice == <<Take("fp"), Do("clear"), Give("fp")>>
DeleteAll == Briefly("data") \o <<Do("clear")>>

Programs(op) ==
  CASE op = "Verify" -> VerifyThenUnlock
    \* A face that matches makes up for a verification that gave up.
    [] op = "Authenticate" -> VerifyThenUnlock \cup {AutoUnlock}
    [] op = "VerifyUser" -> VerifyCall
    [] op = "Enroll" -> EnrollCall
    [] op = "StartFingerEnroll" -> EnrollUser
    [] op = "ClearDevice" -> {ClearDevice}
    [] op = "DeleteEnrolledFingers" -> {DeleteAll}
    [] op = "data" -> {Briefly("data")}
    [] op = "verify_user" -> VerifyCall
    [] op = "enroll_user" -> EnrollUser

Steps(ops) == UNION {UNION {{p[i] : i \in DOMAIN p} : p \in Programs(op)} : op \in ops}

-----------------------------------------------------------------------------
\* A call: what is left of its program, and whether it waits in a sensor
\* operation ("wait") or its loop has been told to quit ("quit").
Calls == [steps : Seq(Steps(MainOps \cup WorkerOps)) \ {<<>>},
          status : {"run", "wait", "quit"}]
Started(p) == [steps |-> p, status |-> "run"]

InCall(t) == stack[t] # <<>>
Top(t) == stack[t][Len(stack[t])]
Step(t) == Head(Top(t).steps)
Outer(t) == SubSeq(stack[t], 1, Len(stack[t]) - 1)

\* The innermost call goes on to its next step, or returns.
Goes(t) == stack' = [stack EXCEPT ![t] =
             IF Len(Top(t).steps) = 1 THEN Outer(t)
                                      ELSE Append(Outer(t), Started(Tail(Top(t).steps)))]
Returns(t) == stack' = [stack EXCEPT ![t] = Outer(t)]
Becomes(t, i, s) == stack' = [stack EXCEPT ![t][i].status = s]

OnDefault == {Do("enroll"), Do("clear")}
Sensor == OnDefault \cup {Do("verify")}
At(t, what) == InCall(t) /\ Top(t).status = "run" /\ Step(t) = what

\* The calls that have a sensor operation under way.
Using == {<<t, i>> \in Threads \X (1..MaxDepth) :
            i \in DOMAIN stack[t] /\ stack[t][i].status = "wait"}
WaitsOnDefault(t) == InCall(t) /\ Top(t).status = "wait" /\ Step(t) \in OnDefault

\* The main thread iterates the default context: in its own loop, in the loop
\* that closes the sensor, or in the loop of a call.
MainIterates == \/ ~InCall(Main) /\ phase \in {"loop", "closing"}
                \/ WaitsOnDefault(Main)
\* Between the two loops nobody owns the context, and a waiting worker takes it.
WorkerIterates == /\ ~InCall(Main) /\ phase \notin {"loop", "closing"}
                  /\ \E w \in Workers : WaitsOnDefault(w)

Init ==
  /\ stack = [t \in Threads |-> <<>>]
  /\ owner = [l \in Locks |-> Free]
  /\ phase = "loop"
  /\ shutting = FALSE

-----------------------------------------------------------------------------
\* A method call or a timer is dispatched, nested if a call is waiting.
Dispatch(op) ==
  /\ MainIterates
  /\ Len(stack[Main]) < MaxDepth
  /\ \E p \in Programs(op) : stack' = [stack EXCEPT ![Main] = Append(@, Started(p))]
  /\ UNCHANGED <<owner, phase, shutting>>

\* VerifyStart or EnrollStart hands an operation to the thread pool.
StartWorker(w, op) ==
  /\ MainIterates /\ phase = "loop"
  /\ ~InCall(w)
  /\ \E p \in Programs(op) : stack' = [stack EXCEPT ![w] = <<Started(p)>>]
  /\ UNCHANGED <<owner, phase, shutting>>

\* The mutexes are of the default type: their owner waits for itself.
TakeLock(t, l) ==
  /\ At(t, Take(l))
  /\ owner[l] = Free
  /\ owner' = [owner EXCEPT ![l] = t]
  /\ Goes(t)
  /\ UNCHANGED <<phase, shutting>>

GiveLock(t, l) ==
  /\ At(t, Give(l))
  /\ owner' = [owner EXCEPT ![l] = Free]
  /\ Goes(t)
  /\ UNCHANGED <<phase, shutting>>

\* Mutant: the lock is not released on the way out.
CheckLeaksLock(t) ==
  /\ At(t, Do("check"))
  /\ IF shutting THEN Returns(t) ELSE Goes(t)
  /\ UNCHANGED <<owner, phase, shutting>>

\* "if (d->shutting_down)", just after fp_lock was taken.
Check(t) ==
  /\ At(t, Do("check"))
  /\ \/ /\ shutting
        /\ owner' = [owner EXCEPT !["fp"] = Free]
        /\ Returns(t)
     \/ /\ ~shutting
        /\ Goes(t)
        /\ UNCHANGED owner
  /\ UNCHANGED <<phase, shutting>>

\* An early return: every one of them is at a point where the call's locks have
\* been released.
LeaveEarly(t) ==
  /\ InCall(t) /\ Top(t).status = "run"
  /\ \E l \in Locks : Step(t) = Take(l)
  /\ t \notin {owner[l] : l \in Locks}
  /\ Returns(t)
  /\ UNCHANGED <<owner, phase, shutting>>

SensorBegin(t) ==
  /\ \E what \in Sensor : At(t, what)
  /\ Becomes(t, Len(stack[t]), "wait")
  /\ UNCHANGED <<owner, phase, shutting>>

\* A verification ends in its own context, by its timeout at the latest.
VerifyDone(t) ==
  /\ InCall(t) /\ Top(t).status = "wait" /\ Step(t) = Do("verify")
  /\ Goes(t)
  /\ UNCHANGED <<owner, phase, shutting>>

\* The completion of an enrollment or of a clear, dispatched wherever the
\* default context is iterated, quits the loop of its call ...
DefaultDone(t, i) ==
  /\ MainIterates \/ WorkerIterates
  /\ <<t, i>> \in Using /\ Head(stack[t][i].steps) \in OnDefault
  /\ Becomes(t, i, "quit")
  /\ UNCHANGED <<owner, phase, shutting>>

\* ... which goes on once the calls nested in it have returned.
LoopQuits(t) ==
  /\ InCall(t) /\ Top(t).status = "quit"
  /\ Goes(t)
  /\ UNCHANGED <<owner, phase, shutting>>

TpmCall(t) ==
  /\ At(t, Do("tpm"))
  /\ Goes(t)
  /\ UNCHANGED <<owner, phase, shutting>>

-----------------------------------------------------------------------------
(* bio_daemon_stop and bio_daemon_destroy.                                 *)

\* The main loop has quit; new operations are refused from here on.
Shutdown ==
  /\ phase = "loop" /\ ~InCall(Main)
  /\ phase' = "barrier"
  /\ shutting' = TRUE
  /\ UNCHANGED <<stack, owner>>

\* Mutant: the sensor is closed without waiting for fp_lock.
BarrierSkipped ==
  /\ phase = "barrier"
  /\ phase' = "closing"
  /\ UNCHANGED <<stack, owner, shutting>>

\* fp_lock is taken and released; bio_fp_close_device starts its loop.
Barrier ==
  /\ phase = "barrier"
  /\ owner["fp"] = Free
  /\ phase' = "closing"
  /\ UNCHANGED <<stack, owner, shutting>>

\* The sensor is closed; the TPM context is cleaned up.
Closed ==
  /\ phase = "closing" /\ ~InCall(Main)
  /\ phase' = "closed"
  /\ UNCHANGED <<stack, owner, shutting>>

Freed ==
  /\ phase = "closed"
  /\ phase' = "freed"
  /\ UNCHANGED <<stack, owner, shutting>>

ThreadStep(t) ==
  \/ \E l \in Locks : TakeLock(t, l) \/ GiveLock(t, l)
  \/ Check(t)
  \/ SensorBegin(t)
  \/ VerifyDone(t)
  \/ \E i \in 1..MaxDepth : DefaultDone(t, i)
  \/ LoopQuits(t)
  \/ TpmCall(t)

Next ==
  \/ \E op \in MainOps : Dispatch(op)
  \/ \E w \in Workers, op \in WorkerOps : StartWorker(w, op)
  \/ \E t \in Threads : ThreadStep(t)
  \/ \E t \in Threads : LeaveEarly(t)
  \/ Shutdown \/ Barrier \/ Closed \/ Freed

Spec == Init /\ [][Next]_vars

\* Threads are scheduled, sensor operations end (for an enrollment: the finger
\* is put down often enough), and ready completions are dispatched.
FairSpec == Spec /\ \A t \in Threads : WF_vars(ThreadStep(t))

-----------------------------------------------------------------------------
(* Properties.                                                             *)

TypeOK ==
  /\ stack \in [Threads -> Seq(Calls)]
  /\ \A t \in Threads : Len(stack[t]) <= MaxDepth
  /\ owner \in [Locks -> Threads \cup {Free}]
  /\ phase \in Stages
  /\ shutting \in BOOLEAN

\* A thread that is in no call holds no lock, whichever way its calls returned.
NoLockLeaked == \A t \in Threads : ~InCall(t) => t \notin {owner[l] : l \in Locks}

\* Stacks and locks keep their types and bounds, and no lock is leaked.
LocksConsistent == TypeOK /\ NoLockLeaked

\* Verifying and enrolling are over when the sensor is closed, and none begins
\* afterwards: the flag is set before the barrier, and read under the lock.
ClosedSensorIsLeftAlone ==
  phase \in {"closing", "closed", "freed"} =>
    \A u \in Using : Head(stack[u[1]][u[2]].steps) = Do("clear")

\* A main thread that waits for a lock gets it, or there is a thread that runs
\* a loop on the default context with fp_lock held: the one thing that can keep
\* the daemon from answering for ever.
MainWaits == \E l \in Locks : At(Main, Take(l)) /\ owner[l] # Free
LoopsUnderFp ==
  \E t \in Threads : /\ owner["fp"] = t
                     /\ \E i \in DOMAIN stack[t] : Head(stack[t][i].steps) \in OnDefault
OnlyLoopsBlockMain == MainWaits ~> (~MainWaits \/ LoopsUnderFp)

\* bio_fprintd_compat.c:295: the worker runs its operation "off the main thread
\* so the GLib main loop stays responsive".  A main thread that waits for a lock
\* gets it.
MainResponsive == MainWaits ~> ~MainWaits
=============================================================================
