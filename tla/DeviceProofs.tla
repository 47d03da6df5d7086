---------------------------- MODULE DeviceProofs ----------------------------
(***************************************************************************)
(* Proofs about what stands between other programs and the sensor or the   *)
(* keys: the virtual USB key with the daemon around it (Fido2Daemon), for  *)
(* any applications, channels, message lengths and workloads; the fprintd  *)
(* device (FprintdCompat), for any clients, users and number of            *)
(* operations; and the rate limiter of the verifications (RateLimiter), for *)
(* any users, threads, table and ring sizes, thresholds and durations.  No  *)
(* two of them have a variable in common.                                   *)
(***************************************************************************)
EXTENDS FprintdCompat, Fido2Daemon, RateLimiter, WellFoundedInduction, TLAPS

USE SMTT(30), ZenonT(30)

-----------------------------------------------------------------------------
(* The virtual USB key: who holds the engine when it is freed.              *)

(* The mutex is held by the thread that processes; a keepalive thread      *)
(* exists only during a request of the reader; after the engine is freed   *)
(* the main thread has exited and the reader is gone.                      *)
EngineInv ==
  /\ "pc" \in DOMAIN reader /\ "pc" \in DOMAIN keepalive /\ "pc" \in DOMAIN main
  /\ engine \in {"free", "reader", "main", "freed"}
  /\ reader.pc = "process" <=> engine = "reader"
  /\ main.pc = "process" <=> engine = "main"
  /\ main.pc = "exited" <=> engine = "freed"
  /\ engine = "freed" => reader.pc = "gone"
  /\ keepalive.pc # "none" => reader.pc \in {"lock", "process", "join"}

(* What one report can make of the reader and the keepalive thread: it is  *)
(* kept, answered, or handed to the engine.                                *)
Taken ==
  /\ "pc" \in DOMAIN reader' /\ "pc" \in DOMAIN keepalive'
  /\ \/ UNCHANGED <<reader, keepalive>>
     \/ reader'.pc = "send" /\ UNCHANGED keepalive
     \/ reader'.pc = "lock"

(* bio_fido2_uhid.c: every handler of a message ends in one of these ways. *)
LEMMA Dispatched ==
  ASSUME NEW p, NEW cid, NEW cmd, NEW data, NEW slot, EngineInv,
         Dispatch(p, cid, cmd, data, slot)
  PROVE  Taken
<1>1. ASSUME NEW q, NEW reports, Answer(q, cid, slot, reports)
      PROVE  Taken
  BY <1>1, Zenon DEF Answer, Taken, EngineInv
<1>2. CASE HandleInit(p, cid, data, slot)
  <2>1. CASE Len(data) < NonceLen
    BY <1>1, <1>2, <2>1, Zenon DEF HandleInit
  <2>2. CASE ~(Len(data) < NonceLen)
    <3>1. PICK draw \in Draws(p) :
            Answer(AllocChannel(p, draw), cid, slot,
                   IF draw = None THEN Error(cid)
                   ELSE <<[InitReport(cid, "INIT", SubSeq(data, 1, NonceLen)) EXCEPT !.grant = draw]>>)
      BY <1>2, <2>2, Zenon DEF HandleInit
    <3> QED
      BY <1>1, <3>1, Zenon
  <2> QED
    BY <2>1, <2>2, Zenon
<1>3. CASE HandleCbor(p, cid, data, slot)
  <2>1. CASE Len(data) < 1
    BY <1>1, <1>3, <2>1, Zenon DEF HandleCbor
  <2>2. CASE ~(Len(data) < 1)
    BY <1>3, <2>2 DEF HandleCbor, Taken
  <2> QED
    BY <2>1, <2>2, Zenon
<1> QED
  BY <1>1, <1>2, <1>3, Zenon DEF Dispatch

(* A refusal is an answer, and a report that does not complete its message *)
(* changes neither thread.                                                 *)
LEMMA Reported == EngineInv /\ ReadReport => Taken
<1> SUFFICES ASSUME EngineInv, ReadReport PROVE Taken
  BY Zenon
<1>1. ASSUME NEW p, NEW cid, Refuse(p, cid) PROVE Taken
  BY <1>1, Zenon DEF Refuse, Answer, Taken, EngineInv
<1>2. ASSUME NEW p, NEW s, NEW ch, Assembled(p, s, ch) PROVE Taken
  <2>1. CASE Len(ch.data) >= ch.total
    BY <1>2, <2>1, Dispatched, Zenon DEF Assembled
  <2>2. CASE ~(Len(ch.data) >= ch.total)
    BY <1>2, <2>2, Zenon DEF Assembled, Taken, EngineInv
  <2> QED
    BY <2>1, <2>2, Zenon
<1>3. ASSUME NEW p, NEW s, NEW r, StartMessage(p, s, r) PROVE Taken
  BY <1>2, <1>3, Zenon DEF StartMessage
<1>4. ASSUME NEW r, InitPacket(r) PROVE Taken
  <2>1. CASE r.cmd = "INIT" /\ r.total <= InitData
    BY <1>4, <2>1, Dispatched, Zenon DEF InitPacket
  <2>2. CASE ~(r.cmd = "INIT" /\ r.total <= InitData) /\ r.total > MaxMsg
    BY <1>1, <1>4, <2>2, Zenon DEF InitPacket
  <2>3. CASE ~(r.cmd = "INIT" /\ r.total <= InitData) /\ ~(r.total > MaxMsg) /\ r.cid = Broadcast
    <3>1. CASE r.cmd # "INIT"
      BY <1>1, <1>4, <2>3, <3>1, Zenon DEF InitPacket
    <3>2. CASE r.cmd = "INIT"
      <4>1. PICK draw \in Draws(pool) :
              IF draw = None THEN Refuse(AllocChannel(pool, draw), r.cid)
              ELSE StartMessage(AllocChannel(pool, draw), AllocSlot(pool), r)
        BY <1>4, <2>3, <3>2, Zenon DEF InitPacket
      <4> QED
        BY <1>1, <1>3, <4>1, Zenon
    <3> QED
      BY <3>1, <3>2, Zenon
  <2>4. CASE ~(r.cmd = "INIT" /\ r.total <= InitData) /\ ~(r.total > MaxMsg) /\ r.cid # Broadcast
    BY <1>1, <1>3, <1>4, <2>4, Zenon DEF InitPacket
  <2> QED
    BY <2>1, <2>2, <2>3, <2>4, Zenon
<1>5. ASSUME NEW r, Continuation(r) PROVE Taken
  BY <1>1, <1>2, <1>5, Zenon DEF Continuation
<1> QED
  BY <1>4, <1>5, Zenon DEF ReadReport

(* Every step of the reader and of the keepalive thread keeps the invariant.*)
LEMMA HidStep == EngineInv /\ HidNext /\ UNCHANGED main => EngineInv'
<1> SUFFICES ASSUME EngineInv, HidNext, UNCHANGED main PROVE EngineInv'
  BY Zenon
<1>1. CASE \E a \in use.users : Host(a)
  BY <1>1, Zenon DEF Host, HostStart, HostReport, HostCancel, EngineInv
<1>2. CASE ReadReport
  BY <1>2, Reported, Zenon DEF ReadReport, Taken, EngineInv
<1>3. CASE PollTimeout
  BY <1>3, Zenon DEF PollTimeout, EngineInv, NoRequest
<1>4. CASE ReaderEnds
  BY <1>4, Zenon DEF ReaderEnds, EngineInv
<1>5. CASE LockEngine
  BY <1>5, Zenon DEF LockEngine, EngineInv
<1>6. CASE Process
  BY <1>6, Zenon DEF Process, EngineInv
<1>7. CASE JoinKeepalive
  BY <1>7, Zenon DEF JoinKeepalive, EngineInv
<1>8. CASE SendReport
  BY <1>8 DEF SendReport, EngineInv, NoRequest
<1>9. CASE Keepalive
  BY <1>9, Zenon DEF Keepalive, KeepaliveWakes, KeepaliveWrites, EngineInv
<1> QED
  BY <1>1, <1>2, <1>3, <1>4, <1>5, <1>6, <1>7, <1>8, <1>9, Zenon DEF HidNext, Reader

(* So does every step of the main thread.                                  *)
LEMMA MainStep == EngineInv /\ Main => EngineInv'
<1> SUFFICES ASSUME EngineInv, Main PROVE EngineInv'
  BY Zenon
<1> USE DEF EngineInv, At, Goto, HidKeeps, hidVars
<1>1. CASE InstallHandlers \/ MakePipe \/ Listen \/ EnterLoop \/ LeaveLoop \/ Accept
  BY <1>1 DEF InstallHandlers, MakePipe, Listen, EnterLoop, LeaveLoop, Accept
<1>2. CASE NextRequest \/ CloseClient \/ ClientLocks \/ ClientProcess
  BY <1>2 DEF NextRequest, CloseClient, ClientLocks, ClientProcess
<1>3. CASE CloseSocket \/ ForgetTransport \/ StopReader \/ Cleanup
  BY <1>3, Zenon DEF CloseSocket, ForgetTransport, StopReader, Cleanup
<1> QED
  BY <1>1, <1>2, <1>3, Zenon DEF Main

(* bio_fido2_cleanup runs only after the reader and its keepalive thread    *)
(* have ended, whenever and however often the daemon is told to stop.       *)
THEOREM EngineIsFreedLast == DaemonSpec => []EngineOutlivesUsers
<1>1. DaemonInit => EngineInv
  BY StartAssumption DEF DaemonInit, HidInit, EngineInv, NoRequest
<1>2. EngineInv /\ [DaemonNext]_daemonVars => EngineInv'
  <2> SUFFICES ASSUME EngineInv, [DaemonNext]_daemonVars PROVE EngineInv'
    BY Zenon
  <2>1. CASE HidNext /\ UNCHANGED <<main, sock, clients, signals>>
    BY <2>1, HidStep, Zenon
  <2>2. CASE Main
    BY <2>2, MainStep, Zenon
  <2>3. CASE Signal \/ UNCHANGED daemonVars
    BY <2>3, Zenon DEF Signal, daemonVars, hidVars, EngineInv
  <2> QED
    BY <2>1, <2>2, <2>3, Zenon DEF DaemonNext
<1>3. EngineInv => EngineOutlivesUsers
  BY Zenon DEF EngineInv, EngineOutlivesUsers
<1> QED
  BY <1>1, <1>2, <1>3, PTL DEF DaemonSpec

-----------------------------------------------------------------------------
(* The fprintd device.                                                      *)

\* Operations are used in start order: exactly the first "started" ones.
UsedInOrder == \A o \in Ops : (o <= started) <=> (task[o].phase # "unused")

\* A claim call in progress found the device idle and keeps the main thread.
ClaimInProgress == claim # NoClaim => up /\ state = "IDLE"

\* A status is broadcast by the callback, the last step of an operation.
SignalledAreDone == \A o \in signalled : task[o].phase = "done"

CompatInv ==
  /\ TypeOK
  /\ UsedInOrder
  /\ ClaimInProgress
  /\ SignalledAreDone
  /\ BusyHasLiveTask
  /\ CancellableIsLatest
  /\ ClaimIsWatched
  /\ NoStatusForCancelled

USE CompatAssumption

\* bio_fprintd_compat_init leaves an idle, unclaimed device without operations.
LEMMA InitInv == Init => CompatInv
<1> SUFFICES ASSUME Init PROVE CompatInv
  BY Zenon
<1> USE DEF Init, NoOp
<1>1. NoTask \in Tasks /\ NoTask.phase = "unused"
  BY Zenon DEF NoTask, Tasks, Phases
<1>2. TypeOK
  BY <1>1 DEF TypeOK, Busy
<1>3. UsedInOrder
  BY <1>1 DEF UsedInOrder, Ops
<1> QED
  BY <1>2, <1>3, Zenon DEF CompatInv, ClaimInProgress, SignalledAreDone,
     BusyHasLiveTask, CancellableIsLatest, ClaimIsWatched,
     NoStatusForCancelled, Busy

\* Moving one task to another phase keeps every other field of every task.
LEMMA PhaseUpdate ==
  ASSUME task \in [Ops -> Tasks], NEW o \in Ops, NEW p \in Phases,
         NEW t, t = [task EXCEPT ![o].phase = p]
  PROVE  /\ t \in [Ops -> Tasks]
         /\ \A q \in Ops : /\ t[q].phase = (IF q = o THEN p ELSE task[q].phase)
                            /\ t[q].kind = task[q].kind
                            /\ t[q].user = task[q].user
                            /\ t[q].client = task[q].client
<1>1. task[o] \in Tasks
  BY Zenon
<1>2. [task[o] EXCEPT !.phase = p] \in Tasks
  BY <1>1, Zenon DEF Tasks
<1>3. t = [task EXCEPT ![o] = [task[o] EXCEPT !.phase = p]]
  BY Zenon
<1>4. t \in [Ops -> Tasks]
  BY <1>2, <1>3, Zenon
<1>5. /\ t[o].phase = p /\ t[o].kind = task[o].kind
      /\ t[o].user = task[o].user /\ t[o].client = task[o].client
  BY <1>1, <1>3 DEF Tasks
<1>6. \A q \in Ops : q # o => t[q] = task[q]
  BY <1>3, Zenon
<1>7. ASSUME NEW q \in Ops
      PROVE  /\ t[q].phase = (IF q = o THEN p ELSE task[q].phase)
             /\ t[q].kind = task[q].kind
             /\ t[q].user = task[q].user
             /\ t[q].client = task[q].client
  <2>1. CASE q = o
    BY <2>1, <1>5, Zenon
  <2>2. CASE q # o
    BY <2>2, <1>6, Zenon
  <2> QED
    BY <2>1, <2>2, Zenon
<1> QED
  BY <1>4, <1>7, Zenon

\* Every step keeps the types.
LEMMA TypeStep == CompatInv /\ [Next]_vars => TypeOK'
<1> SUFFICES ASSUME CompatInv, [Next]_vars PROVE TypeOK'
  BY Zenon
<1> USE DEF CompatInv, TypeOK, Busy, NoOp
<1>1. ASSUME NEW c \in Clients, NEW u \in Users, ClaimLookup(c, u)
      PROVE TypeOK'
  BY <1>1, Zenon DEF ClaimLookup, devVars, taskVars, busVars, history
<1>2. CASE ClaimCommit
  BY <1>2, Zenon DEF ClaimCommit, taskVars, busVars, history, NoClaim
<1>3. CASE DeviceRelease
  BY <1>3, Zenon DEF DeviceRelease, CancelCurrent
<1>4. ASSUME NEW c \in Clients, NEW k \in Kinds, Start(c, k)
      PROVE TypeOK'
  <2>1. started + 1 \in Ops
    BY <1>4 DEF Start, Ops
  <2>2. [phase |-> "queued", kind |-> k, user |-> claimedBy, client |-> c]
           \in Tasks
    BY Zenon DEF Tasks, Phases
  <2>3. task' \in [Ops -> Tasks]
    BY <1>4, <2>1, <2>2, Zenon DEF Start
  <2>4. started' \in 0..MaxOps /\ cancellable' \in Ops \cup {NoOp}
    BY <1>4, <2>1 DEF Start, Ops
  <2>5. state' \in {"IDLE", "CLAIMED"} \cup Busy
    BY <1>4, Zenon DEF Start, BusyState
  <2> QED
    BY <1>4, <2>3, <2>4, <2>5, Zenon DEF Start, busVars, history
<1>5. ASSUME NEW c \in Clients, NEW k \in Kinds, Stop(c, k)
      PROVE TypeOK'
  BY <1>5, Zenon DEF Stop, CancelCurrent, busVars
<1>6. ASSUME NEW o \in Ops, WorkerBegin(o)
      PROVE TypeOK'
  BY <1>6, PhaseUpdate DEF WorkerBegin, devVars, busVars, history, Phases
<1>7. ASSUME NEW o \in Ops, WorkerReturn(o)
      PROVE TypeOK'
  BY <1>7, PhaseUpdate DEF WorkerReturn, devVars, busVars, history, Phases
<1>8. ASSUME NEW o \in Ops, ReadyCb(o)
      PROVE TypeOK'
  BY <1>8, PhaseUpdate DEF ReadyCb, busVars, Phases
<1>9. ASSUME NEW c \in Clients, Disconnect(c)
      PROVE TypeOK'
  BY <1>9, Zenon DEF Disconnect, devVars, taskVars, history
<1>10. CASE CompatCleanup
  BY <1>10, Zenon DEF CompatCleanup, CancelCurrent, history
<1>11. CASE UNCHANGED vars
  BY <1>11, Zenon DEF vars, devVars, taskVars, busVars, history
<1> QED
  BY <1>1, <1>2, <1>3, <1>4, <1>5, <1>6, <1>7, <1>8, <1>9, <1>10, <1>11, Zenon
     DEF Next, Release, OnClaimerVanished

\* Every step keeps the rest of the invariant.  The argument per conjunct:
\* only Start makes the device busy, with a task it has just queued, and the
\* callback of any task, the stale ones included, ends busy and clears
\* dev->cancellable, so neither outlives its task.
LEMMA RestStep == CompatInv /\ [Next]_vars => CompatInv'
<1> SUFFICES ASSUME CompatInv, [Next]_vars PROVE CompatInv'
  BY Zenon
<1>0. TypeOK /\ TypeOK'
  BY TypeStep, Zenon DEF CompatInv
<1> DEFINE Rest == /\ UsedInOrder /\ ClaimInProgress /\ SignalledAreDone
                   /\ BusyHasLiveTask /\ CancellableIsLatest
                   /\ ClaimIsWatched /\ NoStatusForCancelled
<1> USE DEF CompatInv, UsedInOrder, ClaimInProgress, SignalledAreDone,
        BusyHasLiveTask, CancellableIsLatest, ClaimIsWatched,
        NoStatusForCancelled, Unfinished, NoOp
<1>1. ASSUME NEW c \in Clients, NEW u \in Users, ClaimLookup(c, u)
      PROVE Rest'
  BY <1>0, <1>1, Zenon DEF ClaimLookup, MainFree, devVars, taskVars, busVars, history
<1>2. CASE ClaimCommit
  BY <1>0, <1>2, Zenon DEF ClaimCommit, taskVars, busVars, history, NoClaim, Busy,
     TypeOK
<1>3. CASE DeviceRelease /\ MainFree
  BY <1>0, <1>3, Zenon DEF DeviceRelease, CancelCurrent, MainFree, Busy, TypeOK
<1>4. ASSUME NEW c \in Clients, NEW k \in Kinds, Start(c, k)
      PROVE Rest'
  <2>1. started + 1 \in Ops /\ started \in Nat
    BY <1>0, <1>4 DEF Start, Ops, TypeOK
  <2>2. /\ task'[started + 1].phase = "queued"
        /\ task'[started + 1].kind = k
        /\ task'[started + 1].user = claimedBy
        /\ task'[started + 1].client = c
        /\ \A o \in Ops : o # started + 1 => task'[o] = task[o]
    BY <1>0, <1>4, <2>1, Zenon DEF Start, TypeOK
  <2>3. UsedInOrder'
    BY <1>0, <1>4, <2>1, <2>2 DEF Start, Ops, TypeOK
  <2>4. SignalledAreDone'
    <3>1. task[started + 1].phase # "done"
      BY <2>1
    <3>2. signalled' = signalled /\ signalled \subseteq Ops
      BY <1>0, <1>4, Zenon DEF Start, history, TypeOK
    <3> QED
      BY <2>2, <3>1, <3>2, Zenon
  <2>5. BusyHasLiveTask' /\ CancellableIsLatest'
    BY <1>0, <1>4, <2>1, <2>2, Zenon DEF Start
  <2> QED
    BY <1>0, <1>4, <2>3, <2>4, <2>5, Zenon
       DEF Start, MainFree, history, busVars, BusyState, Busy
<1>5. ASSUME NEW c \in Clients, NEW k \in Kinds, Stop(c, k)
      PROVE Rest'
  BY <1>0, <1>5, Zenon DEF Stop, CancelCurrent, MainFree, busVars, Busy, BusyState,
     TypeOK
<1>6. ASSUME NEW o \in Ops, WorkerBegin(o)
      PROVE Rest'
  <2>1. \A q \in Ops : /\ task'[q].kind = task[q].kind
                        /\ task'[q].user = task[q].user
                        /\ task'[q].client = task[q].client
                        /\ q # o => task'[q].phase = task[q].phase
    BY <1>0, <1>6, PhaseUpdate DEF WorkerBegin, TypeOK, Phases
  <2>2. task'[o].phase \in {"running", "returned"}
    BY <1>0, <1>6, PhaseUpdate DEF WorkerBegin, TypeOK, Phases
  <2> QED
    BY <1>0, <1>6, <2>1, <2>2
       DEF WorkerBegin, devVars, busVars, history, TypeOK
<1>7. ASSUME NEW o \in Ops, WorkerReturn(o)
      PROVE Rest'
  <2>1. \A q \in Ops : /\ task'[q].kind = task[q].kind
                        /\ task'[q].user = task[q].user
                        /\ task'[q].client = task[q].client
                        /\ q # o => task'[q].phase = task[q].phase
    BY <1>0, <1>7, PhaseUpdate DEF WorkerReturn, TypeOK, Phases
  <2>2. task'[o].phase = "returned"
    BY <1>0, <1>7, PhaseUpdate DEF WorkerReturn, TypeOK, Phases
  <2> QED
    BY <1>0, <1>7, <2>1, <2>2
       DEF WorkerReturn, devVars, busVars, history, TypeOK
<1>8. ASSUME NEW o \in Ops, ReadyCb(o)
      PROVE Rest'
  <2>1. \A q \in Ops :
          task'[q].phase = IF q = o THEN "done" ELSE task[q].phase
    BY <1>0, <1>8, PhaseUpdate DEF ReadyCb, TypeOK, Phases
  <2> QED
    BY <1>0, <1>8, <2>1 DEF ReadyCb, busVars, TypeOK, Busy
<1>9. ASSUME NEW c \in Clients, Disconnect(c)
      PROVE Rest'
  BY <1>0, <1>9, Zenon DEF Disconnect, devVars, taskVars, history
<1>10. CASE CompatCleanup
  <2>1. /\ ~up' /\ claim' = NoClaim /\ cancellable' = NoOp
        /\ UNCHANGED <<state, claimedBy, claimedSender, started, task, stopped, signalled>>
        /\ cancelled' = cancelled \cup ({cancellable} \ {NoOp})
    BY <1>10, Zenon DEF CompatCleanup, CancelCurrent, MainFree, history
  <2>2. UsedInOrder' /\ ClaimInProgress' /\ SignalledAreDone'
    BY <2>1, Zenon
  <2>3. BusyHasLiveTask' /\ CancellableIsLatest' /\ ClaimIsWatched'
    BY <2>1, Zenon
  <2>4. NoStatusForCancelled'
    BY <2>1, Zenon
  <2> QED
    BY <1>0, <2>2, <2>3, <2>4, Zenon
<1>11. CASE UNCHANGED vars
  <2> USE <1>11 DEF vars, devVars, taskVars, history
  <2>1. UsedInOrder' /\ ClaimInProgress' /\ SignalledAreDone'
    BY Zenon
  <2>2. BusyHasLiveTask' /\ CancellableIsLatest'
    BY Zenon
  <2>3. ClaimIsWatched' /\ NoStatusForCancelled'
    BY Zenon
  <2> QED
    BY <1>0, <2>1, <2>2, <2>3, Zenon
<1> QED
  BY <1>0, <1>1, <1>2, <1>3, <1>4, <1>5, <1>6, <1>7, <1>8, <1>9, <1>10, <1>11, Zenon
     DEF Next, Release, OnClaimerVanished

\* The inductive invariant holds in every state the handlers, the workers and the
\* bus can bring the device to.
THEOREM CompatInvariant == Spec => []CompatInv
  BY InitInv, RestStep, PTL DEF Spec

\* The type invariant of bio_fprintd_device_t, the cancellable, which only ever
\* reaches the operation started last while it is unfinished, and the claim,
\* which Claim, Release and the claimer's disappearance keep with its watch.
THEOREM DeviceAgrees == Spec => []DeviceConsistent
  BY CompatInvariant, PTL DEF CompatInv, DeviceConsistent

\* VerifyStart, EnrollStart and the callbacks: a busy device always has a
\* live operation of its claimer that will reset it.
THEOREM NeverStuckBusy == Spec => []BusyHasLiveTask
  BY CompatInvariant, PTL DEF CompatInv

-----------------------------------------------------------------------------
(* What a stop reaches.  An unfinished operation is the busy one with its   *)
(* cancellable, or it has been cancelled, or the callback of an earlier     *)
(* operation that was stopped has taken both from it.                       *)

StopInv ==
  /\ \A o \in stopped : o \in cancelled \/ Earlier(o)
  /\ up => cancelled \subseteq stopped
  /\ up /\ cancellable # NoOp => state \in Busy \/ cancellable \in cancelled
  /\ \A o \in Ops : up /\ Unfinished(o) =>
       \/ o \in cancelled
       \/ Earlier(o)
       \/ (o = cancellable /\ state \in Busy)

\* Every step keeps it; a late callback is covered by its own operation.
LEMMA StopStep == CompatInv /\ CompatInv' /\ StopInv /\ [Next]_vars => StopInv'
<1> SUFFICES ASSUME CompatInv, CompatInv', StopInv, [Next]_vars PROVE StopInv'
  BY Zenon
<1>0. TypeOK /\ TypeOK' /\ CancellableIsLatest /\ UsedInOrder /\ ClaimInProgress
  BY Zenon DEF CompatInv
<1>00. NoOp \notin Ops
  BY DEF NoOp, Ops
<1>1. ASSUME NEW c \in Clients, NEW u \in Users, ClaimLookup(c, u)
      PROVE StopInv'
  BY <1>1, Zenon DEF ClaimLookup, StopInv, Earlier, Unfinished, devVars, taskVars, history
<1>2. CASE ClaimCommit
  BY <1>0, <1>2, Zenon DEF ClaimCommit, StopInv, Earlier, Unfinished, taskVars, history,
     ClaimInProgress, Busy
<1>3. CASE DeviceRelease /\ MainFree
  <2>1. ASSUME cancellable # NoOp
        PROVE  cancellable \in stopped'
    BY <1>0, <1>3, <2>1, Zenon DEF DeviceRelease, MainFree, StopInv, TypeOK, CompatInv,
       BusyHasLiveTask, CancellableIsLatest
  <2>2. up /\ cancelled' = cancelled \cup ({cancellable} \ {NoOp}) /\ stopped \subseteq stopped'
    BY <1>3, Zenon DEF DeviceRelease, CancelCurrent, MainFree
  <2>3. ASSUME NEW o \in stopped'
        PROVE  o \in cancelled' \/ Earlier(o)'
    <3>1. o \in stopped \/ (o \in Ops /\ Unfinished(o))
      BY <1>3, <2>3, Zenon DEF DeviceRelease
    <3>2. o \in cancelled \/ Earlier(o) \/ (o \in Ops /\ o = cancellable)
      BY <2>2, <3>1, Zenon DEF StopInv
    <3> QED
      BY <1>00, <2>2, <3>2, Zenon DEF Earlier
  <2>4. cancelled' \subseteq stopped'
    BY <2>1, <2>2, Zenon DEF StopInv
  <2>5. ASSUME NEW o \in Ops, Unfinished(o)'
        PROVE  o \in cancelled' \/ Earlier(o)'
    <3>1. o \in cancelled \/ Earlier(o) \/ o = cancellable
      BY <1>3, <2>2, <2>5, Zenon DEF DeviceRelease, StopInv, Unfinished
    <3> QED
      BY <1>00, <2>2, <3>1, Zenon DEF Earlier
  <2>6. cancellable' # NoOp => cancellable' \in cancelled'
    BY <1>3, <2>2, Zenon DEF DeviceRelease
  <2> QED
    BY <2>3, <2>4, <2>5, <2>6, Zenon DEF StopInv
<1>4. ASSUME NEW c \in Clients, NEW k \in Kinds, Start(c, k)
      PROVE StopInv'
  <2>1. started + 1 \in Ops /\ state \notin Busy /\ BusyState(k) \in Busy
    BY <1>0, <1>4 DEF Start, Ops, TypeOK, Busy, BusyState
  <2>2. \A o \in Ops : o # started + 1 => task'[o] = task[o]
    BY <1>0, <1>4, Zenon DEF Start, TypeOK
  <2> QED
    BY <1>0, <1>4, <2>1, <2>2, Zenon DEF Start, StopInv, Earlier, Unfinished, history
<1>5. ASSUME NEW c \in Clients, NEW k \in Kinds, Stop(c, k)
      PROVE StopInv'
  <2>1. ASSUME cancellable # NoOp, state = BusyState(k)
        PROVE  cancellable \in stopped'
    BY <1>0, <1>5, <2>1, Zenon DEF Stop, CompatInv, BusyHasLiveTask, CancellableIsLatest,
       BusyState, Busy, TypeOK, Tasks
  <2>2. /\ up /\ cancelled \subseteq cancelled' /\ stopped \subseteq stopped'
        /\ UNCHANGED <<cancellable, task, up>>
    BY <1>5, Zenon DEF Stop, CancelCurrent, MainFree
  <2>3. ASSUME NEW o \in Ops, Unfinished(o), o = cancellable, state \in Busy,
               task[o].kind = k \/ state = BusyState(k)
        PROVE  o \in cancelled'
    BY <1>0, <1>00, <1>5, <2>3, Zenon DEF Stop, CancelCurrent, CompatInv, BusyHasLiveTask,
       CancellableIsLatest
  <2>4. ASSUME NEW o \in stopped'
        PROVE  o \in cancelled' \/ Earlier(o)'
    <3>1. o \in stopped \/ (o \in Ops /\ Unfinished(o) /\ task[o].kind = k)
      BY <1>5, <2>4, Zenon DEF Stop
    <3>2. CASE o \in stopped
      BY <2>2, <3>2, Zenon DEF StopInv, Earlier
    <3>3. CASE o \in Ops /\ Unfinished(o) /\ task[o].kind = k
      BY <2>2, <2>3, <3>3, Zenon DEF StopInv, Earlier
    <3> QED
      BY <3>1, <3>2, <3>3, Zenon
  <2>5. cancelled' \subseteq stopped'
    BY <1>5, <2>1, <2>2, Zenon DEF Stop, CancelCurrent, StopInv
  <2>6. ASSUME NEW o \in Ops, o = cancellable, state \in Busy, Unfinished(o)
        PROVE  o \in cancelled' \/ state' \in Busy
    BY <1>5, <2>3, <2>6, Zenon DEF Stop
  <2>7. cancellable' # NoOp => state' \in Busy \/ cancellable' \in cancelled'
    BY <1>0, <2>2, <2>6, Zenon DEF StopInv, TypeOK, CancellableIsLatest
  <2>8. ASSUME NEW o \in Ops, Unfinished(o)'
        PROVE  o \in cancelled' \/ Earlier(o)' \/ (o = cancellable' /\ state' \in Busy)
    BY <2>2, <2>6, <2>8, Zenon DEF StopInv, Earlier, Unfinished
  <2> QED
    BY <2>4, <2>5, <2>7, <2>8, Zenon DEF StopInv
<1>6. ASSUME NEW o \in Ops, WorkerBegin(o) \/ WorkerReturn(o)
      PROVE StopInv'
  <2>1. \A q \in Ops : Unfinished(q)' => Unfinished(q)
    BY <1>0, <1>6, PhaseUpdate DEF WorkerBegin, WorkerReturn, TypeOK, Phases, Unfinished
  <2> QED
    BY <1>6, <2>1 DEF WorkerBegin, WorkerReturn, StopInv, Earlier, devVars, history
<1>7. ASSUME NEW o \in Ops, ReadyCb(o)
      PROVE StopInv'
  <2>1. \A q \in Ops : Unfinished(q)' => Unfinished(q) /\ q # o
    BY <1>0, <1>7, PhaseUpdate DEF ReadyCb, TypeOK, Phases, Unfinished
  <2>2. ASSUME NEW q \in Ops, up, q = cancellable, q # o
        PROVE  Earlier(q)
    <3>1. q = started /\ o < q /\ Unfinished(o) /\ stopped \subseteq Ops
      BY <1>0, <1>00, <1>7, <2>2 DEF ReadyCb, CancellableIsLatest, UsedInOrder, Unfinished,
         TypeOK, Ops
    <3>2. o \in stopped \/ Earlier(o)
      BY <2>2, <3>1, Zenon DEF StopInv
    <3> QED
      BY <3>1, <3>2 DEF Earlier, Ops
  <2>3. state' \notin Busy
    BY <1>0, <1>7, Zenon DEF ReadyCb, TypeOK, Busy
  <2> QED
    BY <1>7, <2>1, <2>2, <2>3, Zenon DEF ReadyCb, StopInv, Earlier
<1>8. ASSUME NEW c \in Clients, Disconnect(c)
      PROVE StopInv'
  BY <1>8, Zenon DEF Disconnect, StopInv, Earlier, Unfinished, devVars, taskVars, history
<1>9. CASE CompatCleanup
  BY <1>9, Zenon DEF CompatCleanup, CancelCurrent, StopInv, Earlier, history
<1>10. CASE UNCHANGED vars
  BY <1>10, Zenon DEF vars, StopInv, Earlier, Unfinished, devVars, taskVars, history
<1> QED
  BY <1>1, <1>2, <1>3, <1>4, <1>5, <1>6, <1>7, <1>8, <1>9, <1>10, Zenon
     DEF Next, Release, OnClaimerVanished

\* fprintd_async_ready_cb broadcasts nothing for a cancelled operation, and for a
\* stopped one only if an earlier operation was stopped unfinished.
THEOREM OnlyOverlapEscapesStop == Spec => []StoppedStaysSilent
<1>1. Init => StopInv
  BY DEF Init, StopInv, Unfinished, NoTask, NoOp
<1>2. CompatInv /\ StopInv => StoppedStaysSilent
  BY Zenon DEF CompatInv, StopInv, StoppedStaysSilent, NoStatusForCancelled
<1> QED
  BY <1>1, <1>2, StopStep, CompatInvariant, PTL DEF Spec

-----------------------------------------------------------------------------
(* The rate limiter.                                                       *)

HIDE CompatAssumption

\* No failure lies in the future, and no lockout further than the longest one.
TimesPassed ==
  \A i \in Entries : /\ \A j \in Ring : limiters[i].failures[j] <= now
                     /\ limiters[i].until <= now + MaxLockout

\* A user whose last lockout is remembered has a limiter that has counted it.
LengthsMatch ==
  \A u \in Uids : lastLength[u] # 0 =>
    \E i \in Entries : /\ limiters[i].uid = u /\ limiters[i].lockouts > 0
                       /\ lastLength[u] = LockoutLength(limiters[i].lockouts - 1)

LimiterInv == LimiterTypes /\ OneLimiterPerUser /\ TimesPassed /\ LengthsMatch

-----------------------------------------------------------------------------
(* Lengths of lockouts.                                                    *)

LEMMA Sizes ==
  /\ TableSize \in Nat /\ TableSize > 0 /\ RingSize \in Nat /\ RingSize > 0
  /\ MaxAttempts \in Nat /\ Window \in Nat /\ BaseLockout \in Nat /\ BaseLockout > 0
  /\ MaxLockout \in Nat /\ MaxLockout > 0 /\ MaxDoublings \in Nat
  BY LimiterAssumption

\* A lockout is never empty and never beyond its cap, and the next one is twice as
\* long or as long as the cap, or, after MaxDoublings, as long as the last.
LEMMA LengthIs ==
  ASSUME NEW n \in Nat
  PROVE  /\ LockoutLength(n) \in Nat /\ LockoutLength(n) > 0 /\ LockoutLength(n) <= MaxLockout
         /\ \/ LockoutLength(n + 1) = LockoutLength(n)
            \/ LockoutLength(n + 1) = Smaller(2 * LockoutLength(n), MaxLockout)
  <1>1. ASSUME NEW x \in Nat, x > 0
        PROVE  /\ BaseLockout * x \in Nat /\ BaseLockout * x > 0
               /\ BaseLockout * (2 * x) = 2 * (BaseLockout * x)
    <2>1. BaseLockout \in Nat /\ BaseLockout > 0  BY Sizes, Zenon
    <2>2. ASSUME NEW m \in Nat, m > 0
          PROVE  m * x \in Nat /\ m * x > 0 /\ m * (2 * x) = 2 * (m * x)
      BY <1>1, <2>2
    <2> QED  BY <2>1, <2>2, Zenon
  <1> DEFINE P(k) == 2 ^ Smaller(k, MaxDoublings)
  <1>2. ASSUME NEW k \in Nat PROVE P(k) \in Nat /\ P(k) > 0
    <2>1. Smaller(k, MaxDoublings) \in 0..MaxDoublings  BY Sizes DEF Smaller
    <2> QED  BY <2>1, DoublingAssumption
  <1>3. P(n + 1) = P(n) \/ P(n + 1) = 2 * P(n)
    <2>1. CASE n < MaxDoublings
      <3>1. Smaller(n, MaxDoublings) = n /\ Smaller(n + 1, MaxDoublings) = n + 1
        BY <2>1, Sizes DEF Smaller
      <3>2. n \in 0..MaxDoublings  BY <2>1, Sizes
      <3> QED  BY <3>1, <3>2, DoublingAssumption, Zenon
    <2>2. CASE n >= MaxDoublings
      <3>1. Smaller(n, MaxDoublings) = MaxDoublings /\ Smaller(n + 1, MaxDoublings) = MaxDoublings
        BY <2>2, Sizes DEF Smaller
      <3> QED  BY <3>1, Zenon
    <2> QED  BY <2>1, <2>2, Sizes
  <1>4. \A k \in Nat : LockoutLength(k) = Smaller(BaseLockout * P(k), MaxLockout)
    BY Zenon DEF LockoutLength
  <1> HIDE DEF P
  <1> DEFINE a == BaseLockout * P(n)
             b == BaseLockout * P(n + 1)
  <1>5. a \in Nat /\ a > 0 /\ (b = a \/ b = 2 * a)
    BY <1>1, <1>2, <1>3, Zenon
  <1>6. LockoutLength(n) = Smaller(a, MaxLockout) /\ LockoutLength(n + 1) = Smaller(b, MaxLockout)
    BY <1>4
  <1> HIDE DEF a, b
  <1> QED  BY <1>5, <1>6, Sizes DEF Smaller

-----------------------------------------------------------------------------
(* The entry that makes room.                                              *)

LEMMA LeastIs ==
  ASSUME NEW S \in SUBSET Nat, S # {}
  PROVE  \E x \in S : \A y \in S : x <= y
  <1>1. PICK x \in S : \A y \in S : ~(<<y, x>> \in OpToRel(<, Nat))
    BY NatLessThanWellFounded, WFMin, Zenon
  <1>2. \A y \in S : ~(y < x)  BY <1>1, Zenon DEF OpToRel
  <1> QED  BY <1>2

LEMMA GreatestIs ==
  ASSUME NEW S \in SUBSET Nat, S # {}, NEW b \in Nat, \A x \in S : x <= b
  PROVE  \E x \in S : \A y \in S : y <= x
  <1> DEFINE D == {b - x : x \in S}
  <1>0. \A x \in S : b - x \in Nat  OBVIOUS
  <1>1. D \in SUBSET Nat /\ D # {}  BY <1>0, Zenon
  <1>2. PICK d \in D : \A e \in D : d <= e  BY <1>1, LeastIs, Zenon
  <1>3. PICK x \in S : d = b - x  BY <1>2, Zenon
  <1>4. ASSUME NEW y \in S PROVE y <= x
    <2>1. d <= b - y  BY <1>2, Zenon
    <2> QED  BY <1>3, <2>1
  <1> QED  BY <1>4, Zenon

LEMMA EntryIs ==
  ASSUME LimiterTypes, NEW i \in Entries
  PROVE  /\ limiters[i] \in Limiter /\ limiters[i].until \in Nat /\ limiters[i].uid \in Uids
         /\ limiters[i].lockouts \in Nat
         /\ \A j \in Ring : limiters[i].failures[j] \in Nat
  <1>1. limiters[i] \in Limiter  BY DEF LimiterTypes, Entries
  <1> QED  BY <1>1, Zenon DEF Limiter

\* The last activity is the greatest of the times, which exists.
LEMMA LastActivityIs ==
  ASSUME LimiterTypes, TimesPassed, NEW i \in Entries
  PROVE  /\ LastActivity(i) \in Nat /\ limiters[i].until <= LastActivity(i)
         /\ LastActivity(i) = limiters[i].until \/ LastActivity(i) <= now
  <1> DEFINE S == {limiters[i].failures[j] : j \in Ring} \cup {limiters[i].until}
  <1>1. S \in SUBSET Nat /\ S # {}  BY EntryIs, Zenon
  <1>2. now + MaxLockout \in Nat  BY Sizes DEF LimiterTypes
  <1>3. \A x \in S : x <= now + MaxLockout
    <2>1. \A j \in Ring : limiters[i].failures[j] <= now + MaxLockout
      BY EntryIs, Sizes DEF LimiterTypes, TimesPassed
    <2> QED  BY <2>1, Zenon DEF TimesPassed
  <1>4. \A x \in S : x = limiters[i].until \/ x <= now  BY Zenon DEF TimesPassed
  <1>5. limiters[i].until \in S  BY Zenon
  <1>6. LastActivity(i) = CHOOSE x \in S : \A y \in S : y <= x  BY Zenon DEF LastActivity
  <1> HIDE DEF S
  <1>7. \E x \in S : \A y \in S : y <= x  BY <1>1, <1>2, <1>3, GreatestIs, Zenon
  <1>8. LastActivity(i) \in S /\ \A y \in S : y <= LastActivity(i)  BY <1>6, <1>7, Zenon
  <1> QED  BY <1>1, <1>4, <1>5, <1>8, Zenon

\* The table has a victim: an entry whose last activity is the oldest.
LEMMA VictimIs ==
  ASSUME LimiterTypes, TimesPassed, Entries # {}
  PROVE  Victim \in Entries /\ \A j \in Entries : LastActivity(Victim) <= LastActivity(j)
  <1>1. \A i \in Entries : LastActivity(i) \in Nat  BY LastActivityIs, Zenon
  <1> DEFINE A == {LastActivity(i) : i \in Entries}
  <1>2. A \in SUBSET Nat /\ A # {}  BY <1>1, Zenon
  <1>3. PICK m \in A : \A a \in A : m <= a  BY <1>2, LeastIs, Zenon
  <1> DEFINE M == {i \in Entries : LastActivity(i) = m}
  <1>4. M \in SUBSET Nat /\ M # {}  BY <1>3 DEF Entries
  <1>5. PICK v \in M : \A i \in M : v <= i  BY <1>4, LeastIs, Zenon
  <1>6. v \in Entries /\ LastActivity(v) = m  BY <1>5, Zenon
  <1>7. \A j \in Entries : m <= LastActivity(j)  BY <1>3, Zenon
  <1>8. ASSUME NEW j \in 1..(v - 1) PROVE m < LastActivity(j)
    <2>1. j \in Entries /\ ~(v <= j)  BY <1>6 DEF Entries, LimiterTypes
    <2>2. LastActivity(j) # m  BY <1>5, <2>1, Zenon
    <2> QED  BY <1>1, <1>2, <1>7, <2>1, <2>2
  <1> HIDE DEF A, M
  <1> DEFINE Q(i) == /\ \A j \in Entries : LastActivity(i) <= LastActivity(j)
                     /\ \A j \in 1..(i - 1) : LastActivity(i) < LastActivity(j)
  <1>9. Q(v)  BY <1>6, <1>7, <1>8, Zenon
  <1>10. Victim = CHOOSE i \in Entries : Q(i)  BY Zenon DEF Victim
  <1>11. Victim \in Entries /\ Q(Victim)
    <2> HIDE DEF Q
    <2> QED  BY <1>6, <1>9, <1>10, Zenon
  <1> QED  BY <1>11, Zenon

-----------------------------------------------------------------------------
(* find_rate_limiter.                                                      *)

LEMMA FreshIs ==
  ASSUME NEW u \in Uids
  PROVE  /\ Fresh(u) \in Limiter /\ Fresh(u).uid = u
         /\ Fresh(u).until = 0 /\ \A j \in Ring : Fresh(u).failures[j] = 0
  BY Sizes DEF Fresh, Limiter

\* A table of at most TableSize limiters, one per user, that agrees with the times.
GoodTable(f) ==
  /\ f \in Seq(Limiter) /\ Len(f) <= TableSize
  /\ \A i, j \in 1..Len(f) : f[i].uid = f[j].uid => i = j
  /\ \A i \in 1..Len(f) : /\ \A j \in Ring : f[i].failures[j] <= now
                          /\ f[i].until <= now + MaxLockout

LEMMA PutIs ==
  ASSUME NEW f \in Seq(Limiter), NEW i \in 1..Len(f), NEW r \in Limiter
  PROVE  /\ [f EXCEPT ![i] = r] \in Seq(Limiter) /\ Len([f EXCEPT ![i] = r]) = Len(f)
         /\ \A k \in 1..Len(f) : [f EXCEPT ![i] = r][k] = IF k = i THEN r ELSE f[k]
  OBVIOUS

\* Replacing an entry by one whose user has no other keeps the table good.
LEMMA PutGood ==
  ASSUME NEW f, GoodTable(f), NEW i \in 1..Len(f), NEW r \in Limiter,
         \A k \in 1..Len(f) : f[k].uid = r.uid => k = i,
         \A j \in Ring : r.failures[j] <= now, r.until <= now + MaxLockout
  PROVE  GoodTable([f EXCEPT ![i] = r])
  <1> DEFINE g == [f EXCEPT ![i] = r]
  <1>1. /\ g \in Seq(Limiter) /\ Len(g) = Len(f)
        /\ \A k \in 1..Len(f) : g[k] = IF k = i THEN r ELSE f[k]
    BY PutIs DEF GoodTable
  <1> HIDE DEF g
  <1>2. \A k, l \in 1..Len(g) : g[k].uid = g[l].uid => k = l  BY <1>1, Zenon DEF GoodTable
  <1>3. \A k \in 1..Len(g) : /\ \A j \in Ring : g[k].failures[j] <= now
                             /\ g[k].until <= now + MaxLockout
    BY <1>1, Zenon DEF GoodTable
  <1>4. GoodTable(g)  BY <1>1, <1>2, <1>3, Zenon DEF GoodTable
  <1> QED  BY <1>4, Zenon DEF g

LEMMA TableIsGood ==
  ASSUME LimiterInv
  PROVE  GoodTable(limiters)
  BY Zenon DEF LimiterInv, LimiterTypes, OneLimiterPerUser, TimesPassed, GoodTable, Entries

\* The table find_rate_limiter leaves: u has one entry, the one it returns; every
\* other user's is as it was, except that a full table lost its victim.
Finds(u, f, i) ==
  /\ GoodTable(f) /\ i \in 1..Len(f) /\ f[i].uid = u
  /\ Has(u) => f = limiters
  /\ \A k \in Entries : \/ k \in 1..Len(f) /\ f[k] = limiters[k]
                        \/ ~Has(u) /\ k = Victim
  /\ \A k \in 1..Len(f) : k = i \/ (k \in Entries /\ f[k] = limiters[k])

LEMMA FindsIs ==
  ASSUME LimiterInv, NEW u \in Uids
  PROVE  Finds(u, Found(u), IndexOf(u))
  <1> DEFINE f == Found(u)
  <1>0. LimiterTypes /\ TimesPassed /\ now \in Nat /\ now + MaxLockout \in Nat
    BY Sizes DEF LimiterInv, LimiterTypes
  <1>1. \A k \in 1..Len(f) : f[k].uid = u => IndexOf(u) \in 1..Len(f) /\ f[IndexOf(u)].uid = u
    BY Zenon DEF IndexOf
  <1>2. \A k \in 1..Len(f) : GoodTable(f) /\ f[k].uid = u => IndexOf(u) = k
    BY <1>1, Zenon DEF GoodTable
  <1> SUFFICES ASSUME NEW k, Finds(u, f, k) PROVE Finds(u, f, IndexOf(u))
    <2>1. CASE Has(u)
      <3>1. f = limiters  BY <2>1, Zenon DEF Found
      <3>2. PICK k \in Entries : limiters[k].uid = u  BY <2>1, Zenon DEF Has
      <3>3. Finds(u, f, k)
        BY <3>1, <3>2, TableIsGood, Zenon DEF Finds, Entries
      <3> QED  BY <3>3, Zenon
    <2>2. CASE ~Has(u) /\ Len(limiters) < TableSize
      <3>1. f = Append(limiters, Fresh(u))  BY <2>2, Zenon DEF Found
      <3> DEFINE n == Len(limiters) + 1
      <3>2. /\ f \in Seq(Limiter) /\ Len(f) = n /\ f[n] = Fresh(u)
            /\ \A k \in Entries : k \in 1..n /\ k # n /\ f[k] = limiters[k]
            /\ \A k \in 1..n : k = n \/ k \in Entries
        BY <1>0, <3>1, FreshIs DEF LimiterTypes, Entries
      <3>3. \A k \in Entries : f[k].uid # u  BY <2>2, <3>2, Zenon DEF Has
      <3>4. GoodTable(f)
        <4>1. GoodTable(limiters) /\ Entries = 1..Len(limiters)  BY TableIsGood, Zenon DEF Entries
        <4>2. \A i, j \in 1..Len(f) : f[i].uid = f[j].uid => i = j
          BY <3>2, <3>3, <4>1, FreshIs DEF GoodTable
        <4>3. \A i \in 1..Len(f) : /\ \A j \in Ring : f[i].failures[j] <= now
                                   /\ f[i].until <= now + MaxLockout
          BY <1>0, <3>2, <4>1, FreshIs DEF GoodTable
        <4>4. Len(f) <= TableSize  BY <1>0, <2>2, <3>2, Sizes DEF LimiterTypes
        <4> QED  BY <3>2, <4>2, <4>3, <4>4, Zenon DEF GoodTable
      <3>5. n \in 1..Len(f)  BY <1>0, <3>2 DEF LimiterTypes
      <3>6. Finds(u, f, n)
        <4> HIDE DEF f, n
        <4>1. f[n].uid = u /\ Len(f) = n  BY <3>2, FreshIs, Zenon
        <4>2. \A k \in Entries : k \in 1..Len(f) /\ f[k] = limiters[k]  BY <3>2, Zenon
        <4>3. \A k \in 1..Len(f) : k = n \/ (k \in Entries /\ f[k] = limiters[k])  BY <3>2, Zenon
        <4> QED  BY <2>2, <3>4, <3>5, <4>1, <4>2, <4>3, Zenon DEF Finds
      <3> QED  BY <3>6, Zenon
    <2>3. CASE ~Has(u) /\ ~(Len(limiters) < TableSize)
      <3>1. f = [limiters EXCEPT ![Victim] = Fresh(u)]  BY <2>3, Zenon DEF Found
      <3>2. Entries # {}  BY <1>0, <2>3, Sizes DEF LimiterTypes, Entries
      <3>3. Victim \in Entries  BY <1>0, <3>2, VictimIs, Zenon
      <3>4. /\ Len(f) = Len(limiters)
            /\ \A k \in Entries : f[k] = IF k = Victim THEN Fresh(u) ELSE limiters[k]
        BY <1>0, <3>1, <3>3, FreshIs, PutIs DEF LimiterTypes, Entries
      <3>5. \A k \in Entries : limiters[k].uid # u  BY <2>3, Zenon DEF Has
      <3>6. GoodTable(f)
        <4>1. \A k \in 1..Len(limiters) : limiters[k].uid = Fresh(u).uid => k = Victim
          BY <3>5, FreshIs, Zenon DEF Entries
        <4>2. (\A j \in Ring : Fresh(u).failures[j] <= now) /\ Fresh(u).until <= now + MaxLockout
          BY <1>0, FreshIs
        <4>3. GoodTable(limiters) /\ Victim \in 1..Len(limiters) /\ Fresh(u) \in Limiter
          BY <3>3, FreshIs, TableIsGood, Zenon DEF Entries
        <4>4. GoodTable([limiters EXCEPT ![Victim] = Fresh(u)])
          BY <4>1, <4>2, <4>3, PutGood, Zenon
        <4> QED  BY <3>1, <4>4, Zenon
      <3>7. Finds(u, f, Victim)
        <4>1. f[Victim].uid = u  BY <3>3, <3>4, FreshIs, Zenon
        <4>2. \A k \in Entries : f[k] = limiters[k] \/ k = Victim  BY <3>4, Zenon
        <4>3. 1..Len(f) = Entries  BY <3>4, Zenon DEF Entries
        <4> HIDE DEF f
        <4>4. Victim \in 1..Len(f)  BY <3>3, <4>3, Zenon
        <4>5. \A k \in Entries : \/ k \in 1..Len(f) /\ f[k] = limiters[k]
                                 \/ ~Has(u) /\ k = Victim
          BY <2>3, <4>2, <4>3, Zenon
        <4>6. \A k \in 1..Len(f) : k = Victim \/ (k \in Entries /\ f[k] = limiters[k])
          BY <4>2, <4>3, Zenon
        <4> QED  BY <2>3, <3>6, <4>1, <4>4, <4>5, <4>6, Zenon DEF Finds
      <3> QED  BY <3>7, Zenon
    <2> QED  BY <2>1, <2>2, <2>3, Zenon
  <1> HIDE DEF f
  <1>3. IndexOf(u) = k  BY <1>2, Zenon DEF Finds
  <1> QED  BY <1>3, Zenon

-----------------------------------------------------------------------------
(* The steps.  Begin, Fail and Succeed find the entry of u, replace it by r *)
(* and remember n as the length of the last lockout.                       *)

Sets(u, r, n) ==
  /\ now' = now
  /\ limiters' \in Seq(Limiter) /\ Len(limiters') = Len(Found(u))
  /\ \A k \in 1..Len(Found(u)) : limiters'[k] = IF k = IndexOf(u) THEN r ELSE Found(u)[k]
  /\ lastLength' \in [Uids -> Nat] /\ lastLength'[u] = n
  /\ \A v \in Uids \ {u} :
       lastLength'[v] = IF \E k \in 1..Len(Found(u)) : Found(u)[k].uid = v THEN lastLength[v] ELSE 0

\* The entry agrees with the clock and with the length, which is the last one, that
\* of one lockout more, or none.
Fits(u, r, n) ==
  /\ r \in Limiter /\ r.uid = u
  /\ \A j \in Ring : r.failures[j] <= now
  /\ r.until <= now + MaxLockout
  /\ n # 0 => r.lockouts > 0 /\ n = LockoutLength(r.lockouts - 1)
  /\ n \in {0, lastLength[u], LockoutLength(Found(u)[IndexOf(u)].lockouts)}

\* The entry found for u has counted the lockout that is remembered for u.
LEMMA FoundMatches ==
  ASSUME LimiterInv, NEW u \in Uids, lastLength[u] # 0
  PROVE  /\ Has(u) /\ Found(u)[IndexOf(u)].lockouts > 0
         /\ lastLength[u] = LockoutLength(Found(u)[IndexOf(u)].lockouts - 1)
  <1>1. PICK i \in Entries : /\ limiters[i].uid = u /\ limiters[i].lockouts > 0
                             /\ lastLength[u] = LockoutLength(limiters[i].lockouts - 1)
    BY Zenon DEF LimiterInv, LengthsMatch
  <1>2. Has(u)  BY <1>1, Zenon DEF Has
  <1>3. Finds(u, Found(u), IndexOf(u))  BY FindsIs, Zenon
  <1>4. Found(u) = limiters /\ IndexOf(u) \in Entries /\ limiters[IndexOf(u)].uid = u
    BY <1>2, <1>3, Zenon DEF Finds, Entries
  <1>5. IndexOf(u) = i  BY <1>1, <1>4, Zenon DEF LimiterInv, OneLimiterPerUser
  <1> QED  BY <1>1, <1>2, <1>4, <1>5, Zenon

\* Such a step keeps the invariant.
LEMMA SetsKeeps ==
  ASSUME LimiterInv, NEW u \in Uids, NEW r, NEW n, Sets(u, r, n), Fits(u, r, n),
         verifying' \in [Threads -> Uids \cup {NoUid}], fails' \in [Uids -> Seq(Nat)]
  PROVE  LimiterInv'
  <1> DEFINE f == Found(u)
             i == IndexOf(u)
             g == limiters'
  <1>1. Finds(u, f, i)  BY FindsIs, Zenon
  <1>2. /\ g \in Seq(Limiter) /\ Len(g) = Len(f) /\ now' = now
        /\ \A k \in 1..Len(f) : g[k] = IF k = i THEN r ELSE f[k]
    BY Zenon DEF Sets
  <1>3. /\ r.uid = u /\ r.until <= now + MaxLockout
        /\ \A j \in Ring : r.failures[j] <= now
    BY Zenon DEF Fits
  <1>4. /\ Len(f) <= TableSize /\ i \in 1..Len(f) /\ f[i].uid = u
        /\ \A k, l \in 1..Len(f) : f[k].uid = f[l].uid => k = l
        /\ \A k \in 1..Len(f) : /\ \A j \in Ring : f[k].failures[j] <= now
                                /\ f[k].until <= now + MaxLockout
        /\ \A k \in 1..Len(f) : k = i \/ (k \in Entries /\ f[k] = limiters[k])
    BY <1>1, Zenon DEF Finds, GoodTable
  <1>5. Entries' = 1..Len(f)  BY <1>2, Zenon DEF Entries
  <1>6. \A v \in Uids \ {u} : lastLength'[v] =
          IF \E k \in 1..Len(f) : f[k].uid = v THEN lastLength[v] ELSE 0
    BY Zenon DEF Sets
  <1>7. lastLength' \in [Uids -> Nat] /\ lastLength'[u] = n  BY Zenon DEF Sets
  <1>8. n # 0 => r.lockouts > 0 /\ n = LockoutLength(r.lockouts - 1)  BY Zenon DEF Fits
  <1> HIDE DEF f, i
  <1>9. LimiterTypes'
    <2>1. Len(g) <= TableSize  BY <1>2, <1>4, Zenon
    <2>2. now' \in Nat  BY <1>2, Zenon DEF LimiterInv, LimiterTypes
    <2> QED  BY <1>2, <1>7, <2>1, <2>2, Zenon DEF LimiterTypes
  <1>10. OneLimiterPerUser'
    <2>1. \A k \in 1..Len(f) : g[k].uid = f[k].uid  BY <1>2, <1>3, <1>4, Zenon
    <2>2. \A k, l \in 1..Len(f) : g[k].uid = g[l].uid => k = l  BY <1>4, <2>1, Zenon
    <2> QED  BY <1>5, <2>2, Zenon DEF OneLimiterPerUser
  <1>11. TimesPassed'
    <2>1. ASSUME NEW k \in 1..Len(f)
          PROVE  (\A j \in Ring : g[k].failures[j] <= now) /\ g[k].until <= now + MaxLockout
      <3>1. g[k] = r \/ g[k] = f[k]  BY <1>2, Zenon
      <3> QED  BY <1>3, <1>4, <3>1, Zenon
    <2> QED  BY <1>2, <1>5, <2>1, Zenon DEF TimesPassed
  <1>12. LengthsMatch'
    <2> SUFFICES ASSUME NEW v \in Uids, lastLength'[v] # 0
                 PROVE  \E k \in 1..Len(f) :
                          /\ g[k].uid = v /\ g[k].lockouts > 0
                          /\ lastLength'[v] = LockoutLength(g[k].lockouts - 1)
      BY <1>5, Zenon DEF LengthsMatch
    <2>1. CASE v = u
      <3>1. i \in 1..Len(f) /\ g[i] = r  BY <1>2, <1>4, Zenon
      <3> QED  BY <1>3, <1>7, <1>8, <2>1, <3>1, Zenon
    <2>2. CASE v # u
      <3>1. v \in Uids \ {u}  BY <2>2, Zenon
      <3>2. (\E k \in 1..Len(f) : f[k].uid = v) /\ lastLength'[v] = lastLength[v]
        BY <1>6, <3>1, Zenon
      <3>3. PICK k \in 1..Len(f) : f[k].uid = v  BY <3>2, Zenon
      <3>4. k # i  BY <1>4, <2>2, <3>3, Zenon
      <3>5. k \in Entries /\ f[k] = limiters[k] /\ g[k] = f[k]  BY <1>2, <1>4, <3>4, Zenon
      <3>6. PICK l \in Entries : /\ limiters[l].uid = v /\ limiters[l].lockouts > 0
                                 /\ lastLength[v] = LockoutLength(limiters[l].lockouts - 1)
        BY <3>2, Zenon DEF LimiterInv, LengthsMatch
      <3>7. k = l  BY <3>3, <3>5, <3>6, Zenon DEF LimiterInv, OneLimiterPerUser
      <3> QED  BY <3>2, <3>3, <3>5, <3>6, <3>7, Zenon
    <2> QED  BY <2>1, <2>2, Zenon
  <1> QED  BY <1>9, <1>10, <1>11, <1>12, Zenon DEF LimiterInv

\* Such a step makes a lockout longer as it should, and drops a running one only from
\* a table of running ones.
Escalates ==
  \A u \in Uids : (lastLength[u] # 0 /\ lastLength'[u] # lastLength[u] /\ lastLength'[u] # 0) =>
    lastLength'[u] = Smaller(2 * lastLength[u], MaxLockout)
Evicts ==
  \A u \in Uids : (Has(u) /\ ~Has(u)' /\ Locked(u)) => \A i \in Entries : limiters[i].until > now

LEMMA SetsStands ==
  ASSUME LimiterInv, NEW u \in Uids, NEW r, NEW n, Sets(u, r, n), Fits(u, r, n)
  PROVE  Escalates /\ Evicts
  <1> DEFINE f == Found(u)
             i == IndexOf(u)
             g == limiters'
  <1>0. LimiterTypes /\ TimesPassed /\ now \in Nat  BY Zenon DEF LimiterInv, LimiterTypes
  <1>1. Finds(u, f, i)  BY FindsIs, Zenon
  <1>2. /\ Len(g) = Len(f)
        /\ \A k \in 1..Len(f) : g[k] = IF k = i THEN r ELSE f[k]
    BY Zenon DEF Sets
  <1>3. Escalates
    <2> SUFFICES ASSUME NEW v \in Uids, lastLength[v] # 0, lastLength'[v] # lastLength[v],
                        lastLength'[v] # 0
                 PROVE  lastLength'[v] = Smaller(2 * lastLength[v], MaxLockout)
      BY Zenon DEF Escalates
    <2>1. v = u  BY Zenon DEF Sets
    <2>2. lastLength'[v] = LockoutLength(f[i].lockouts)  BY <2>1, Zenon DEF Sets, Fits
    <2>3. f[i].lockouts > 0 /\ lastLength[v] = LockoutLength(f[i].lockouts - 1)
      BY <2>1, FoundMatches, Zenon
    <2>4. f[i].lockouts \in Nat
      <3>1. f[i] \in Limiter  BY <1>1 DEF Finds, GoodTable
      <3> QED  BY <3>1, Zenon DEF Limiter
    <2> DEFINE m == f[i].lockouts - 1
    <2>5. m \in Nat /\ m + 1 = f[i].lockouts  BY <2>3, <2>4
    <2>6. lastLength'[v] = LockoutLength(m + 1) /\ lastLength[v] = LockoutLength(m)
      BY <2>2, <2>3, <2>5, Zenon
    <2> HIDE DEF m
    <2> QED  BY <2>5, <2>6, LengthIs, Zenon
  <1>4. Evicts
    <2> SUFFICES ASSUME NEW v \in Uids, Has(v), ~Has(v)', Locked(v)
                 PROVE  \A j \in Entries : limiters[j].until > now
      BY Zenon DEF Evicts
    <2>1. PICK k \in Entries : limiters[k].uid = v /\ limiters[k].until > now  BY Zenon DEF Locked
    <2>2. ~(k \in 1..Len(f) /\ f[k] = limiters[k])
      <3>1. SUFFICES ASSUME k \in 1..Len(f), f[k] = limiters[k] PROVE FALSE
        BY Zenon
      <3>2. k \in Entries' /\ limiters'[k].uid = v
        <4>1. k \in Entries'  BY <1>2, <3>1, Zenon DEF Entries
        <4>2. f[k].uid = v  BY <2>1, <3>1, Zenon
        <4>3. k = i => v = u  BY <1>1, <4>2, Zenon DEF Finds
        <4>4. r.uid = u  BY Zenon DEF Fits
        <4>5. limiters'[k].uid = v  BY <1>2, <3>1, <4>2, <4>3, <4>4, Zenon
        <4> QED  BY <4>1, <4>5, Zenon
      <3> QED  BY <3>2, Zenon DEF Has
    <2>3. k = Victim  BY <1>1, <2>2, Zenon DEF Finds
    <2>4. \A j \in Entries : LastActivity(k) <= LastActivity(j)
      BY <1>0, <2>1, <2>3, VictimIs, Zenon
    <2>5. ASSUME NEW j \in Entries PROVE limiters[j].until > now
      <3>1. LastActivity(k) \in Nat /\ limiters[k].until <= LastActivity(k)
        BY <1>0, LastActivityIs, Zenon
      <3>2. LastActivity(j) \in Nat /\ (LastActivity(j) = limiters[j].until \/ LastActivity(j) <= now)
        BY <1>0, LastActivityIs, Zenon
      <3>3. limiters[k].until \in Nat /\ limiters[j].until \in Nat  BY <1>0, EntryIs, Zenon
      <3>4. LastActivity(k) <= LastActivity(j)  BY <2>4, Zenon
      <3> QED  BY <1>0, <2>1, <3>1, <3>2, <3>3, <3>4
    <2> QED  BY <2>5, Zenon
  <1> QED  BY <1>3, <1>4, Zenon

\* A step that finds the entry of a user and replaces it.
Records ==
  /\ verifying' \in [Threads -> Uids \cup {NoUid}] /\ fails' \in [Uids -> Seq(Nat)]
  /\ \E u \in Uids : \E r \in Limiter : \E n \in Nat : Sets(u, r, n) /\ Fits(u, r, n)

LEMMA KeptIs ==
  ASSUME NEW S, NEW h \in [Uids -> S], NEW none \in S, NEW f
  PROVE  /\ Kept(f, h, none) \in [Uids -> S]
         /\ \A v \in Uids : Kept(f, h, none)[v] =
              IF \E k \in 1..Len(f) : f[k].uid = v THEN h[v] ELSE none
  BY Zenon DEF Kept

\* What the three commands share: the histories kept for the users of the new table.
LEMMA KeptHistories ==
  ASSUME LimiterInv, NEW u \in Uids
  PROVE  /\ Kept(Found(u), fails, <<>>) \in [Uids -> Seq(Nat)]
         /\ Kept(Found(u), lastLength, 0) \in [Uids -> Nat]
         /\ Kept(Found(u), lastLength, 0)[u] = lastLength[u]
         /\ \A v \in Uids : Kept(Found(u), lastLength, 0)[v] =
              IF \E k \in 1..Len(Found(u)) : Found(u)[k].uid = v THEN lastLength[v] ELSE 0
  <1>1. fails \in [Uids -> Seq(Nat)] /\ lastLength \in [Uids -> Nat]
    BY Zenon DEF LimiterInv, LimiterTypes
  <1>2. <<>> \in Seq(Nat) /\ 0 \in Nat  OBVIOUS
  <1>3. Finds(u, Found(u), IndexOf(u))  BY FindsIs, Zenon
  <1>4. \E k \in 1..Len(Found(u)) : Found(u)[k].uid = u  BY <1>3, Zenon DEF Finds
  <1>5. Kept(Found(u), fails, <<>>) \in [Uids -> Seq(Nat)]  BY <1>1, <1>2, KeptIs, Zenon
  <1>6. Kept(Found(u), lastLength, 0) \in [Uids -> Nat]  BY <1>1, <1>2, KeptIs, Zenon
  <1>7. \A v \in Uids : Kept(Found(u), lastLength, 0)[v] =
          IF \E k \in 1..Len(Found(u)) : Found(u)[k].uid = v THEN lastLength[v] ELSE 0
    BY Zenon DEF Kept
  <1> QED  BY <1>4, <1>5, <1>6, <1>7, Zenon

\* The entry found for u, as the commands use it.
LEMMA FoundEntry ==
  ASSUME LimiterInv, NEW u \in Uids
  PROVE  /\ Found(u) \in Seq(Limiter) /\ IndexOf(u) \in 1..Len(Found(u))
         /\ Found(u)[IndexOf(u)] \in Limiter /\ Found(u)[IndexOf(u)].uid = u
         /\ \A j \in Ring : Found(u)[IndexOf(u)].failures[j] <= now
         /\ Found(u)[IndexOf(u)].until <= now + MaxLockout
         /\ lastLength[u] # 0 =>
              /\ Found(u)[IndexOf(u)].lockouts > 0
              /\ lastLength[u] = LockoutLength(Found(u)[IndexOf(u)].lockouts - 1)
  <1>1. Finds(u, Found(u), IndexOf(u))  BY FindsIs, Zenon
  <1>2. Found(u) \in Seq(Limiter) /\ IndexOf(u) \in 1..Len(Found(u))  BY <1>1, Zenon DEF Finds, GoodTable
  <1>3. Found(u)[IndexOf(u)] \in Limiter  BY <1>2
  <1>4. lastLength[u] # 0 =>
              /\ Found(u)[IndexOf(u)].lockouts > 0
              /\ lastLength[u] = LockoutLength(Found(u)[IndexOf(u)].lockouts - 1)
    BY FoundMatches, Zenon
  <1> QED  BY <1>1, <1>2, <1>3, <1>4, Zenon DEF Finds, GoodTable

\* reset_verify_rate_limit.
LEMMA SucceedRecords ==
  ASSUME LimiterInv, NEW t \in Threads, Succeed(t)
  PROVE  Records
  <1> DEFINE u == verifying[t]
             f == Found(u)
             i == IndexOf(u)
             r == Fresh(u)
  <1>0. now \in Nat /\ verifying \in [Threads -> Uids \cup {NoUid}] /\ now + MaxLockout \in Nat
    BY Sizes DEF LimiterInv, LimiterTypes
  <1>1. u \in Uids /\ u # NoUid  BY <1>0, Zenon DEF Succeed
  <1>2. /\ limiters' = [f EXCEPT ![i] = r] /\ verifying' = [verifying EXCEPT ![t] = NoUid]
        /\ fails' = [Kept(f, fails, <<>>) EXCEPT ![u] = <<>>]
        /\ lastLength' = [Kept(f, lastLength, 0) EXCEPT ![u] = 0] /\ now' = now
    BY Zenon DEF Succeed
  <1> HIDE DEF u
  <1>3. f \in Seq(Limiter) /\ i \in 1..Len(f)  BY <1>1, FoundEntry, Zenon
  <1>4. r \in Limiter /\ r.uid = u /\ r.until = 0 /\ \A j \in Ring : r.failures[j] = 0
    BY <1>1, FreshIs, Zenon
  <1>5. /\ Kept(f, fails, <<>>) \in [Uids -> Seq(Nat)] /\ Kept(f, lastLength, 0) \in [Uids -> Nat]
        /\ \A v \in Uids : Kept(f, lastLength, 0)[v] =
             IF \E k \in 1..Len(f) : f[k].uid = v THEN lastLength[v] ELSE 0
    BY <1>1, KeptHistories, Zenon
  <1> HIDE DEF f, i, r
  <1>6. /\ limiters' \in Seq(Limiter) /\ Len(limiters') = Len(f)
        /\ \A k \in 1..Len(f) : limiters'[k] = IF k = i THEN r ELSE f[k]
    BY <1>2, <1>3, <1>4, PutIs
  <1>7. /\ lastLength' \in [Uids -> Nat] /\ lastLength'[u] = 0
        /\ \A v \in Uids \ {u} : lastLength'[v] = Kept(f, lastLength, 0)[v]
    BY <1>1, <1>2, <1>5, Zenon
  <1>8. \A v \in Uids \ {u} : lastLength'[v] =
             IF \E k \in 1..Len(f) : f[k].uid = v THEN lastLength[v] ELSE 0
    BY <1>5, <1>7, Zenon
  <1>9. Sets(u, r, 0)  BY <1>2, <1>6, <1>7, <1>8, Zenon DEF Sets, f, i
  <1>10. Fits(u, r, 0)
    <2>1. r.until <= now + MaxLockout /\ \A j \in Ring : r.failures[j] <= now  BY <1>0, <1>4
    <2> QED  BY <1>4, <2>1, Zenon DEF Fits
  <1>11. verifying' \in [Threads -> Uids \cup {NoUid}]  BY <1>0, <1>2, Zenon
  <1>12. fails' \in [Uids -> Seq(Nat)]
    <2>1. <<>> \in Seq(Nat)  OBVIOUS
    <2> QED  BY <1>1, <1>2, <1>5, <2>1, Zenon
  <1> QED  BY <1>1, <1>4, <1>9, <1>10, <1>11, <1>12 DEF Records

\* What an expired lockout clears.
Cleared(x) == [x EXCEPT !.until = 0, !.count = 0, !.idx = 0]

LEMMA ClearedIs ==
  ASSUME NEW x \in Limiter
  PROVE  /\ Cleared(x) \in Limiter /\ Cleared(x).uid = x.uid /\ Cleared(x).until = 0
         /\ Cleared(x).lockouts = x.lockouts /\ Cleared(x).failures = x.failures
  <1>1. 0 \in 0..RingSize  BY Sizes
  <1>2. Cleared(x) \in Limiter  BY <1>1, Zenon DEF Limiter, Cleared
  <1>3. Cleared(x).uid = x.uid /\ Cleared(x).until = 0  BY Zenon DEF Limiter, Cleared
  <1>4. Cleared(x).lockouts = x.lockouts  BY Zenon DEF Limiter, Cleared
  <1>5. Cleared(x).failures = x.failures  BY Zenon DEF Limiter, Cleared
  <1> QED  BY <1>2, <1>3, <1>4, <1>5, Zenon

LEMMA ClearedIn ==
  ASSUME NEW f \in Seq(Limiter), NEW i \in 1..Len(f)
  PROVE  [f EXCEPT ![i].until = 0, ![i].count = 0, ![i].idx = 0] = [f EXCEPT ![i] = Cleared(f[i])]
  <1> DEFINE f1 == [f EXCEPT ![i].until = 0]
             f2 == [f1 EXCEPT ![i].count = 0]
             f3 == [f2 EXCEPT ![i].idx = 0]
             g == [f EXCEPT ![i] = Cleared(f[i])]
  <1>1. f1[i] = [f[i] EXCEPT !.until = 0] /\ DOMAIN f1 = 1..Len(f)  OBVIOUS
  <1>2. f2[i] = [f1[i] EXCEPT !.count = 0] /\ DOMAIN f2 = 1..Len(f)  BY <1>1, Zenon
  <1>3. f3[i] = [f2[i] EXCEPT !.idx = 0]  BY <1>2, Zenon
  <1>4. f3[i] = Cleared(f[i])  BY <1>1, <1>2, <1>3, Zenon DEF Cleared
  <1>5. \A k \in 1..Len(f) : k # i => f3[k] = f[k]  OBVIOUS
  <1>6. f3 = g  BY <1>4, <1>5, Zenon
  <1> QED  BY <1>6, Zenon

\* check_verify_rate_limit.
LEMMA BeginRecords ==
  ASSUME LimiterInv, NEW t \in Threads, NEW u \in Uids, Begin(t, u)
  PROVE  Records
  <1> DEFINE f == Found(u)
             i == IndexOf(u)
             rl == f[i]
             over == rl.until > 0 /\ rl.until <= now
             r == IF over THEN Cleared(rl) ELSE rl
             n == lastLength[u]
  <1>0. /\ now \in Nat /\ verifying \in [Threads -> Uids \cup {NoUid}] /\ now + MaxLockout \in Nat
        /\ n \in Nat
    BY Sizes DEF LimiterInv, LimiterTypes
  <1>1. /\ limiters' = IF over THEN [f EXCEPT ![i].until = 0, ![i].count = 0, ![i].idx = 0] ELSE f
        /\ verifying' = IF rl.until > now THEN verifying ELSE [verifying EXCEPT ![t] = u]
        /\ fails' = [Kept(f, fails, <<>>) EXCEPT ![u] = IF over THEN <<>> ELSE @]
        /\ lastLength' = Kept(f, lastLength, 0) /\ now' = now
    BY Zenon DEF Begin
  <1>2. /\ f \in Seq(Limiter) /\ i \in 1..Len(f) /\ rl \in Limiter /\ rl.uid = u
        /\ \A j \in Ring : rl.failures[j] <= now
        /\ rl.until <= now + MaxLockout
        /\ n # 0 => rl.lockouts > 0 /\ n = LockoutLength(rl.lockouts - 1)
    BY FoundEntry, Zenon
  <1>3. /\ Kept(f, fails, <<>>) \in [Uids -> Seq(Nat)] /\ Kept(f, lastLength, 0) \in [Uids -> Nat]
        /\ Kept(f, lastLength, 0)[u] = n
        /\ \A v \in Uids : Kept(f, lastLength, 0)[v] =
             IF \E k \in 1..Len(f) : f[k].uid = v THEN lastLength[v] ELSE 0
    BY KeptHistories, Zenon
  <1> HIDE DEF f, i, n
  <1>4. /\ r \in Limiter /\ r.uid = u /\ r.lockouts = rl.lockouts
        /\ \A j \in Ring : r.failures[j] <= now
        /\ r.until <= now + MaxLockout
    <2>1. /\ Cleared(rl) \in Limiter /\ Cleared(rl).uid = u /\ Cleared(rl).until = 0
          /\ Cleared(rl).lockouts = rl.lockouts /\ Cleared(rl).failures = rl.failures
      BY <1>2, ClearedIs, Zenon
    <2>2. CASE over  BY <1>0, <1>2, <2>1, <2>2
    <2>3. CASE ~over  BY <1>2, <2>3, Zenon
    <2> QED  BY <2>2, <2>3, Zenon
  <1>5. /\ limiters' \in Seq(Limiter) /\ Len(limiters') = Len(f)
        /\ \A k \in 1..Len(f) : limiters'[k] = IF k = i THEN r ELSE f[k]
    <2>1. CASE over
      <3>1. limiters' = [f EXCEPT ![i].until = 0, ![i].count = 0, ![i].idx = 0]
        BY <1>1, <2>1, Zenon
      <3>2. limiters' = [f EXCEPT ![i] = Cleared(rl)]  BY <1>2, <3>1, ClearedIn, Zenon
      <3>3. limiters' = [f EXCEPT ![i] = r]  BY <2>1, <3>2, Zenon
      <3> HIDE DEF r, over
      <3> QED  BY <1>2, <1>4, <3>3, PutIs
    <2>2. CASE ~over  BY <1>1, <1>2, <2>2, Zenon
    <2> QED  BY <2>1, <2>2, Zenon
  <1> HIDE DEF r
  <1>6. Sets(u, r, n)
    <2>1. \A v \in Uids \ {u} : lastLength'[v] =
             IF \E k \in 1..Len(f) : f[k].uid = v THEN lastLength[v] ELSE 0
      BY <1>1, <1>3, Zenon
    <2> QED  BY <1>1, <1>3, <1>5, <2>1, Zenon DEF Sets, f, i
  <1>7. Fits(u, r, n)
    <2>1. n # 0 => r.lockouts > 0 /\ n = LockoutLength(r.lockouts - 1)  BY <1>2, <1>4, Zenon
    <2>2. n = lastLength[u]  BY Zenon DEF n
    <2> QED  BY <1>4, <2>1, <2>2, Zenon DEF Fits
  <1>8. verifying' \in [Threads -> Uids \cup {NoUid}]  BY <1>0, <1>1, Zenon
  <1>9. fails' \in [Uids -> Seq(Nat)]
    <2>1. <<>> \in Seq(Nat)  OBVIOUS
    <2> HIDE DEF over
    <2> QED  BY <1>1, <1>3, <2>1, Zenon
  <1> QED  BY <1>0, <1>4, <1>6, <1>7, <1>8, <1>9, Zenon DEF Records

\* What a failure leaves of an entry.
Failed(x, locks) ==
  [x EXCEPT !.failures[x.idx % RingSize] = now,
            !.idx = @ + 1,
            !.count = Smaller(@ + 1, RingSize),
            !.until = IF locks THEN now + LockoutLength(x.lockouts) ELSE @,
            !.lockouts = IF locks THEN @ + 1 ELSE @]

LEMMA FailedIs ==
  ASSUME now \in Nat, NEW x \in Limiter, NEW locks \in BOOLEAN,
         \A j \in Ring : x.failures[j] <= now, x.until <= now + MaxLockout
  PROVE  /\ Failed(x, locks) \in Limiter /\ Failed(x, locks).uid = x.uid
         /\ \A j \in Ring : Failed(x, locks).failures[j] <= now
         /\ Failed(x, locks).until <= now + MaxLockout
         /\ Failed(x, locks).lockouts = IF locks THEN x.lockouts + 1 ELSE x.lockouts
  <1> DEFINE l == LockoutLength(x.lockouts)
             a == [x.failures EXCEPT ![x.idx % RingSize] = now]
             b == IF locks THEN now + l ELSE x.until
             c == IF locks THEN x.lockouts + 1 ELSE x.lockouts
             d == Smaller(x.count + 1, RingSize)
             y == Failed(x, locks)
  <1>1. /\ x.uid \in Uids /\ x.failures \in [Ring -> Nat] /\ x.idx \in Nat
        /\ x.count \in 0..RingSize /\ x.until \in Nat /\ x.lockouts \in Nat
    BY Zenon DEF Limiter
  <1>2. l \in Nat /\ l <= MaxLockout  BY <1>1, LengthIs, Zenon
  <1>3. y.uid = x.uid /\ y.failures = a /\ y.until = b /\ y.lockouts = c
    <2>1. y.failures = a  BY Zenon DEF Limiter, Failed
    <2>2. y.until = b  BY Zenon DEF Limiter, Failed
    <2>3. y.lockouts = c /\ y.uid = x.uid  BY Zenon DEF Limiter, Failed
    <2> QED  BY <2>1, <2>2, <2>3, Zenon
  <1>4. x.idx % RingSize \in Ring  BY <1>1, Sizes DEF Ring
  <1>5. a \in [Ring -> Nat] /\ \A j \in Ring : a[j] <= now
    <2>1. a \in [Ring -> Nat]  BY <1>1, Zenon
    <2>2. ASSUME NEW j \in Ring PROVE a[j] = now \/ a[j] = x.failures[j]  BY <1>1, Zenon
    <2> QED  BY <2>1, <2>2
  <1>6. b \in Nat /\ b <= now + MaxLockout
    <2> HIDE DEF l
    <2> QED  BY <1>1, <1>2, Sizes
  <1>7. c \in Nat /\ d \in 0..RingSize /\ x.idx + 1 \in Nat  BY <1>1, Sizes DEF Smaller
  <1>8. y \in Limiter  BY <1>1, <1>5, <1>6, <1>7, Zenon DEF Limiter, Failed
  <1> HIDE DEF y, a, b
  <1> QED  BY <1>3, <1>5, <1>6, <1>8, Zenon DEF y

\* record_verify_failure.
LEMMA FailRecords ==
  ASSUME LimiterInv, NEW t \in Threads, Fail(t)
  PROVE  Records
  <1> DEFINE u == verifying[t]
             f == Found(u)
             i == IndexOf(u)
             rl == f[i]
             locks == RecentIn(rl) + 1 >= MaxAttempts
             r == Failed(rl, locks)
             n == IF locks THEN LockoutLength(rl.lockouts) ELSE lastLength[u]
  <1>0. now \in Nat /\ verifying \in [Threads -> Uids \cup {NoUid}] /\ lastLength \in [Uids -> Nat]
    BY Zenon DEF LimiterInv, LimiterTypes
  <1>1. u \in Uids /\ u # NoUid  BY <1>0, Zenon DEF Fail
  <1>2. /\ limiters' = [f EXCEPT ![i] = r] /\ verifying' = [verifying EXCEPT ![t] = NoUid]
        /\ fails' = [Kept(f, fails, <<>>) EXCEPT ![u] = Append(@, now)]
        /\ lastLength' = [Kept(f, lastLength, 0) EXCEPT ![u] =
                            IF locks THEN LockoutLength(rl.lockouts) ELSE @]
        /\ now' = now
    BY Zenon DEF Fail, Failed
  <1> HIDE DEF u, locks
  <1>3. /\ f \in Seq(Limiter) /\ i \in 1..Len(f) /\ rl \in Limiter /\ rl.uid = u
        /\ \A j \in Ring : rl.failures[j] <= now
        /\ rl.until <= now + MaxLockout
        /\ lastLength[u] # 0 => rl.lockouts > 0 /\ lastLength[u] = LockoutLength(rl.lockouts - 1)
    BY <1>1, FoundEntry, Zenon
  <1>4. locks \in BOOLEAN  BY DEF locks
  <1>5. /\ r \in Limiter /\ r.uid = u
        /\ \A j \in Ring : r.failures[j] <= now
        /\ r.until <= now + MaxLockout
        /\ r.lockouts = IF locks THEN rl.lockouts + 1 ELSE rl.lockouts
    BY <1>0, <1>3, <1>4, FailedIs, Zenon
  <1>6. /\ Kept(f, fails, <<>>) \in [Uids -> Seq(Nat)] /\ Kept(f, lastLength, 0) \in [Uids -> Nat]
        /\ Kept(f, lastLength, 0)[u] = lastLength[u]
        /\ \A v \in Uids : Kept(f, lastLength, 0)[v] =
             IF \E k \in 1..Len(f) : f[k].uid = v THEN lastLength[v] ELSE 0
    BY <1>1, KeptHistories, Zenon
  <1> HIDE DEF f, i, r
  <1>7. rl.lockouts \in Nat  BY <1>3, Zenon DEF Limiter
  <1>8. LockoutLength(rl.lockouts) \in Nat /\ LockoutLength(rl.lockouts) > 0  BY <1>7, LengthIs, Zenon
  <1>9. n \in Nat  BY <1>0, <1>1, <1>8, Zenon
  <1>10. /\ limiters' \in Seq(Limiter) /\ Len(limiters') = Len(f)
         /\ \A k \in 1..Len(f) : limiters'[k] = IF k = i THEN r ELSE f[k]
    BY <1>2, <1>3, <1>5, PutIs
  <1>11. /\ lastLength' \in [Uids -> Nat] /\ lastLength'[u] = n
         /\ \A v \in Uids \ {u} : lastLength'[v] = Kept(f, lastLength, 0)[v]
    <2>1. lastLength' = [Kept(f, lastLength, 0) EXCEPT ![u] = n]  BY <1>1, <1>2, <1>6, Zenon
    <2> HIDE DEF n
    <2> QED  BY <1>1, <1>6, <1>9, <2>1, Zenon
  <1>12. \A v \in Uids \ {u} : lastLength'[v] =
             IF \E k \in 1..Len(f) : f[k].uid = v THEN lastLength[v] ELSE 0
    BY <1>6, <1>11, Zenon
  <1>13. Fits(u, r, n)
    <2>1. n # 0 => r.lockouts > 0 /\ n = LockoutLength(r.lockouts - 1)
      <3>1. CASE locks
        <4>1. r.lockouts = rl.lockouts + 1 /\ n = LockoutLength(rl.lockouts)  BY <1>5, <3>1, Zenon
        <4>2. rl.lockouts + 1 > 0 /\ (rl.lockouts + 1) - 1 = rl.lockouts  BY <1>7
        <4> QED  BY <4>1, <4>2, Zenon
      <3>2. CASE ~locks
        <4>1. r.lockouts = rl.lockouts /\ n = lastLength[u]  BY <1>5, <3>2, Zenon
        <4> QED  BY <1>3, <4>1, Zenon
      <3> QED  BY <3>1, <3>2, Zenon
    <2>2. n \in {0, lastLength[u], LockoutLength(Found(u)[IndexOf(u)].lockouts)}
      BY Zenon DEF f, i
    <2> QED  BY <1>5, <2>1, <2>2, Zenon DEF Fits
  <1>14. Sets(u, r, n)  BY <1>2, <1>10, <1>11, <1>12, Zenon DEF Sets, f, i
  <1>15. verifying' \in [Threads -> Uids \cup {NoUid}]  BY <1>0, <1>2, Zenon
  <1>16. fails' \in [Uids -> Seq(Nat)]
    <2>1. Append(Kept(f, fails, <<>>)[u], now) \in Seq(Nat)  BY <1>0, <1>1, <1>6
    <2> QED  BY <1>2, <1>6, <2>1, Zenon
  <1> QED  BY <1>1, <1>5, <1>9, <1>13, <1>14, <1>15, <1>16, Zenon DEF Records

\* Steps that leave the table alone, of which the clock is one, keep the invariant.
LEMMA QuietKeeps ==
  ASSUME LimiterInv, UNCHANGED <<limiters, fails, lastLength>>, now' \in {now, now + 1},
         verifying' \in [Threads -> Uids \cup {NoUid}]
  PROVE  LimiterInv' /\ Escalates /\ Evicts
  <1>1. now \in Nat /\ now' \in Nat /\ now <= now'  BY DEF LimiterInv, LimiterTypes
  <1>2. Entries' = Entries  BY Zenon DEF Entries
  <1>3. LimiterTypes'  BY <1>1, Zenon DEF LimiterInv, LimiterTypes
  <1>4. OneLimiterPerUser' /\ LengthsMatch'
    BY <1>2, Zenon DEF LimiterInv, OneLimiterPerUser, LengthsMatch
  <1>5. TimesPassed'
    <2>1. ASSUME NEW k \in Entries
          PROVE  (\A j \in Ring : limiters[k].failures[j] <= now') /\ limiters[k].until <= now' + MaxLockout
      <3>1. limiters[k].until \in Nat /\ \A j \in Ring : limiters[k].failures[j] \in Nat
        BY EntryIs, Zenon DEF LimiterInv
      <3>2. (\A j \in Ring : limiters[k].failures[j] <= now) /\ limiters[k].until <= now + MaxLockout
        BY Zenon DEF LimiterInv, TimesPassed
      <3> QED  BY <1>1, <3>1, <3>2, Sizes
    <2> QED  BY <1>2, <2>1, Zenon DEF TimesPassed
  <1>6. Escalates  BY Zenon DEF Escalates
  <1>7. Evicts  BY <1>2, Zenon DEF Evicts, Has
  <1> QED  BY <1>3, <1>4, <1>5, <1>6, <1>7, Zenon DEF LimiterInv

LEMMA LimiterStep ==
  ASSUME LimiterInv, [LimiterNext]_limiterVars
  PROVE  LimiterInv' /\ Escalates /\ Evicts
  <1>0. verifying \in [Threads -> Uids \cup {NoUid}]  BY Zenon DEF LimiterInv, LimiterTypes
  <1>1. ASSUME Records PROVE LimiterInv' /\ Escalates /\ Evicts
    <2>1. PICK u \in Uids, r \in Limiter, n \in Nat : Sets(u, r, n) /\ Fits(u, r, n)
      BY <1>1, Zenon DEF Records
    <2>2. verifying' \in [Threads -> Uids \cup {NoUid}] /\ fails' \in [Uids -> Seq(Nat)]
      BY <1>1, Zenon DEF Records
    <2>3. LimiterInv'  BY <2>1, <2>2, SetsKeeps, Zenon
    <2>4. Escalates /\ Evicts  BY <2>1, SetsStands, Zenon
    <2> QED  BY <2>3, <2>4, Zenon
  <1>2. ASSUME NEW t \in Threads, NEW u \in Uids, Begin(t, u) PROVE LimiterInv' /\ Escalates /\ Evicts
    BY <1>1, <1>2, BeginRecords, Zenon
  <1>3. ASSUME NEW t \in Threads, Fail(t) PROVE LimiterInv' /\ Escalates /\ Evicts
    BY <1>1, <1>3, FailRecords, Zenon
  <1>4. ASSUME NEW t \in Threads, Succeed(t) PROVE LimiterInv' /\ Escalates /\ Evicts
    BY <1>1, <1>4, SucceedRecords, Zenon
  <1>5. ASSUME NEW t \in Threads, Abandon(t) PROVE LimiterInv' /\ Escalates /\ Evicts
    <2>1. UNCHANGED <<limiters, fails, lastLength>> /\ now' \in {now, now + 1}
      BY <1>5, Zenon DEF Abandon
    <2>2. verifying' \in [Threads -> Uids \cup {NoUid}]  BY <1>0, <1>5, Zenon DEF Abandon
    <2> QED  BY <2>1, <2>2, QuietKeeps, Zenon
  <1>6. ASSUME Tick PROVE LimiterInv' /\ Escalates /\ Evicts
    BY <1>0, <1>6, QuietKeeps, Zenon DEF Tick
  <1>7. ASSUME UNCHANGED limiterVars PROVE LimiterInv' /\ Escalates /\ Evicts
    BY <1>0, <1>7, QuietKeeps, Zenon DEF limiterVars
  <1> QED  BY <1>2, <1>3, <1>4, <1>5, <1>6, <1>7, Zenon DEF LimiterNext

LEMMA LimiterStarts ==
  ASSUME LimiterInit
  PROVE  LimiterInv
  <1>1. Entries = {} /\ Len(limiters) = 0  BY DEF LimiterInit, Entries
  <1>2. LimiterTypes  BY <1>1, Sizes DEF LimiterInit, LimiterTypes
  <1> QED  BY <1>1, <1>2, Zenon DEF LimiterInit, LimiterInv, OneLimiterPerUser, TimesPassed, LengthsMatch

\* find_rate_limiter, record_verify_failure and reset_verify_rate_limit keep the table
\* within its size with one limiter per user, whatever verifications are in flight.
THEOREM TableStaysConsistent == LimiterSpec => []TableConsistent
  <1>1. LimiterInv /\ [LimiterNext]_limiterVars => LimiterInv'  BY LimiterStep, Zenon
  <1>2. LimiterInv => TableConsistent  BY Zenon DEF LimiterInv, TableConsistent
  <1> QED  BY <1>1, <1>2, LimiterStarts, PTL DEF LimiterSpec

\* Successive lockouts of a user double up to the cap until a verification succeeds, and
\* find_rate_limiter drops a running lockout only from a table in which all are running.
THEOREM LockoutsAreKept == LimiterSpec => LockoutsStand
  <1>1. LimiterInv /\ [LimiterNext]_limiterVars => LimiterInv'  BY LimiterStep, Zenon
  <1>2. LimiterInv /\ [LimiterNext]_limiterVars =>
          [\A u \in Uids :
             (lastLength[u] # 0 /\ lastLength'[u] # lastLength[u] /\ lastLength'[u] # 0) =>
               lastLength'[u] = Smaller(2 * lastLength[u], MaxLockout)]_limiterVars
    BY LimiterStep, Zenon DEF Escalates
  <1>3. LimiterInv /\ [LimiterNext]_limiterVars =>
          [\A u \in Uids : (Has(u) /\ ~Has(u)' /\ Locked(u)) =>
             \A i \in Entries : limiters[i].until > now]_limiterVars
    BY LimiterStep, Zenon DEF Evicts
  <1> QED  BY <1>1, <1>2, <1>3, LimiterStarts, PTL
             DEF LimiterSpec, LockoutsStand, LockoutsEscalate, EvictsLockedOnlyIfAllLocked

=============================================================================
