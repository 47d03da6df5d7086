--------------------------- MODULE FprintdCompat ---------------------------
(***************************************************************************)
(* The fprintd compatibility layer of hiya-authd                           *)
(* (src/daemon/bio_fprintd_compat.c): one virtual device that D-Bus        *)
(* clients claim, verify on, enroll on and release.  Handlers and the      *)
(* completion callback run one at a time on the main thread; every         *)
(* operation runs on a GTask worker thread and outlives the call that      *)
(* started it.  Clients may leave the bus at any time.                     *)
(***************************************************************************)
EXTENDS Naturals, FiniteSets

CONSTANTS Clients,      \* unique bus names; a name is never reused
          Users,        \* account names
          Root,         \* the account with uid 0
          UserOf,       \* the account each client runs as
          Kinds,        \* the operations clients start: "verify", "enroll"
          MaxOps,       \* bound: operations started in a behaviour
          NoClient, NoUser

ASSUME CompatAssumption ==
  /\ MaxOps \in Nat
  /\ Root \in Users
  /\ UserOf \in [Clients -> Users]
  /\ Kinds \subseteq {"verify", "enroll"}
  /\ NoClient \notin Clients
  /\ NoUser \notin Users

Ops == 1..MaxOps        \* an operation is named by its start order
NoOp == 0

VARIABLES
  state,                \* bio_fprintd_device_t.state
  claimedBy,            \* .claimed_by
  claimedSender,        \* .claimed_sender
  watch,                \* .name_watch_id: the name being watched
  cancellable,          \* .cancellable: the operation whose GCancellable it is
  up,                   \* FALSE once the layer has been cleaned up
  claim,                \* a Claim call between its two bus round trips
  started,              \* operations started so far
  task,                 \* the GTask of each operation
  cancelled,            \* operations whose GCancellable is cancelled
  connected,            \* clients on the bus
  vanished,             \* NameOwnerChanged signals not yet dispatched
  stopped,              \* history: unfinished when their claimer stopped them
  signalled             \* history: operations whose status was broadcast

devVars == <<state, claimedBy, claimedSender, watch, cancellable>>
busVars == <<connected, vanished>>
taskVars == <<started, task, cancelled>>
history == <<stopped, signalled>>
vars == <<devVars, up, claim, taskVars, busVars, history>>

Busy == {"VERIFYING", "ENROLLING"}
BusyState(k) == IF k = "verify" THEN "VERIFYING" ELSE "ENROLLING"
Phases == {"unused", "queued", "running", "returned", "done"}
Tasks == [phase : Phases, kind : {"verify", "enroll"},
          user : Users \cup {NoUser}, client : Clients \cup {NoClient}]
NoTask == [phase |-> "unused", kind |-> "verify", user |-> NoUser,
           client |-> NoClient]
NoClaim == [client |-> NoClient, user |-> NoUser]

Unfinished(o) == task[o].phase \in {"queued", "running", "returned"}

Init ==
  /\ state = "IDLE" /\ claimedBy = NoUser /\ claimedSender = NoClient
  /\ watch = NoClient /\ cancellable = NoOp
  /\ up = TRUE /\ claim = NoClaim
  /\ started = 0 /\ task = [o \in Ops |-> NoTask] /\ cancelled = {}
  /\ connected = Clients /\ vanished = {}
  /\ stopped = {} /\ signalled = {}

\* The main thread is free to dispatch a handler or a callback.
MainFree == up /\ claim = NoClaim

-----------------------------------------------------------------------------
(* Claim.  The first step is the authorization lookup, a synchronous call  *)
(* to the bus that fails once the client has left; the second stores the   *)
(* claim and subscribes to the client's NameOwnerChanged.                  *)

ClaimLookup(c, u) ==
  /\ MainFree
  /\ c \in connected
  /\ u = UserOf[c] \/ UserOf[c] = Root
  /\ state = "IDLE"
  /\ claim' = [client |-> c, user |-> u]
  /\ UNCHANGED <<devVars, up, taskVars, busVars, history>>

ClaimCommit ==
  /\ claim # NoClaim
  /\ state' = "CLAIMED"
  /\ claimedBy' = claim.user
  /\ claimedSender' = claim.client
  /\ watch' = claim.client
  /\ claim' = NoClaim
  /\ UNCHANGED <<cancellable, up, taskVars, busVars, history>>

\* g_cancellable_cancel(dev->cancellable), when there is one.
CancelCurrent == cancelled' = cancelled \cup ({cancellable} \ {NoOp})

\* fprintd_device_release, with the operations its claimer leaves behind.
DeviceRelease ==
  /\ CancelCurrent
  /\ watch' = NoClient
  /\ vanished' = vanished \ {watch}
  /\ state' = "IDLE" /\ claimedBy' = NoUser /\ claimedSender' = NoClient
  /\ stopped' = stopped \cup
       {o \in Ops : Unfinished(o) /\ task[o].client = claimedSender}
  /\ UNCHANGED <<cancellable, up, claim, started, task, connected,
                 signalled>>

Release(c) ==
  /\ MainFree
  /\ state # "IDLE"
  /\ c = claimedSender
  /\ DeviceRelease

\* Mutant: the signal is dropped while an operation runs.
VanishedIgnoredWhileBusy(c) ==
  /\ MainFree
  /\ c \in vanished
  /\ c = claimedSender
  /\ \/ state = "CLAIMED" /\ DeviceRelease
     \/ /\ state \in Busy
        /\ vanished' = vanished \ {c}
        /\ UNCHANGED <<devVars, up, claim, taskVars, connected, history>>

\* on_claimer_vanished: dispatched for the watched name only.
OnClaimerVanished(c) ==
  /\ MainFree
  /\ c \in vanished
  /\ state # "IDLE"
  /\ c = claimedSender
  /\ DeviceRelease

-----------------------------------------------------------------------------
(* VerifyStart and EnrollStart, VerifyStop and EnrollStop.                 *)

Start(c, k) ==
  /\ MainFree
  /\ started < MaxOps
  /\ state = "CLAIMED"
  /\ c = claimedSender
  /\ state' = BusyState(k)
  /\ started' = started + 1
  /\ task' = [task EXCEPT ![started + 1] =
                [phase |-> "queued", kind |-> k, user |-> claimedBy,
                 client |-> c]]
  /\ cancellable' = started + 1
  /\ UNCHANGED <<claimedBy, claimedSender, watch, up, claim, cancelled,
                 busVars, history>>

\* A stop that finds the device in another state succeeds and does nothing.
Stop(c, k) ==
  /\ MainFree
  /\ c = claimedSender
  /\ \/ /\ state = BusyState(k)
        /\ CancelCurrent
        /\ state' = "CLAIMED"
     \/ /\ state # BusyState(k)
        /\ UNCHANGED <<state, cancelled>>
  /\ stopped' = stopped \cup
       {o \in Ops : Unfinished(o) /\ task[o].client = c /\ task[o].kind = k}
  /\ UNCHANGED <<claimedBy, claimedSender, watch, cancellable, up, claim,
                 started, task, busVars, signalled>>

-----------------------------------------------------------------------------
(* The worker threads: fprintd_async_thread_func looks at the cancellable  *)
(* once, before it calls the daemon, which does not see it.                *)

WorkerBegin(o) ==
  /\ task[o].phase = "queued"
  /\ task' = [task EXCEPT ![o].phase =
                IF o \in cancelled THEN "returned" ELSE "running"]
  /\ UNCHANGED <<devVars, up, claim, started, cancelled, busVars, history>>

\* The daemon has answered, whatever the result: a match, a stored enrollment,
\* an error.
WorkerReturn(o) ==
  /\ task[o].phase = "running"
  /\ task' = [task EXCEPT ![o].phase = "returned"]
  /\ UNCHANGED <<devVars, up, claim, started, cancelled, busVars, history>>

\* Mutants of the callback: the device stays busy; the cancellable is kept; the
\* cancellation is not looked at.
ReadyCbLeavesBusy(o) ==
  /\ claim = NoClaim
  /\ task[o].phase = "returned"
  /\ task' = [task EXCEPT ![o].phase = "done"]
  /\ cancellable' = NoOp
  /\ UNCHANGED <<state, claimedBy, claimedSender, watch, up, claim, started,
                 cancelled, busVars, history>>
ReadyCbKeepsCancellable(o) ==
  /\ claim = NoClaim
  /\ task[o].phase = "returned"
  /\ task' = [task EXCEPT ![o].phase = "done"]
  /\ state' = IF state \in Busy THEN "CLAIMED" ELSE state
  /\ UNCHANGED <<claimedBy, claimedSender, watch, cancellable, up, claim, started,
                 cancelled, busVars, history>>
ReadyCbIgnoresCancel(o) ==
  /\ claim = NoClaim
  /\ task[o].phase = "returned"
  /\ task' = [task EXCEPT ![o].phase = "done"]
  /\ signalled' = IF up THEN signalled \cup {o} ELSE signalled
  /\ state' = IF state \in Busy THEN "CLAIMED" ELSE state
  /\ cancellable' = NoOp
  /\ UNCHANGED <<claimedBy, claimedSender, watch, up, claim, started,
                 cancelled, busVars, stopped>>

\* fprintd_async_ready_cb.  It may still be dispatched after the cleanup, by
\* the loop that closes the sensor; the bus is gone then.
ReadyCb(o) ==
  /\ claim = NoClaim
  /\ task[o].phase = "returned"
  /\ task' = [task EXCEPT ![o].phase = "done"]
  /\ signalled' = IF o \in cancelled \/ ~up THEN signalled
                                            ELSE signalled \cup {o}
  /\ state' = IF state \in Busy THEN "CLAIMED" ELSE state
  /\ cancellable' = NoOp
  /\ UNCHANGED <<claimedBy, claimedSender, watch, up, claim, started,
                 cancelled, busVars, stopped>>

-----------------------------------------------------------------------------
(* The bus, and the end of the layer.                                      *)

\* A client leaves; the signal is routed only to an existing subscription.
Disconnect(c) ==
  /\ c \in connected
  /\ connected' = connected \ {c}
  /\ vanished' = IF watch = c THEN vanished \cup {c} ELSE vanished
  /\ UNCHANGED <<devVars, up, claim, taskVars, history>>

CompatCleanup ==
  /\ MainFree
  /\ up' = FALSE
  /\ CancelCurrent
  /\ cancellable' = NoOp
  /\ watch' = NoClient
  /\ vanished' = vanished \ {watch}
  /\ UNCHANGED <<state, claimedBy, claimedSender, claim, started, task,
                 connected, history>>

Next ==
  \/ \E c \in Clients : \E u \in Users : ClaimLookup(c, u)
  \/ ClaimCommit
  \/ \E c \in Clients : Release(c)
  \/ \E c \in Clients : OnClaimerVanished(c)
  \/ \E c \in Clients : \E k \in Kinds : Start(c, k)
  \/ \E c \in Clients : \E k \in Kinds : Stop(c, k)
  \/ \E o \in Ops : WorkerBegin(o)
  \/ \E o \in Ops : WorkerReturn(o)
  \/ \E o \in Ops : ReadyCb(o)
  \/ \E c \in Clients : Disconnect(c)
  \/ CompatCleanup

Spec == Init /\ [][Next]_vars

\* What the scheduler gives: a claim call in progress finishes, the thread
\* pool picks up every task, a verification ends by its scan timeout, and the
\* main loop dispatches what is ready while it runs.  An enrollment waits for
\* a finger without a timeout: nothing makes it return.
Fairness ==
  /\ WF_vars(ClaimCommit)
  /\ \A o \in Ops :
       /\ WF_vars(WorkerBegin(o))
       /\ WF_vars(task[o].kind = "verify" /\ WorkerReturn(o))
       /\ WF_vars(up /\ ReadyCb(o))
  /\ \A c \in Clients : WF_vars(OnClaimerVanished(c))

FairSpec == Spec /\ Fairness

-----------------------------------------------------------------------------
(* Properties.                                                             *)

TypeOK ==
  /\ state \in {"IDLE", "CLAIMED"} \cup Busy
  /\ claimedBy \in Users \cup {NoUser}
  /\ claimedSender \in Clients \cup {NoClient}
  /\ watch \in Clients \cup {NoClient}
  /\ cancellable \in Ops \cup {NoOp}
  /\ up \in BOOLEAN
  /\ claim \in [client : Clients, user : Users] \cup {NoClaim}
  /\ started \in 0..MaxOps
  /\ task \in [Ops -> Tasks]
  /\ cancelled \subseteq Ops
  /\ connected \subseteq Clients /\ vanished \subseteq Clients
  /\ stopped \subseteq Ops /\ signalled \subseteq Ops

\* A device that says it is verifying or enrolling has a live operation of
\* that kind, the one started last, for the user and the client that hold the
\* claim: the device can never be stuck busy with nothing left to reset it,
\* however stops, releases, new claims and late callbacks interleave.
BusyHasLiveTask ==
  state \in Busy =>
    /\ started \in Ops
    /\ Unfinished(started)
    /\ BusyState(task[started].kind) = state
    /\ task[started].user = claimedBy
    /\ task[started].client = claimedSender

\* dev->cancellable, when set, belongs to the operation started last and that
\* operation is not over: a stop or a release never cancels a stale operation.
CancellableIsLatest ==
  cancellable # NoOp => cancellable = started /\ Unfinished(cancellable)

\* While the layer runs, the device is claimed exactly when it has a claiming
\* user, a claiming client and a watch on that client's name.
ClaimIsWatched ==
  up => /\ (state = "IDLE") = (claimedSender = NoClient)
        /\ (state = "IDLE") = (claimedBy = NoUser)
        /\ watch = claimedSender

\* A status signal is broadcast only for an operation nobody cancelled, even
\* when the cancellation comes after the worker has returned.
NoStatusForCancelled == cancelled \cap signalled = {}

\* The fields of the device agree with each other: their types, the cancellable
\* with the operation it is for, and the claim with its watch.
DeviceConsistent == TypeOK /\ CancellableIsLatest /\ ClaimIsWatched

\* bio_fprintd_compat.c:353: "If cancelled (e.g., VerifyStop/EnrollStop/Release
\* called), don't emit signal".  The status of an operation is broadcast after
\* its client has stopped it or given up its claim only if an earlier operation
\* was stopped unfinished too: that one's late callback takes the busy state and
\* the cancellable from the later one, whose own stop then finds neither.
Earlier(o) == \E p \in stopped : p < o
StoppedStaysSilent ==
  NoStatusForCancelled /\ \A o \in stopped \cap signalled : Earlier(o)

\* A verification always ends in a device that is no longer verifying.
VerifyEnds == (state = "VERIFYING") ~> (state # "VERIFYING" \/ ~up)

\* Once the claimer's NameOwnerChanged has been routed, its claim ends.
NoticedClaimerReleased ==
  \A c \in Clients :
    (claimedSender = c /\ c \in vanished) ~> (claimedSender # c \/ ~up)
=============================================================================
