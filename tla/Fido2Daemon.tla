---------------------------- MODULE Fido2Daemon ----------------------------
(***************************************************************************)
(* hiya-fido2d (src/fido2/fido2_main.c) with its two ways in: the virtual   *)
(* USB key of CtapHid, served by the reader thread, and the socket of       *)
(* src/fido2/bio_fido2_transport.c, served by the main thread.  Both hand   *)
(* requests to one CTAP2 engine, bio_fido2_process, under its mutex; at the *)
(* end the main thread stops the reader and frees the engine.               *)
(***************************************************************************)
EXTENDS CtapHid

CONSTANT MaxRequests   \* BIO_FIDO2_MAX_REQUESTS_PER_CLIENT

(* A workload begins before the handlers are installed or in the loop.     *)
ASSUME StartAssumption == \A w \in Uses : w.start \in {"handlers", "loop"}

VARIABLES
  main,     \* the main thread: where it is, the requests of its client
  sock,     \* tp->running, and the self-pipe: "none", "open" or "byte"
  clients,  \* clients that came to the socket
  signals   \* SIGTERM and SIGINT that came

daemonVars == <<hidVars, main, sock, clients, signals>>

At(pc) == main.pc = pc
Goto(pc) == main' = [main EXCEPT !.pc = pc]
HidKeeps == UNCHANGED <<use, inq, apps, pool, reader, keepalive>>

----------------------------------------------------------------------------
(* Signals.  The handler runs between any two steps of the main thread,    *)
(* from sigaction() on; g_transport is NULL once the loop was left.        *)

Signal ==
  /\ ~At("handlers") /\ ~At("exited") /\ signals < use.signals
  /\ signals' = signals + 1
  /\ sock' = IF At("stop") \/ At("join") THEN sock
             ELSE [running |-> FALSE, pipe |-> IF sock.pipe = "none" THEN "none" ELSE "byte"]
  /\ UNCHANGED <<hidVars, main, clients>>

----------------------------------------------------------------------------
(* main() up to the loop, and bio_fido2_transport_run's own start. *)

InstallHandlers ==
  /\ At("handlers") /\ Goto("pipe")
  /\ UNCHANGED <<hidVars, sock, clients, signals>>

MakePipe ==
  /\ At("pipe")
  /\ \/ sock' = [sock EXCEPT !.pipe = "open"] /\ Goto("listen")
     \/ UNCHANGED sock /\ Goto("down")
  /\ UNCHANGED <<hidVars, clients, signals>>

Listen ==
  /\ At("listen")
  /\ \/ UNCHANGED sock /\ Goto("enter")
     \/ sock' = [sock EXCEPT !.pipe = "none"] /\ Goto("down")
  /\ UNCHANGED <<hidVars, clients, signals>>

EnterLoop ==
  /\ At("enter") /\ Goto("loop")
  /\ sock' = [sock EXCEPT !.running = TRUE]
  /\ UNCHANGED <<hidVars, clients, signals>>

(* The loop ends when the flag is down, a byte is in the pipe or select()  *)
(* fails.                                                                  *)
(* A mutant of LeaveLoop: the byte is read and not taken for a request. *)
LeaveLoopOnFlag ==
  /\ At("loop") /\ ~sock.running
  /\ Goto("leave")
  /\ UNCHANGED <<hidVars, sock, clients, signals>>
LeaveLoop ==
  /\ At("loop") /\ (~sock.running \/ sock.pipe = "byte" \/ use.ends)
  /\ Goto("leave")
  /\ UNCHANGED <<hidVars, sock, clients, signals>>

(* A client that peer_is_authorized accepts; others are closed at once. *)
Accept ==
  /\ At("loop") /\ sock.running /\ sock.pipe = "open" /\ clients < use.clients
  /\ clients' = clients + 1
  /\ main' = [pc |-> "client", requests |-> 0]
  /\ UNCHANGED <<hidVars, sock, signals>>

(* handle_client: a request, unless the client had its share, sends none   *)
(* or only a part of one, or the daemon is to stop.                        *)
NextRequest ==
  /\ At("client") /\ sock.running /\ main.requests < MaxRequests
  /\ main' = [pc |-> "lock", requests |-> main.requests + 1]
  /\ UNCHANGED <<hidVars, sock, clients, signals>>

CloseClient ==
  /\ At("client") /\ Goto("loop")
  /\ UNCHANGED <<hidVars, sock, clients, signals>>

ClientLocks ==
  /\ At("lock") /\ engine = "free" /\ engine' = "main" /\ Goto("process")
  /\ HidKeeps /\ UNCHANGED <<running, sock, clients, signals>>

(* The answer is written; when that fails the client is closed. *)
ClientProcess ==
  /\ At("process") /\ engine' = "free"
  /\ \E pc \in {"client", "loop"} : Goto(pc)
  /\ HidKeeps /\ UNCHANGED <<running, sock, clients, signals>>

CloseSocket ==
  /\ At("leave") /\ Goto("down")
  /\ sock' = [running |-> FALSE, pipe |-> "none"]
  /\ UNCHANGED <<hidVars, clients, signals>>

----------------------------------------------------------------------------
(* The end of main(). *)

ForgetTransport ==
  /\ At("down") /\ Goto("stop")
  /\ UNCHANGED <<hidVars, sock, clients, signals>>

StopReader ==
  /\ At("stop") /\ Goto("join")
  /\ running' = FALSE
  /\ HidKeeps /\ UNCHANGED <<engine, sock, clients, signals>>

(* A mutant of Cleanup: the reader is told to stop and not joined. *)
CleanupAtOnce ==
  /\ At("join")
  /\ engine' = "freed" /\ Goto("exited")
  /\ HidKeeps /\ UNCHANGED <<running, sock, clients, signals>>
Cleanup ==
  /\ At("join") /\ reader.pc = "gone"
  /\ engine' = "freed" /\ Goto("exited")
  /\ HidKeeps /\ UNCHANGED <<running, sock, clients, signals>>

Main ==
  \/ InstallHandlers \/ MakePipe \/ Listen \/ EnterLoop \/ LeaveLoop \/ Accept
  \/ NextRequest \/ CloseClient \/ ClientLocks \/ ClientProcess
  \/ CloseSocket \/ ForgetTransport \/ StopReader \/ Cleanup

(* Where the daemon is in the workload: starting, or serving.  Without     *)
(* /dev/uhid it starts without a reader.                                   *)
DaemonInit ==
  /\ HidInit
  /\ main = [pc |-> use.start, requests |-> 0]
  /\ sock = IF use.start = "loop" THEN [running |-> TRUE, pipe |-> "open"]
            ELSE [running |-> FALSE, pipe |-> "none"]
  /\ clients = 0 /\ signals = 0

DaemonNext ==
  \/ HidNext /\ UNCHANGED <<main, sock, clients, signals>>
  \/ Main
  \/ Signal

DaemonFairness ==
  /\ HidFairness
  /\ WF_daemonVars(Main /\ ~At("lock")) /\ SF_daemonVars(ClientLocks)

DaemonSpec == DaemonInit /\ [][DaemonNext]_daemonVars /\ DaemonFairness

----------------------------------------------------------------------------
(* The engine is freed only after both threads are done with it:           *)
(* bio_fido2_cleanup destroys the mutex and the state, and the reader may  *)
(* be waiting for the one or working on the other when the loop ends.      *)
EngineOutlivesUsers ==
  engine = "freed" =>
    reader.pc = "gone" /\ keepalive.pc = "none" /\ main.pc = "exited"

(* A signal that found the pipe open ends the daemon, whatever client is   *)
(* being served and whatever the reader is doing.                          *)
ShutdownEnds == (sock.pipe = "byte") ~> (main.pc = "exited")

=============================================================================
