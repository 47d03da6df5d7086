------------------------------ MODULE CtapHid ------------------------------
(***************************************************************************)
(* The virtual USB key of hiya-fido2d (src/fido2/bio_fido2_uhid.c): the     *)
(* reader thread puts the reports that applications write to the device     *)
(* together to messages, one per channel, and answers each; a keepalive     *)
(* thread writes to the same device while the CTAP2 engine works.           *)
(*                                                                          *)
(* A byte is <<message, index>>, so that bytes of two messages are told     *)
(* apart.  The applications and the queue of reports in the kernel, which   *)
(* drops what it has no room for, are the environment.  Left out: writes to *)
(* /dev/uhid fail, two channels are used in the same millisecond, a random  *)
(* channel ID repeats one drawn before.                                     *)
(***************************************************************************)
EXTENDS Naturals, Sequences, FiniteSetsExt

CONSTANTS Apps, Cids, Broadcast, None,
          Channels,             \* CTAPHID_MAX_CHANNELS
          InitData, ContData,   \* CTAPHID_INIT_DATA_SIZE, CTAPHID_CONT_DATA_SIZE
          MaxMsg,               \* CTAPHID_MAX_MSG_SIZE
          NonceLen,             \* the 8 bytes of an INIT request
          QueueMax,             \* reports the kernel holds for the reader
          Uses                  \* see use

VARIABLES
  use,        \* fixed for a behaviour: which applications run, the messages they
              \* send and how many each, whether they cancel, whether the
              \* draws of an ID may all be refused, whether there is a
              \* /dev/uhid and whether it may end
  inq,        \* the reports waiting in the kernel
  apps,       \* the applications
  pool,       \* uhid->channels, their slots least recently active first, and
              \* the channel IDs drawn so far
  reader,     \* uhid_reader_thread: where it is, the request it serves, the
              \* reports it has yet to write
  keepalive,  \* ctaphid_keepalive_thread
  running,    \* uhid->running
  engine      \* who holds ctx->mutex, or "freed" after bio_fido2_cleanup

hidVars == <<use, inq, apps, pool, reader, keepalive, running, engine>>

Slots == 1..Channels
Free == [cid |-> None, cmd |-> None, total |-> 0, seq |-> 0, data |-> <<>>, quiet |-> FALSE]
NoRequest == [pc |-> "poll", cid |-> None, slot |-> 0, data |-> <<>>, out |-> <<>>]

----------------------------------------------------------------------------
(* Framing: a message is an initialization report and, for what does not   *)
(* fit, continuation reports numbered from 0.                              *)

Bytes(m) == [k \in 1..m.len |-> <<m.id, k>>]
Conts(total) ==
  IF total <= InitData THEN 0 ELSE (total - InitData + ContData - 1) \div ContData
InitReport(cid, cmd, bytes) ==
  [cid |-> cid, first |-> TRUE, cmd |-> cmd, total |-> Len(bytes), seq |-> 0,
   data |-> SubSeq(bytes, 1, Min({Len(bytes), InitData})), grant |-> None]
ContReport(cid, bytes, seq) ==
  LET from == InitData + seq * ContData
  IN  [cid |-> cid, first |-> FALSE, cmd |-> None, total |-> 0, seq |-> seq,
       data |-> SubSeq(bytes, from + 1, Min({Len(bytes), from + ContData})), grant |-> None]
Frame(cid, cmd, bytes) ==
  <<InitReport(cid, cmd, bytes)>> \o
  [k \in 1..Conts(Len(bytes)) |-> ContReport(cid, bytes, k - 1)]

SendResponse(cid, cmd, bytes) == Frame(cid, cmd, bytes)

Unread(n) == [k \in 1..n |-> None]   \* bytes no property tells apart
Error(cid) == SendResponse(cid, "ERROR", Unread(1))

----------------------------------------------------------------------------
(* Applications (external).  An application sends a message on its channel,*)
(* or on the broadcast channel while it has none, and waits for an answer. *)

NewApp ==
  [cid |-> None, on |-> None, sent |-> 0, last |-> None, waiting |-> None, todo |-> <<>>, lost |-> FALSE,
   cancelled |-> FALSE, rx |-> None, asked |-> None, answer |-> None, garbled |-> FALSE]

HostStart(a, cmd, len) ==
  LET app == apps[a]
      on == IF app.cid = None THEN Broadcast ELSE app.cid
      m == [id |-> <<a, app.sent + 1>>, cmd |-> cmd, len |-> len]
  IN  /\ app.waiting = None /\ app.todo = <<>> /\ app.sent < use.count[a]
      /\ apps' = [apps EXCEPT ![a] = [app EXCEPT
           !.on = on, !.sent = @ + 1, !.last = m, !.waiting = m, !.lost = FALSE, !.cancelled = FALSE,
           !.todo = Frame(on, cmd, Bytes(m))]]
      /\ UNCHANGED <<use, inq, pool, reader, keepalive, running, engine>>

HostReport(a) ==
  /\ apps[a].todo # <<>>
  /\ IF Len(inq) < QueueMax
     THEN /\ inq' = Append(inq, Head(apps[a].todo))
          /\ apps' = [apps EXCEPT ![a].todo = Tail(@)]
     ELSE /\ apps' = [apps EXCEPT ![a].todo = Tail(@), ![a].lost = TRUE]
          /\ UNCHANGED inq
  /\ UNCHANGED <<use, pool, reader, keepalive, running, engine>>

HostCancel(a) ==
  LET app == apps[a]
  IN  /\ use.cancels /\ ~app.cancelled
      /\ app.waiting # None /\ app.waiting.cmd = "CBOR" /\ app.todo = <<>>
      /\ apps' = [apps EXCEPT ![a].cancelled = TRUE, ![a].todo = Frame(app.on, "CANCEL", <<>>)]
      /\ UNCHANGED <<use, inq, pool, reader, keepalive, running, engine>>

Hears(a, r) ==
  LET app == apps[a]
  IN  IF r.cid = Broadcast
      THEN /\ app.waiting # None /\ app.on = Broadcast
           /\ r.grant # None => r.data[1][1] = app.waiting.id
      ELSE r.cid \in {app.cid, app.on}

(* What an application makes of a complete answer. *)
Take(app, x, grant) ==
  IF x.cmd = "KEEPALIVE" THEN app
  ELSE [app EXCEPT !.waiting = None, !.asked = app.waiting, !.answer = x,
                   !.cid = IF grant = None THEN @ ELSE grant]
Receive(app, r) ==
  LET x == IF r.first THEN [cmd |-> r.cmd, total |-> r.total, seq |-> 0, data |-> r.data]
           ELSE [app.rx EXCEPT !.seq = @ + 1, !.data = @ \o r.data]
      fits == IF app.rx = None THEN r.first ELSE ~r.first /\ r.seq = app.rx.seq
  IN  IF ~fits THEN [app EXCEPT !.garbled = TRUE, !.rx = None]
      ELSE IF Len(x.data) < x.total THEN [app EXCEPT !.rx = x]
      ELSE Take([app EXCEPT !.rx = None], x, r.grant)

Write(r) == apps' = [a \in Apps |-> IF Hears(a, r) THEN Receive(apps[a], r) ELSE apps[a]]

----------------------------------------------------------------------------
(* Channels. *)

(* The slots in the order of their last activity, without s.                *)
Without(lru, s) == SelectSeq(lru, LAMBDA t : t # s)
FindChannel(p, cid) == {s \in Slots : cid # None /\ p.chan[s].cid = cid}
Touch(p, s, ch) ==
  [p EXCEPT !.chan[s] = [ch EXCEPT !.quiet = FALSE], !.lru = Append(Without(@, s), s)]

(* The slot a new channel gets: a free one or else the one least recently  *)
(* active, whose channel is gone even when no ID is found for the new one  *)
(* (draw = None).                                                          *)
AllocSlot(p) ==
  LET free == {s \in Slots : p.chan[s].cid = None}
  IN  IF free # {} THEN Min(free) ELSE Head(p.lru)
(* IDs are only compared, so which of the fresh ones is drawn is all one.  *)
Draws(p) ==
  LET fresh == {c \in Cids \ p.drawn : FindChannel(p, c) = {}}
  IN  (IF fresh = {} THEN {} ELSE {CHOOSE c \in fresh : TRUE})
        \cup (IF use.nodraw \/ fresh = {} THEN {None} ELSE {})
AllocChannel(p, draw) ==
  LET s == AllocSlot(p)
  IN  IF draw = None
      THEN [p EXCEPT !.chan[s] = Free, !.lru = Without(@, s)]
      ELSE [Touch(p, s, [Free EXCEPT !.cid = draw]) EXCEPT !.drawn = @ \cup {draw}]

----------------------------------------------------------------------------
(* The reader thread: handlers of complete messages. *)

Answer(p, cid, slot, reports) ==
  /\ pool' = p
  /\ reader' = [pc |-> "send", cid |-> cid, slot |-> slot, data |-> <<>>, out |-> reports]
  /\ UNCHANGED keepalive

HandleInit(p, cid, data, slot) ==
  IF Len(data) < NonceLen THEN Answer(p, cid, slot, Error(cid))
  ELSE \E draw \in Draws(p) :
         Answer(AllocChannel(p, draw), cid, slot,
                IF draw = None THEN Error(cid)
                ELSE <<[InitReport(cid, "INIT", SubSeq(data, 1, NonceLen)) EXCEPT !.grant = draw]>>)

(* A request for the engine.  The commands that may wait for the user get  *)
(* a keepalive thread, when one can be created.                            *)
HandleCbor(p, cid, data, slot) ==
  IF Len(data) < 1 THEN Answer(p, cid, slot, Error(cid))
  ELSE /\ pool' = p
       /\ reader' = [pc |-> "lock", cid |-> cid, slot |-> slot, data |-> data, out |-> <<>>]
       /\ keepalive' \in {[pc |-> "none", cid |-> cid, on |-> FALSE],
                          [pc |-> "sleep", cid |-> cid, on |-> TRUE]}

Dispatch(p, cid, cmd, data, slot) ==
  \/ cmd = "INIT" /\ HandleInit(p, cid, data, slot)
  \/ cmd = "PING" /\ Answer(p, cid, slot, SendResponse(cid, "PING", data))
  \/ cmd = "CBOR" /\ HandleCbor(p, cid, data, slot)
  \/ cmd = "CANCEL" /\ Answer(p, cid, slot, SendResponse(cid, "CBOR", Unread(1)))
  \/ cmd = "WINK" /\ Answer(p, cid, slot, SendResponse(cid, "WINK", <<>>))
  \/ cmd \notin {"INIT", "PING", "CBOR", "CANCEL", "WINK"} /\ Answer(p, cid, slot, Error(cid))

Refuse(p, cid) == Answer(p, cid, 0, Error(cid))

(* The channel has a new piece of its message: dispatched once complete. *)
Assembled(p, s, ch) ==
  LET q == Touch(p, s, ch)
  IN  IF Len(ch.data) >= ch.total THEN Dispatch(q, ch.cid, ch.cmd, ch.data, s)
      ELSE pool' = q /\ UNCHANGED <<reader, keepalive>>

StartMessage(p, s, r) ==
  Assembled(p, s, [p.chan[s] EXCEPT !.cmd = r.cmd, !.total = r.total, !.seq = 0, !.data = r.data])

InitPacket(r) ==
  IF r.cmd = "INIT" /\ r.total <= InitData THEN Dispatch(pool, r.cid, r.cmd, r.data, 0)
  ELSE IF r.total > MaxMsg THEN Refuse(pool, r.cid)
  ELSE IF r.cid = Broadcast
  THEN IF r.cmd # "INIT" THEN Refuse(pool, r.cid)
       ELSE \E draw \in Draws(pool) :
              IF draw = None THEN Refuse(AllocChannel(pool, draw), r.cid)
              ELSE StartMessage(AllocChannel(pool, draw), AllocSlot(pool), r)
  ELSE LET found == FindChannel(pool, r.cid)
       IN  IF found = {} THEN Refuse(pool, r.cid)
           ELSE StartMessage(pool, Min(found), r)

Idle(ch) == [ch EXCEPT !.total = 0, !.data = <<>>]

Continuation(r) ==
  LET found == FindChannel(pool, r.cid)
      s == Min(found)
      ch == pool.chan[s]
  IN  IF found = {} THEN Refuse(pool, r.cid)
      ELSE IF ch.total = 0 THEN Refuse(pool, r.cid)
      ELSE IF r.seq # ch.seq THEN Refuse([pool EXCEPT !.chan[s] = Idle(@)], r.cid)
      ELSE Assembled(pool, s, [ch EXCEPT !.seq = @ + 1,
             !.data = @ \o SubSeq(r.data, 1, Min({ContData, ch.total - Len(ch.data)}))])

ReadReport ==
  /\ reader.pc = "poll" /\ running /\ inq # <<>>
  /\ inq' = Tail(inq)
  /\ IF Head(inq).first THEN InitPacket(Head(inq)) ELSE Continuation(Head(inq))
  /\ UNCHANGED <<use, apps, running, engine>>

(* poll() finds nothing for 500 ms.  A message without a report for longer *)
(* than that is given up: at the first such poll after its last report it  *)
(* may be, at the second it is.                                            *)
Stalled == {s \in Slots : pool.chan[s].total > Len(pool.chan[s].data)}
(* A mutant of PollTimeout: the thread only looks whether it is to go on. *)
PollTimeoutKeeps ==
  /\ reader.pc = "poll" /\ running /\ inq = <<>>
  /\ UNCHANGED hidVars
(* The errors to the channels given up, in the order of the loop.           *)
LateErrors(late) ==
  LET upTo[i \in 0..Channels] ==
        IF i = 0 THEN <<>>
        ELSE upTo[i - 1] \o (IF i \in late THEN Error(pool.chan[i].cid) ELSE <<>>)
  IN  upTo[Channels]
PollTimeout ==
  /\ reader.pc = "poll" /\ running /\ inq = <<>>
  /\ \E late \in SUBSET Stalled :
       /\ {s \in Stalled : pool.chan[s].quiet} \subseteq late
       /\ pool' = [pool EXCEPT !.chan = [s \in Slots |->
            IF s \in late THEN Idle(pool.chan[s])
            ELSE [pool.chan[s] EXCEPT !.quiet = s \in Stalled]]]
       /\ reader' = IF late = {} THEN reader
                    ELSE [NoRequest EXCEPT !.pc = "send", !.out = LateErrors(late)]
  /\ UNCHANGED <<use, inq, apps, keepalive, running, engine>>

(* The device ends (EOF or a failing read), or the thread is asked to. *)
ReaderEnds ==
  /\ reader.pc = "poll" /\ (~running \/ use.ends)
  /\ reader' = [reader EXCEPT !.pc = "gone"]
  /\ UNCHANGED <<use, inq, apps, pool, keepalive, running, engine>>

(* bio_fido2_process, under the engine's mutex. *)
LockEngine ==
  /\ reader.pc = "lock" /\ engine = "free"
  /\ engine' = "reader" /\ reader' = [reader EXCEPT !.pc = "process"]
  /\ UNCHANGED <<use, inq, apps, pool, keepalive, running>>

Process ==
  /\ reader.pc = "process"
  /\ engine' = "free"
  /\ keepalive' = [keepalive EXCEPT !.on = FALSE]
  /\ \E n \in {1, InitData + 1} :   \* a status alone, or a longer answer
       reader' = [reader EXCEPT !.pc = "join", !.data = <<>>,
                                !.out = SendResponse(reader.cid, "CBOR", Unread(n))]
  /\ UNCHANGED <<use, inq, apps, pool, running>>

(* A mutant of JoinKeepalive: the thread is told to end and not waited for. *)
JoinNobody ==
  /\ reader.pc = "join"
  /\ reader' = [reader EXCEPT !.pc = "send"]
  /\ UNCHANGED <<use, inq, apps, pool, keepalive, running, engine>>
JoinKeepalive ==
  /\ reader.pc = "join" /\ keepalive.pc = "none"
  /\ reader' = [reader EXCEPT !.pc = "send"]
  /\ UNCHANGED <<use, inq, apps, pool, keepalive, running, engine>>

(* One report of the answer; after the last the channel is idle again. *)
SendReport ==
  /\ reader.pc = "send"
  /\ Write(Head(reader.out))
  /\ IF Len(reader.out) > 1
     THEN reader' = [reader EXCEPT !.out = Tail(@)] /\ UNCHANGED pool
     ELSE /\ reader' = NoRequest
          /\ pool' = IF reader.slot = 0 THEN pool
                     ELSE [pool EXCEPT !.chan[reader.slot] = Idle(@)]
  /\ UNCHANGED <<use, inq, keepalive, running, engine>>

----------------------------------------------------------------------------
(* The keepalive thread: it sleeps, looks at its flag, writes. *)

KeepaliveWakes ==
  /\ keepalive.pc = "sleep"
  /\ keepalive' = [keepalive EXCEPT !.pc = IF keepalive.on THEN "write" ELSE "none"]
  /\ UNCHANGED <<use, inq, apps, pool, reader, running, engine>>

KeepaliveWrites ==
  /\ keepalive.pc = "write"
  /\ Write(InitReport(keepalive.cid, "KEEPALIVE", Unread(1)))
  /\ keepalive' = [keepalive EXCEPT !.pc = "sleep"]
  /\ UNCHANGED <<use, inq, pool, reader, running, engine>>

----------------------------------------------------------------------------
HidInit ==
  /\ use \in Uses
  /\ inq = <<>> /\ apps = [a \in Apps |-> NewApp]
  /\ pool = [chan |-> [s \in Slots |-> Free], lru |-> <<>>, drawn |-> {}]
  /\ reader = [NoRequest EXCEPT !.pc = IF use.uhid THEN "poll" ELSE "gone"]
  /\ keepalive = [pc |-> "none", cid |-> None, on |-> FALSE]
  /\ running = use.uhid /\ engine = "free"

Host(a) ==
  \/ \E m \in use.messages : HostStart(a, m[1], m[2])
  \/ HostReport(a)
  \/ HostCancel(a)
Reader ==
  \/ ReadReport \/ PollTimeout \/ ReaderEnds
  \/ LockEngine \/ Process \/ JoinKeepalive \/ SendReport
Keepalive == KeepaliveWakes \/ KeepaliveWrites

HidNext == (\E a \in use.users : Host(a)) \/ Reader \/ Keepalive

(* Threads that can run do; an application writes out what it began. *)
HidFairness ==
  /\ WF_hidVars(ReadReport) /\ WF_hidVars(PollTimeout) /\ WF_hidVars(Process)
  /\ WF_hidVars(JoinKeepalive) /\ WF_hidVars(SendReport) /\ SF_hidVars(LockEngine)
  /\ WF_hidVars(ReaderEnds /\ ~running)
  /\ WF_hidVars(KeepaliveWakes) /\ WF_hidVars(KeepaliveWrites)
  /\ \A a \in Apps : WF_hidVars(HostReport(a))

----------------------------------------------------------------------------
(* Every message the engine is given is one message of one application,    *)
(* whole: its reports were neither mixed with another's nor put together   *)
(* with one missing, whatever the kernel dropped and whichever channels    *)
(* were evicted meanwhile (process_hid_report).                            *)
DispatchesWhole ==
  reader.pc \in {"lock", "process"} =>
    LET id == reader.data[1][1]
    IN  /\ \A k \in DOMAIN reader.data : reader.data[k] = <<id, k>>
        /\ apps[id[1]].sent = id[2] => Len(reader.data) = apps[id[1]].last.len

(* A PING that is answered with a PING gets its own bytes back: reassembly *)
(* and ctaphid_send_response undo each other.                              *)
EchoIsExact ==
  \A a \in Apps :
    LET app == apps[a]
    IN  app.answer # None /\ app.asked # None =>
          (app.answer.cmd = "PING" => app.answer.data = Bytes(app.asked))

(* The reports of an answer reach the application in order and with none   *)
(* of another answer between them: ctaphid_keepalive_thread writes to the  *)
(* same channel, and is joined before the answer is sent.                  *)
RepliesUnbroken == \A a \in Apps : ~apps[a].garbled

(* Messages are whole in both directions. *)
MessagesWhole == DispatchesWhole /\ EchoIsExact /\ RepliesUnbroken

(* An application is never left waiting: every message whose reports all   *)
(* reached the device is answered, with an error if its channel was        *)
(* evicted, its length refused or its channel unknown.                     *)
Answered ==
  \A a \in Apps :
    (apps[a].waiting # None) ~>
      (apps[a].waiting = None \/ apps[a].lost \/ ~running \/ reader.pc = "gone")

(* A message that was begun and not continued does not stay in its         *)
(* channel: the timeout of uhid_reader_thread gives it up.                 *)
StaleTransactionsEnd ==
  \A s \in Slots :
    (s \in Stalled) ~> (s \notin Stalled \/ ~running \/ reader.pc = "gone")

(* No message is left without an end, complete or not. *)
EveryMessageEnds == Answered /\ StaleTransactionsEnd

=============================================================================
