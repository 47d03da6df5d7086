--------------------------- MODULE MCFido2Daemon ---------------------------
(***************************************************************************)
(* hiya-fido2d for TLC: applications that share the virtual USB key, with  *)
(* messages of every length that is treated differently, and a daemon that *)
(* is stopped at any moment.                                               *)
(***************************************************************************)
EXTENDS Fido2Daemon

Quiet == [users |-> Apps, messages |-> {}, count |-> [a \in Apps |-> 3], cancels |-> FALSE,
          nodraw |-> FALSE, uhid |-> TRUE, ends |-> FALSE, start |-> "loop", clients |-> 0, signals |-> 0]
One == {CHOOSE a \in Apps : TRUE}

(* Long messages over a queue that overflows, and more channels asked for  *)
(* than there are.                                                         *)
MCSharing == [Quiet EXCEPT !.messages = {<<"INIT", 1>>, <<"CBOR", 2>>},
                           !.count = [a \in Apps |-> 2]]
(* One application: messages of every length after one another, and every  *)
(* command.                                                                *)
MCLengths ==
  [Quiet EXCEPT !.users = One, !.messages = 
                  {<<"INIT", 1>>} \cup ({"PING", "CBOR"} \X {0, 2, 3, 4})]
MCCommands ==
  [Quiet EXCEPT !.users = One, !.nodraw = TRUE, !.cancels = TRUE,
                !.messages = {<<"INIT", 0>>, <<"INIT", 1>>, <<"INIT", 2>>, <<"PING", 1>>,
                              <<"CBOR", 1>>, <<"MSG", 1>>, <<"WINK", 0>>}]
(* The daemon is started and stopped with requests from both sides. *)
MCStopping ==
  [Quiet EXCEPT !.users = One, !.messages = {<<"INIT", 1>>, <<"CBOR", 1>>},
                !.count = [a \in Apps |-> 2], !.start = "handlers", !.clients = 1, !.signals = 2]
MCEnding == [MCStopping EXCEPT !.ends = TRUE, !.signals = 1]
MCNoDevice == [MCStopping EXCEPT !.users = {}, !.uhid = FALSE]

MCUses == {MCSharing, MCLengths, MCCommands, MCStopping, MCEnding, MCNoDevice}

=============================================================================
