------------------------------ MODULE MCVault ------------------------------
(***************************************************************************)
(* An instance of Vault with four workloads: two users and the idle timer; *)
(* one user whose vault is created again, with other keys and factors;     *)
(* an entry and its history; passkeys, one-time passwords, a full vault.   *)
(***************************************************************************)
EXTENDS Vault
Base == [users |-> {"alice"}, ids |-> {"i1"}, urls |-> {"a.org"}, rps |-> {}, texts |-> {"x"},
         keys |-> {}, modes |-> {Biometric}, wraps |-> {"w1"}, timeouts |-> {0},
         idle |-> 0, seq |-> 3]
TwoUsers == [Base EXCEPT !.users = {"alice", "bob"}, !.timeouts = {1}, !.idle = 1, !.seq = 2]
Recreated == [Base EXCEPT !.modes = {Biometric, {"biometric", "password"}},
                          !.wraps = {"w1", "w2"}, !.timeouts = {0, 1}, !.idle = 1]
Histories == [Base EXCEPT !.texts = {"x", "y"}, !.urls = {"a.org", "b.org"}, !.seq = 4]
PasskeyLoad == [Base EXCEPT !.ids = {"i1", "i2", "t1"}, !.urls = {}, !.rps = {"a.org"},
                         !.keys = {"k1"}, !.seq = 2]
MCUsers == {"alice", "bob"}
MCLoads == {TwoUsers, Recreated, Histories, PasskeyLoad}
=============================================================================
