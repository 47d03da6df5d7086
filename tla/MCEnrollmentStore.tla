------------------------ MODULE MCEnrollmentStore ------------------------
(* The enrollment store for model checking: root and one other user, two   *)
(* fingers, one worker beside the main thread.                             *)
EXTENDS EnrollmentStore, TLC

CONSTANTS u1, f1, f2

MCUsers == {RootUser, u1}
MCFingers == {f1, f2}
NoFaults == {{}}
SomeFaults == {{}, {"save"}, {"key", "load"}}
Symmetry == Permutations(MCFingers)
=============================================================================
