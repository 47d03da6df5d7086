------------------------------ MODULE MCFido2 ------------------------------
(* The authenticator for model checking.  Each behaviour is one of a few    *)
(* environments: which commands clients send, and which faults occur.       *)
EXTENDS Fido2, TLC

CONSTANTS r1, r2, v1, v2, p1, p2

MCRps == {r1, r2}
MCUsers == {v1, v2}
MCPins == {p1, p2}

Env(commands, faults, old, ids) ==
  [commands |-> commands, faults |-> faults, old |-> old, ids |-> ids]
MCEnvironments ==
  {Env({"pin", "bio"}, {}, FALSE, 0), Env({"pin"}, {"save"}, FALSE, 0),
   Env({"pin"}, {"save", "seal"}, TRUE, 0), Env({"pin"}, {}, TRUE, 0),
   Env({"cred", "manage"}, {}, FALSE, 3), Env({"cred", "manage"}, {"save"}, FALSE, 2),
   Env({"cred"}, {"save", "unseal"}, TRUE, 2)}
OneClient == {Env({"cred"}, {}, FALSE, 1)}

Symmetry == Permutations(MCRps) \cup Permutations(MCUsers)
=============================================================================
