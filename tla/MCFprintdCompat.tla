-------------------------- MODULE MCFprintdCompat --------------------------
\* Two clients, one running as root (which may claim for anyone) and one as an
\* ordinary user.
EXTENDS FprintdCompat

CONSTANTS c1, c2, alice, root

MCClients == {c1, c2}
MCUsers == {alice, root}
MCUserOf == [c \in MCClients |-> IF c = c1 THEN alice ELSE root]
Both == {"verify", "enroll"}
VerifyOnly == {"verify"}
=============================================================================
