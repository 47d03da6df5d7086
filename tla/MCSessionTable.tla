--------------------------- MODULE MCSessionTable ---------------------------
\* Two slots, so that the table fills; root on one connection and a user on
\* another; ages that expire within the clock bound; extensions that cap, that
\* add and that wrap a guint of three bits.
EXTENDS SessionTable

MCUids == {0, 1}
MCSenders == {"s0", "s1"}
MCUidOf == [s \in MCSenders |-> IF s = "s0" THEN 0 ELSE 1]
MCAges == {1, 2}
MCExtensions == {1, 6}
MCScanTimes == {1}
=============================================================================
