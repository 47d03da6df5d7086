--------------------------- MODULE MCRateLimiter ---------------------------
\* A table of two for three users, a ring of two and three attempts: the sizes at
\* which eviction, ring wrap and a lockout happen within a few failures.
EXTENDS RateLimiter, TLC

CONSTANTS u1, u2, u3, t1, t2

MCUids == {u1, u2, u3}
MCThreads == {t1, t2}
Symmetry == Permutations(MCUids) \cup Permutations(MCThreads)
=============================================================================
