--------------------------- MODULE MCLoginLimiter ---------------------------
EXTENDS LoginLimiter, TLC

Symmetric == Permutations(Addrs)
=============================================================================
