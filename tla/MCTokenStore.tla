---------------------------- MODULE MCTokenStore ----------------------------
\* Small instances of TokenStore for TLC.
EXTENDS TokenStore, TLC

Symmetric == Permutations(Procs)
=============================================================================
