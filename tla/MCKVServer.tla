----------------------------- MODULE MCKVServer -----------------------------
EXTENDS KVServer, TLC

Symmetry == Permutations(Threads)
=============================================================================
