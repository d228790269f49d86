----------------------------- MODULE MCBufCache -----------------------------
EXTENDS BufCache, TLC
CONSTANTS p1, p2, p3, b1, b2, b3
Perms == Permutations(Proc) \cup Permutations(Block)
=============================================================================
