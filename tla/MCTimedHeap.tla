----------------------------- MODULE MCTimedHeap -----------------------------
EXTENDS TimedHeap, TLC

Symmetry == Permutations(Req)
=============================================================================
