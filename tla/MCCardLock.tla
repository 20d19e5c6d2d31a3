----------------------------- MODULE MCCardLock -----------------------------
EXTENDS CardLock, TLC
Symmetry == Permutations(Cards) \cup Permutations(Runs) \cup Permutations(Paths)
=============================================================================
