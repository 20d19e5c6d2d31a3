---------------------------- MODULE MCCardBridge ----------------------------
EXTENDS CardBridge, TLC
Symmetry == Permutations(Processes) \cup Permutations(Cards)
=============================================================================
