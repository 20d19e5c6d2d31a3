--------------------------- MODULE MCCardSecrets ---------------------------
EXTENDS CardSecrets, TLC
Symmetry == Permutations(Processes) \cup Permutations(EntryNames)
=============================================================================
