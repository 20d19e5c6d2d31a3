-------------------------- MODULE MCCardDashboard --------------------------
EXTENDS CardDashboard, TLC
CONSTANTS old, new, pin
MCApplets == (old :> {"eth1"}) @@ (new :> {"musig2", "eth1"}) @@ (pin :> {"eth2", "eth1"})
Symmetry == Permutations(Requests)
=============================================================================
