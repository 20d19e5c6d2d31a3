-------------------------- MODULE MCNuriEthSignerV2 --------------------------
(* Model checking of NuriEthSignerV2; the constants are in the .cfg.        *)
EXTENDS NuriEthSignerV2
=============================================================================
