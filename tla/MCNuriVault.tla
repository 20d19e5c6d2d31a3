---------------------------- MODULE MCNuriVault ----------------------------
(* Two slots on two pages and two names: names are reused, the vault fills *)
(* up, and entries come and go between the pages of a listing.             *)
EXTENDS NuriVault
=============================================================================
