--------------------------- MODULE MCMuSig2Applet ---------------------------
(* Model-checking instance of the MuSig2 applet.                           *)
EXTENDS MuSig2Applet
=============================================================================
