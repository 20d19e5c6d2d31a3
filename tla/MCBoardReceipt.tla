--------------------------- MODULE MCBoardReceipt ---------------------------
(* One boarding sweep with two proof messages; batches of one or two tree  *)
(* transactions are offered.                                               *)
EXTENDS BoardReceipt
=============================================================================
