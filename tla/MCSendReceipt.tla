---------------------------- MODULE MCSendReceipt ----------------------------
(* Two invocations of the send tool race for one receipt path, while each  *)
(* of the four parts of the live state changes and changes back.           *)
EXTENDS SendReceipt
=============================================================================
