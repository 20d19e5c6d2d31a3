--------------------------- MODULE WriteAheadOnce ---------------------------
(***************************************************************************)
(* What a receipt file promises about an operation that must not be        *)
(* repeated: the promise scripts/send/README.md makes for a send and for a  *)
(* boarding sweep.                                                         *)
(*                                                                         *)
(* claim is what a reader of the file may conclude after any crash:        *)
(*   free      nobody ever started under this path                         *)
(*   reserved  started, certainly nothing sent                             *)
(*   risk      something may have been sent                                *)
(*   never     it is over and nothing was or will be sent                  *)
(*   done      it is over and the effect was seen                          *)
(* sent and effect are the truth: the operator was given the transaction,   *)
(* and the transaction took effect.                                        *)
(***************************************************************************)
VARIABLES claim, sent, effect

vars == <<claim, sent, effect>>

Claims == {"free", "reserved", "risk", "never", "done"}

Init == claim = "free" /\ sent = FALSE /\ effect = FALSE

Reserve == claim = "free" /\ claim' = "reserved" /\ UNCHANGED <<sent, effect>>

\* The risk is written down before it is taken.
Announce == claim = "reserved" /\ claim' = "risk" /\ UNCHANGED <<sent, effect>>

\* The one step that hands the transaction over; it is taken at most once.
Send == claim = "risk" /\ ~sent /\ sent' = TRUE /\ UNCHANGED <<claim, effect>>

\* In the receiver's own time, also after everybody has given up waiting.
Happen == sent /\ ~effect /\ effect' = TRUE /\ UNCHANGED <<claim, sent>>

GiveUp ==
  /\ claim \in {"reserved", "risk"}
  /\ ~sent
  /\ claim' = "never" /\ UNCHANGED <<sent, effect>>

Conclude ==
  /\ claim = "risk" /\ effect
  /\ claim' = "done" /\ UNCHANGED <<sent, effect>>

Next == Reserve \/ Announce \/ Send \/ Happen \/ GiveUp \/ Conclude

Spec == Init /\ [][Next]_vars

=============================================================================
