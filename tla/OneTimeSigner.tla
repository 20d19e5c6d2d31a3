--------------------------- MODULE OneTimeSigner ---------------------------
(***************************************************************************)
(* What a MuSig2 signing card promises its owner, with no APDUs, PINs or   *)
(* power cycles in sight: at most one key for life, and every nonce pair   *)
(* that is offered is fresh and yields at most one partial signature.      *)
(*                                                                         *)
(* Random scalars are named by natural numbers in the order they are       *)
(* drawn; 0 is "no scalar".                                                *)
(***************************************************************************)
EXTENDS Naturals

VARIABLES
  key,      \* the published signing key, 0 before there is one
  offer,    \* the one outstanding nonce pair, 0 when there is none
  used,     \* the nonce pairs that produced a partial signature
  last      \* the latest scalar drawn

vars == <<key, offer, used, last>>

Init == key = 0 /\ offer = 0 /\ used = {} /\ last = 0

\* A draw the signer never shows: a key generation or a nonce command that
\* failed.  Any outstanding offer dies with the failure.
Waste == /\ last' \in Nat /\ last' >= last
         /\ offer' = 0
         /\ UNCHANGED <<key, used>>

\* The key is published once, from a scalar nobody has seen.
Publish == /\ key = 0
           /\ last' \in Nat /\ last' > last
           /\ key' = last'
           /\ offer' = 0
           /\ UNCHANGED used

\* A fresh pair replaces whatever was outstanding.
Offer == /\ key # 0
         /\ last' \in Nat /\ last' > last
         /\ offer' = last'
         /\ UNCHANGED <<key, used>>

\* The outstanding pair signs, and signing ends it.
Sign == /\ offer # 0
        /\ used' = used \cup {offer}
        /\ offer \notin used
        /\ offer' = 0
        /\ UNCHANGED <<key, last>>

Next == Waste \/ Publish \/ Offer \/ Sign

Spec == Init /\ [][Next]_vars
=============================================================================
