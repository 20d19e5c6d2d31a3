------------------------- MODULE BoardReceiptProofs -------------------------
(***************************************************************************)
(* What holds of the boarding sweep for any proof messages and trees.      *)
(*                                                                         *)
(* The argument: the place of the run, the status it last wrote and the    *)
(* step of the batch bound one another.  Journal: an intent may be out     *)
(* only from a place that follows the announcement.  Rounds: what the      *)
(* step of the batch says of tree, signatures and the card's nonce.  Seen: *)
(* a confirmed status comes after the confirmation, at the end.            *)
(***************************************************************************)
EXTENDS BoardReceipt, FiniteSetTheorems, TLAPS

Early == {"none", "planned", "register_proof_signed"}

\* Places of a run that has not announced its intent.
Before == {"reserve", "authorize", "proof", "recheck", "announce"}

Journal ==
  /\ intent => status \notin Early
  /\ pc = "reserve" => status = "none"
  /\ pc \in Before => status \in Early
  /\ pc \notin Before \cup {"catch", "end", "killed"} => status \notin Early

Rounds ==
  /\ step \in {"idle", "started"} => signed = {}
  /\ pc \in {"treeNonce", "treeSubmit"} =>
       step = "started" /\ tree # {} /\ \A m \in tree : card \in {m, Closed}
  /\ step = "signing" => tree # {}
  /\ pc \in {"treeSigned", "treeSigSubmit"} => step = "signing"
  /\ step \in {"aggregated", "finalization"} => tree # {} /\ signed = tree
  /\ pc \in {"forfeit", "forfeitRecord"} => step = "aggregated"
  /\ forfeits => step \in {"aggregated", "finalization"}

Seen ==
  /\ verified => pc \in {"record", "catch", "end", "killed"}
  /\ pc = "record" => verified
  /\ status \in Confirmed => verified /\ pc \in {"catch", "end", "killed"}

Inv == TypeOK /\ Journal /\ Rounds /\ SlotKept /\ Seen

-----------------------------------------------------------------------------
\* A tree of one transaction has no other.
LEMMA OneTransaction ==
  ASSUME NEW nodes \in SUBSET TreeTxs, Cardinality(nodes) = 1, NEW c \in nodes
  PROVE  \A m \in nodes : c = m
<1>1. IsFiniteSet(nodes)
  BY TreeAssumption, FS_Subset
<1>2. \E x : nodes = {x}
  BY <1>1, FS_Singleton
<1> QED
  BY <1>2

LEMMA InitInv == Init => Inv
  BY DEF Init, Inv, TypeOK, Journal, Rounds, SlotKept, Seen, Places, Statuses,
         Early, Before, Confirmed

\* Every step of the run and of the operator preserves the types.
LEMMA TypeStep == Inv /\ [Next]_vars => TypeOK'
<1> SUFFICES ASSUME Inv, [Next]_vars PROVE TypeOK'
  OBVIOUS
<1> USE DEF Inv, TypeOK, Places, Statuses, batch, remote, flags
<1>1. CASE Reserve \/ Authorize \/ SignProof \/ Revalidate \/ Announce
  BY <1>1 DEF Reserve, Authorize, SignProof, Revalidate, Announce, May, Update
<1>2. CASE Register \/ Delete \/ BatchStarted
  BY <1>2 DEF Register, Delete, BatchStarted
<1>3. CASE TreeSigningStarted
  BY <1>3 DEF TreeSigningStarted, Rounds
<1>4. CASE TreeNonce \/ SubmitTreeNonces
  BY <1>4 DEF TreeNonce, SubmitTreeNonces, Update
<1>5. CASE TreeNonces
  BY <1>5 DEF TreeNonces
<1>6. CASE TreeSigned \/ SubmitTreeSignatures \/ BatchFinalization
  BY <1>6 DEF TreeSigned, SubmitTreeSignatures, BatchFinalization, Update
<1>7. CASE SubmitForfeits \/ ForfeitRecord \/ BatchFinalized \/ BatchFailed
  BY <1>7 DEF SubmitForfeits, ForfeitRecord, BatchFinalized, BatchFailed, Update
<1>8. CASE Reconcile \/ Record \/ Catch \/ Kill \/ CardForgets \/ Settle
  BY <1>8 DEF Reconcile, Record, Catch, Outcome, Kill, CardForgets,
     Settle
<1>9. CASE UNCHANGED vars
  BY <1>9 DEF vars
<1> QED
  BY <1>1, <1>2, <1>3, <1>4, <1>5, <1>6, <1>7, <1>8, <1>9 DEF Next

\* The status written last follows the place.
LEMMA JournalStep == Inv /\ [Next]_vars => Journal'
<1> SUFFICES ASSUME Inv, [Next]_vars PROVE Journal'
  OBVIOUS
<1> USE DEF Inv, Journal, Early, Before, batch, remote, flags
<1>1. CASE Reserve \/ Authorize \/ SignProof \/ Revalidate \/ Announce
  BY <1>1 DEF Reserve, Authorize, SignProof, Revalidate, Announce, May, Update
<1>2. CASE Register \/ Delete \/ BatchStarted
  BY <1>2 DEF Register, Delete, BatchStarted
<1>3. CASE TreeSigningStarted \/ TreeNonces
  BY <1>3 DEF TreeSigningStarted, TreeNonces
<1>4. CASE TreeNonce \/ SubmitTreeNonces
  BY <1>4 DEF TreeNonce, SubmitTreeNonces, Update
<1>6. CASE TreeSigned \/ SubmitTreeSignatures \/ BatchFinalization
  BY <1>6 DEF TreeSigned, SubmitTreeSignatures, BatchFinalization, Update
<1>7. CASE SubmitForfeits \/ ForfeitRecord \/ BatchFinalized \/ BatchFailed
  BY <1>7 DEF SubmitForfeits, ForfeitRecord, BatchFinalized, BatchFailed, Update
<1>8. CASE Reconcile \/ Record \/ Catch \/ Kill \/ CardForgets \/ Settle
  BY <1>8 DEF Reconcile, Record, Catch, Outcome, Kill, CardForgets,
     Settle
<1>9. CASE UNCHANGED vars
  BY <1>9 DEF vars
<1> QED
  BY <1>1, <1>2, <1>3, <1>4, <1>6, <1>7, <1>8, <1>9 DEF Next

\* What the step of the batch says of tree, signatures and nonce.
LEMMA RoundsStep == Inv /\ [Next]_vars => Rounds' /\ SlotKept'
<1> SUFFICES ASSUME Inv, [Next]_vars PROVE Rounds' /\ SlotKept'
  OBVIOUS
<1> USE DEF Inv, TypeOK, Rounds, SlotKept, batch, remote, flags
<1>1. CASE Reserve \/ Authorize \/ SignProof \/ Revalidate \/ Announce
  BY <1>1 DEF Reserve, Authorize, SignProof, Revalidate, Announce, May, Update
<1>2. CASE Register
  BY <1>2 DEF Register
<1>11. CASE Delete
  BY <1>11 DEF Delete
<1>10. CASE BatchStarted
  BY <1>10 DEF BatchStarted
<1>3. CASE TreeSigningStarted
  <2>1. PICK nodes \in SUBSET TreeTxs \ {{}} :
          \/ /\ Cardinality(nodes) = 1
             /\ tree' = nodes /\ pc' = "treeNonce" /\ card' \in nodes
          \/ UNCHANGED <<tree, card>> /\ pc' = "catch"
    BY <1>3 DEF TreeSigningStarted
  <2>2. pc' = "treeNonce" => tree' = nodes /\ \A m \in nodes : card' = m
    BY <2>1, OneTransaction
  <2>3. step = "started" /\ UNCHANGED <<step, signed, forfeits>>
    BY <1>3 DEF TreeSigningStarted
  <2> QED
    BY <2>1, <2>2, <2>3
<1>4. CASE TreeNonce \/ SubmitTreeNonces
  BY <1>4 DEF TreeNonce, SubmitTreeNonces, Update
<1>5. CASE TreeNonces
  BY <1>5 DEF TreeNonces
<1>6. CASE TreeSigned \/ SubmitTreeSignatures \/ BatchFinalization
  BY <1>6 DEF TreeSigned, SubmitTreeSignatures, BatchFinalization, Update
<1>7. CASE SubmitForfeits \/ ForfeitRecord \/ BatchFinalized \/ BatchFailed
  BY <1>7 DEF SubmitForfeits, ForfeitRecord, BatchFinalized, BatchFailed, Update
<1>8. CASE Reconcile \/ Record \/ Catch \/ Kill \/ CardForgets \/ Settle
  BY <1>8 DEF Reconcile, Record, Catch, Kill, CardForgets,
     Settle
<1>9. CASE UNCHANGED vars
  BY <1>9 DEF vars
<1> QED
  BY <1>1, <1>2, <1>3, <1>4, <1>5, <1>6, <1>7, <1>8, <1>9, <1>10, <1>11 DEF Next

\* Confirmation comes last, and its status after it.
LEMMA SeenStep == Inv /\ [Next]_vars => Seen'
<1> SUFFICES ASSUME Inv, [Next]_vars PROVE Seen'
  OBVIOUS
<1> USE DEF Inv, Seen, Confirmed, batch, remote, flags
<1>1. CASE Reserve \/ Authorize \/ SignProof \/ Revalidate \/ Announce
  BY <1>1 DEF Reserve, Authorize, SignProof, Revalidate, Announce, May, Update
<1>2. CASE Register
  BY <1>2 DEF Register
<1>11. CASE Delete
  BY <1>11 DEF Delete
<1>10. CASE BatchStarted
  BY <1>10 DEF BatchStarted
<1>3. CASE TreeSigningStarted \/ TreeNonces
  BY <1>3 DEF TreeSigningStarted, TreeNonces
<1>4. CASE TreeNonce \/ SubmitTreeNonces
  BY <1>4 DEF TreeNonce, SubmitTreeNonces, Update
<1>6. CASE TreeSigned \/ SubmitTreeSignatures \/ BatchFinalization
  BY <1>6 DEF TreeSigned, SubmitTreeSignatures, BatchFinalization, Update
<1>7. CASE SubmitForfeits \/ ForfeitRecord \/ BatchFinalized \/ BatchFailed
  BY <1>7 DEF SubmitForfeits, ForfeitRecord, BatchFinalized, BatchFailed, Update
<1>8. CASE Reconcile \/ Record \/ Catch \/ Kill \/ CardForgets \/ Settle
  BY <1>8 DEF Reconcile, Record, Catch, Outcome, Kill, CardForgets,
     Settle
<1>9. CASE UNCHANGED vars
  BY <1>9 DEF vars
<1> QED
  BY <1>1, <1>2, <1>3, <1>4, <1>6, <1>7, <1>8, <1>9, <1>10, <1>11 DEF Next

LEMMA Invariance == Spec => []Inv
<1>1. Inv /\ [Next]_vars => Inv'
  BY TypeStep, JournalStep, RoundsStep, SeenStep DEF Inv
<1> QED
  BY <1>1, InitInv, PTL DEF Spec

-----------------------------------------------------------------------------
\* Types of the run, the receipt and the batch.
THEOREM TypeCorrect == Spec => []TypeOK
  BY Invariance, PTL DEF Inv

\* An intent the operator holds is announced by the receipt.
THEOREM Journaled == Spec => []IntentJournaled
<1>1. Inv => IntentJournaled
  BY DEF Inv, Journal, IntentJournaled, Early
<1> QED
  BY <1>1, Invariance, PTL

\* The card's slot keeps a promised nonce until it is used or lost, and a lost
\* one is never made up for.
THEOREM NonceKept == Spec => NonceHeld
<1>1. Inv => SlotKept
  BY DEF Inv
<1>2. Inv /\ [Next]_vars
        => [step = "signing" /\ card = Closed => signed' = signed]_vars
  <2> SUFFICES ASSUME Inv, Next, step = "signing", card = Closed
               PROVE  signed' = signed
    OBVIOUS
  <2>1. CASE TreeNonces
    BY <2>1, TreeAssumption DEF TreeNonces, Inv, TypeOK
  <2>2. CASE UNCHANGED signed
    BY <2>2
  <2> QED
    BY <2>1, <2>2
       DEF Next, batch, Reserve, Authorize, SignProof, Revalidate, Announce,
           Register, Delete, BatchStarted, TreeSigningStarted, TreeNonce,
           SubmitTreeNonces, TreeSigned, SubmitTreeSignatures,
           BatchFinalization, SubmitForfeits, ForfeitRecord, BatchFinalized,
           BatchFailed, Reconcile, Record, Catch, Kill, CardForgets, Settle
<1> QED
  BY <1>1, <1>2, Invariance, PTL DEF Spec, NonceHeld

\* Coins are signed away only for a tree that is completely signed.
THEOREM TreeFirst == Spec => []TreeBeforeForfeit
<1>1. Inv => TreeBeforeForfeit
  BY DEF Inv, Rounds, TreeBeforeForfeit
<1> QED
  BY <1>1, Invariance, PTL

\* A confirmed sweep is never recorded otherwise afterwards.
THEOREM ConfirmationStays == Spec => ConfirmedStays
<1>1. Inv /\ [Next]_vars => (status \in Confirmed => status' \in Confirmed)
  <2> SUFFICES ASSUME Inv, [Next]_vars, status \in Confirmed
               PROVE  status' \in Confirmed
    OBVIOUS
  <2>1. verified /\ pc \in {"catch", "end", "killed"}
    BY DEF Inv, Seen
  <2>2. CASE Catch
    BY <2>1, <2>2 DEF Catch, Outcome, Confirmed
  <2>3. CASE UNCHANGED status
    BY <2>3
  <2> QED
    BY <2>1, <2>2, <2>3
       DEF Next, vars, Reserve, Authorize, SignProof, Revalidate, Announce,
           Register, Delete, BatchStarted, TreeSigningStarted, TreeNonce,
           SubmitTreeNonces, TreeNonces, TreeSigned, SubmitTreeSignatures,
           BatchFinalization, SubmitForfeits, ForfeitRecord, BatchFinalized,
           BatchFailed, Reconcile, Record, Kill, CardForgets, Settle, May
<1> QED
  BY <1>1, Invariance, PTL DEF Spec, ConfirmedStays
=============================================================================
