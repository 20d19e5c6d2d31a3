---------------------------- MODULE BoardReceipt ----------------------------
(***************************************************************************)
(* scripts/send/board.mjs: runBoard, the boarding sweep, from its          *)
(* reservation to the settled VTXO.                                        *)
(*                                                                         *)
(* After registering an intent the run is driven by the operator's event   *)
(* stream.  sdk.Batch.join (a library) hands each event to the handler of  *)
(* its kind only in the step of the batch it belongs to, and a failed      *)
(* batch or a closed stream makes it throw.  The card holds one open nonce *)
(* at a time, and a tree nonce must stay open from one event to another;   *)
(* the card may lose it in between, and loses it in a FINALIZE that fails. *)
(*                                                                         *)
(* The file is written by saveReceipt; invocations racing for one receipt  *)
(* path are the subject of SendReceipt, here there is one.                 *)
(***************************************************************************)
EXTENDS Naturals, FiniteSets

CONSTANTS
  Inputs,    \* messages of the register proof (the BIP322 input and the coins)
  TreeTxs,   \* transactions a batch tree may have
  Closed     \* the card holds no nonce opened for a tree transaction

ASSUME TreeAssumption == Closed \notin TreeTxs /\ IsFiniteSet(TreeTxs)

VARIABLES
  pc,        \* where the run is
  status,    \* the durable status in the receipt file
  step,      \* the step of Batch.join
  todo,      \* proof messages not yet signed
  tree,      \* tree transactions whose nonces were handed out (treeState)
  signed,    \* of these, the ones signed (treeSignatures)
  card,      \* the tree transaction whose nonce is open at the card
  submitted, \* the local flag of the same name
  verified,  \* receipt.indexer_verified
  intent,    \* does the operator hold the intent
  forfeits,  \* has the operator received the signed commitment
  settled    \* has the operator settled the batch

vars == <<pc, status, step, todo, tree, signed, card, submitted, verified,
          intent, forfeits, settled>>
batch == <<step, tree, signed, card>>
remote == <<intent, forfeits, settled>>
flags == <<submitted, verified>>

Statuses == {"none", "planned", "register_proof_signed", "registering_intent",
             "tree_nonce_submitted", "tree_signed", "boarding_input_signed",
             "submission_pending", "finalized", "indexer_verified",
             "failed_before_submission", "failed_unknown_outcome",
             "failed_completion_only"}

Places == {"reserve", "authorize", "proof", "recheck", "announce", "register",
           "delete", "join", "treeNonce", "treeRecord", "treeSubmit",
           "treeSign", "treeSigned", "treeSigSubmit", "inputSign", "forfeit",
           "forfeitRecord", "finalized", "reconcile", "record", "catch", "end",
           "killed"}

Init ==
  /\ pc = "reserve" /\ status = "none" /\ step = "idle"
  /\ todo = Inputs /\ tree = {} /\ signed = {} /\ card = Closed
  /\ submitted = FALSE /\ verified = FALSE
  /\ intent = FALSE /\ forfeits = FALSE /\ settled = FALSE

\* update: the file is replaced, and saveReceipt may throw before or after.
Update(new, ok) ==
  \/ status' = new /\ pc' = ok
  \/ status' \in {status, new} /\ pc' = "catch"

\* A step that may throw; ok is where it goes on.
May(here, ok) ==
  /\ pc = here
  /\ pc' \in {ok, "catch"}

-----------------------------------------------------------------------------
(* Up to the registered intent.                                            *)

\* update('planned'), outside the try.
Reserve ==
  /\ pc = "reserve"
  /\ \/ status' = "planned" /\ pc' = "authorize"
     \/ status' \in {"none", "planned"} /\ pc' = "end"
  /\ UNCHANGED <<batch, todo, flags, remote>>

\* Bridge, passkey assertion, address registration and sync, first approval.
Authorize ==
  /\ May("authorize", "proof")
  /\ UNCHANGED <<status, batch, todo, flags, remote>>

\* One message of the register proof: a card session, then the status.
SignProof ==
  /\ pc = "proof" /\ todo # {}
  /\ \E i \in todo :
       \/ todo' = todo \ {i} /\ Update("register_proof_signed", "proof")
       \/ UNCHANGED <<todo, status>> /\ pc' = "catch"
  /\ UNCHANGED <<batch, flags, remote>>

\* revalidate
Revalidate ==
  /\ pc = "proof" /\ todo = {}
  /\ pc' \in {"announce", "catch"}
  /\ UNCHANGED <<status, batch, todo, flags, remote>>

\* Mutant: the intent is registered first and recorded later.
Announce_Late ==
  /\ pc = "announce" /\ pc' = "register"
  /\ UNCHANGED <<status, batch, todo, flags, remote>>

Announce ==
  /\ pc = "announce"
  /\ Update("registering_intent", "register")
  /\ UNCHANGED <<batch, todo, flags, remote>>

\* operator.registerIntent; a refusal and a lost answer look the same.  An
\* answer without an id throws outside the inner try: nothing is deleted.
Register ==
  /\ pc = "register"
  /\ \/ intent' = TRUE /\ pc' \in {"join", "catch"}
     \/ intent' \in BOOLEAN /\ pc' = "delete"
  /\ UNCHANGED <<status, batch, todo, flags, forfeits, settled>>

\* The delete proof after a failed registration: approving or signing it may
\* throw, the deletion itself is attempted once and its failure swallowed; the
\* registration's error is thrown in the end.
Delete ==
  /\ pc = "delete" /\ pc' = "catch"
  /\ intent' \in {intent, FALSE}
  /\ UNCHANGED <<status, batch, todo, flags, forfeits, settled>>

-----------------------------------------------------------------------------
(* The batch, driven by events.                                            *)

\* onBatchStarted for a batch that includes our intent: the expiry is checked
\* and the registration confirmed.
BatchStarted ==
  /\ pc = "join" /\ intent /\ step = "idle"
  /\ \/ step' = "started" /\ pc' = "join"
     \/ UNCHANGED step /\ pc' = "catch"
  /\ UNCHANGED <<status, tree, signed, card, todo, flags, remote>>

\* Mutant: the restriction to one transaction is dropped.
TreeSigningStarted_AnySize ==
  /\ pc = "join" /\ step = "started"
  /\ \E nodes \in SUBSET TreeTxs \ {{}} :
       \/ tree' = nodes /\ pc' = "treeNonce" /\ card' \in nodes
       \/ UNCHANGED <<tree, card>> /\ pc' = "catch"
  /\ UNCHANGED <<status, step, signed, todo, flags, remote>>

\* onTreeSigningStarted: the tree is validated and approved, and since the card
\* holds one nonce a tree of more than one transaction is refused; then the
\* nonce is opened.
TreeSigningStarted ==
  /\ pc = "join" /\ step = "started"
  /\ \E nodes \in SUBSET TreeTxs \ {{}} :
       \/ /\ Cardinality(nodes) = 1
          /\ tree' = nodes /\ pc' = "treeNonce" /\ card' \in nodes
       \/ UNCHANGED <<tree, card>> /\ pc' = "catch"
  /\ UNCHANGED <<status, step, signed, todo, flags, remote>>

\* The server's half of the nonce, then the status ...
TreeNonce ==
  /\ pc = "treeNonce"
  /\ \/ Update("tree_nonce_submitted", "treeSubmit")
     \/ UNCHANGED status /\ pc' = "catch"
  /\ UNCHANGED <<batch, todo, flags, remote>>

\* ... and operator.submitTreeNonces.
SubmitTreeNonces ==
  /\ pc = "treeSubmit"
  /\ \/ step' = "signing" /\ pc' = "join"
     \/ UNCHANGED step /\ pc' = "catch"
  /\ UNCHANGED <<status, tree, signed, card, todo, flags, remote>>

\* Mutant: reports the tree signed when the nonces are only partly there.
TreeNonces_Early ==
  /\ pc = "join" /\ step = "signing"
  /\ \E m \in tree :
       \/ card = m /\ card' = Closed /\ signed' = signed \cup {m}
            /\ pc' = "treeSigned" /\ UNCHANGED step
       \/ card' \in {card, Closed} /\ pc' = "catch" /\ UNCHANGED <<signed, step>>
       \/ step' = "aggregated" /\ UNCHANGED <<card, signed, pc>>
  /\ UNCHANGED <<status, tree, todo, flags, remote>>

\* Mutant: a nonce the card has lost is replaced by a fresh one.
TreeNonces_Fresh ==
  /\ pc = "join" /\ step = "signing"
  /\ \E m \in tree :
       \/ card \in {m, Closed} /\ card' = Closed /\ signed' = signed \cup {m}
            /\ pc' = "treeSigned"
       \/ card' \in {card, Closed} /\ pc' = "catch" /\ UNCHANGED signed
  /\ UNCHANGED <<status, step, tree, todo, flags, remote>>

\* onTreeNonces for one of our transactions.  While nonces of other signers are
\* missing nothing happens; else the card finalizes with the nonce that has been
\* open since round one, and the server's partial is added and the sum verified.
\* The card burns the nonce whether FINALIZE succeeds or fails, so an error
\* leaves it only if it came before the card was asked.
TreeNonces ==
  /\ pc = "join" /\ step = "signing"
  /\ \E m \in tree :
       \/ card = m /\ card' = Closed /\ signed' = signed \cup {m}
            /\ pc' = "treeSigned"
       \/ card' \in {card, Closed} /\ pc' = "catch" /\ UNCHANGED signed
  /\ UNCHANGED <<status, step, tree, todo, flags, remote>>

TreeSigned ==
  /\ pc = "treeSigned"
  /\ Update("tree_signed", "treeSigSubmit")
  /\ UNCHANGED <<batch, todo, flags, remote>>

\* All tree transactions signed: operator.submitTreeSignatures, and the batch
\* moves on; otherwise wait for the next event.
SubmitTreeSignatures ==
  /\ pc = "treeSigSubmit"
  /\ \/ signed = tree /\ step' = "aggregated" /\ pc' = "join"
     \/ signed # tree /\ pc' = "join" /\ UNCHANGED step
     \/ signed = tree /\ pc' = "catch" /\ UNCHANGED step
  /\ UNCHANGED <<status, tree, signed, card, todo, flags, remote>>

\* onBatchFinalization: the commitment is checked and approved, and the boarding
\* inputs are signed; each signature is recorded.
BatchFinalization ==
  /\ pc = "join" /\ step = "aggregated"
  /\ \/ Update("boarding_input_signed", "forfeit")
     \/ UNCHANGED status /\ pc' = "catch"
  /\ UNCHANGED <<batch, todo, flags, remote>>

\* operator.submitSignedForfeitTxs.  Only an answer that arrives sets the flag.
SubmitForfeits ==
  /\ pc = "forfeit"
  /\ \/ forfeits' = TRUE /\ submitted' = TRUE /\ pc' = "forfeitRecord"
     \/ forfeits' \in BOOLEAN /\ UNCHANGED submitted /\ pc' = "catch"
  /\ UNCHANGED <<status, batch, todo, verified, intent, settled>>

ForfeitRecord ==
  /\ pc = "forfeitRecord"
  /\ \/ status' = "submission_pending" /\ step' = "finalization" /\ pc' = "join"
     \/ /\ status' \in {status, "submission_pending"} /\ pc' = "catch"
        /\ UNCHANGED step
  /\ UNCHANGED <<tree, signed, card, todo, flags, remote>>

\* onBatchFinalized: Batch.join returns the commitment's id, and the status is
\* written.
BatchFinalized ==
  /\ pc = "join" /\ step = "finalization" /\ settled
  /\ Update("finalized", "reconcile")
  /\ UNCHANGED <<batch, todo, flags, remote>>

\* The batch failed or the stream closed: Batch.join throws.
BatchFailed ==
  /\ pc = "join" /\ pc' = "catch"
  /\ UNCHANGED <<status, batch, todo, flags, remote>>

-----------------------------------------------------------------------------
(* The end.                                                                *)

\* The VTXO must be at our own script on the indexer, which may lag.
Reconcile ==
  /\ pc = "reconcile"
  /\ \/ settled /\ verified' = TRUE /\ pc' = "record"
     \/ UNCHANGED verified /\ pc' = "catch"
  /\ UNCHANGED <<status, batch, todo, submitted, remote>>

Record ==
  /\ pc = "record"
  /\ \/ status' = "indexer_verified" /\ pc' = "end"
     \/ status' \in {status, "indexer_verified"} /\ pc' = "catch"
  /\ UNCHANGED <<batch, todo, flags, remote>>

\* What the catch block concludes.
Outcome ==
  IF verified THEN "failed_completion_only"
  ELSE IF submitted THEN "failed_unknown_outcome"
  ELSE "failed_before_submission"

\* The catch block; its own write may fail.
Catch ==
  /\ pc = "catch" /\ pc' = "end"
  /\ status' \in {status, Outcome}
  /\ UNCHANGED <<batch, todo, flags, remote>>

\* The process is killed.
Kill ==
  /\ pc \notin {"reserve", "end", "killed"}
  /\ pc' = "killed"
  /\ UNCHANGED <<status, batch, todo, flags, remote>>

\* The card loses the open nonce, whatever the run is doing: it leaves the field
\* or its reader is reset, another program selects the applet, opens a nonce of
\* its own or makes a command fail.
CardForgets ==
  /\ card # Closed /\ card' = Closed
  /\ UNCHANGED <<pc, status, step, tree, signed, todo, flags, remote>>

\* The operator settles a batch all of whose signatures it has.
Settle ==
  /\ forfeits /\ intent /\ ~settled
  /\ settled' = TRUE
  /\ UNCHANGED <<pc, status, batch, todo, flags, intent, forfeits>>

Next ==
  \/ Reserve \/ Authorize \/ SignProof \/ Revalidate \/ Announce \/ Register
  \/ Delete \/ BatchStarted \/ TreeSigningStarted \/ TreeNonce
  \/ SubmitTreeNonces \/ TreeNonces \/ TreeSigned \/ SubmitTreeSignatures
  \/ BatchFinalization \/ SubmitForfeits \/ ForfeitRecord \/ BatchFinalized
  \/ BatchFailed \/ Reconcile \/ Record \/ Catch \/ Kill \/ CardForgets \/ Settle

Spec == Init /\ [][Next]_vars

-----------------------------------------------------------------------------
(* Properties.                                                             *)

\* Type correctness.
TypeOK ==
  /\ pc \in Places /\ status \in Statuses
  /\ step \in {"idle", "started", "signing", "aggregated", "finalization"}
  /\ todo \subseteq Inputs
  /\ tree \subseteq TreeTxs /\ signed \subseteq tree
  /\ card \in TreeTxs \cup {Closed}
  /\ \A flag \in {submitted, verified, intent, forfeits, settled} :
       flag \in BOOLEAN

\* The operator holds an intent only after the file says that one is being
\* registered, so a leftover intent is always traceable to a receipt
\* (update('registering_intent') before operator.registerIntent).
IntentJournaled ==
  intent => status \notin {"none", "planned", "register_proof_signed"}

\* While the operator waits for the signatures, the card's one slot holds the
\* nonce promised for each transaction still to be signed, or has lost it: it
\* never holds one opened later for another transaction.
SlotKept == step = "signing" => \A m \in tree \ signed : card \in {m, Closed}

\* The one nonce slot is never promised twice (onTreeSigningStarted, the
\* restriction to one transaction), and a promised nonce that is lost is never
\* made up for: nothing is signed any more with another (onTreeNonces).
NonceHeld ==
  /\ []SlotKept
  /\ [][step = "signing" /\ card = Closed => signed' = signed]_vars

\* The coins are signed away only for a batch whose tree, the owner's VTXO with
\* it, is completely signed.
TreeBeforeForfeit == forfeits => tree # {} /\ signed = tree

\* Statuses that say the sweep was seen on the indexer.
Confirmed == {"indexer_verified", "failed_completion_only"}

\* A sweep once recorded as seen on the indexer is never recorded as unknown or
\* as not submitted afterwards (the order of the tests in the catch block).
ConfirmedStays == [][(status \in Confirmed) => (status' \in Confirmed)]_vars

\* A sweep that failed is recorded as failed before submission only if the
\* operator did not receive it: what the receipt section of the send README
\* and the failure stage in runBoard say.  The code sets the flag after the
\* call, so a lost answer refutes it.
HonestFailure == status = "failed_before_submission" => ~forfeits

=============================================================================
