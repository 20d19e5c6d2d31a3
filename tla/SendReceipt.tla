----------------------------- MODULE SendReceipt -----------------------------
(***************************************************************************)
(* scripts/send/cli.mjs: runSend with its receipt file, run by several     *)
(* invocations that share one receipt path.                                *)
(*                                                                         *)
(* Every await in runSend that reads or changes something outside the       *)
(* process is a step of its own, so invocations interleave between them.   *)
(* Each such call may fail; a call over the network may fail after the     *)
(* other side has acted (its answer was lost).  A process may be killed    *)
(* between any two steps.                                                  *)
(*                                                                         *)
(* The live state a send depends on, what snapshot() returns, has four     *)
(* parts read by four awaits one after the other.  The environment changes *)
(* each part at will, so a snapshot need not show any single moment.  All  *)
(* that matters of a value is whether it equals the one an invocation's    *)
(* first snapshot showed, and that is what the model keeps.                *)
(***************************************************************************)
CONSTANTS
  Runs,     \* invocations of the tool with the same receipt path
  Nobody    \* the writer of a file that does not exist

ASSUME NobodyAssumption == Nobody \notin Runs

VARIABLES
  pc,        \* where each invocation is
  stale,     \* the parts of the live state that differ now from what each
             \* invocation's first snapshot showed, the plan it was confirmed for
  submitted, \* the local flag of the same name
  verified,  \* receipt.indexer_verified
  receipt,   \* the durable receipt file: its status and who wrote it
  operator,  \* what the operator did for each invocation
  agreed     \* history: the parts that were not stale at some moment since the
             \* signatures were made, up to the call of submitTx

vars == <<pc, stale, submitted, verified, receipt, operator, agreed>>

\* Statuses in the order runSend writes them; "none" is no file, "empty" one
\* created by open(wx) and not yet written.
Failures == {"failed_before_submission", "failed_unknown_outcome",
             "failed_completion_only"}
Statuses == {"none", "empty", "planned", "submission_pending",
             "finalization_pending", "finalized", "indexer_verified",
             "completed"} \cup Failures

\* The parts of the live state, in the order snapshot reads them.
Parts == {"recipient", "operator", "server", "coins"}

\* The awaits of the first snapshot, of the one before the intent and of the
\* one inside submitTx; the first read of each is at the place it is named for.
Starting == {"start", "startOperator", "startServer", "startCoins"}
Checking == {"check", "checkOperator", "checkServer", "checkCoins"}
Rechecking == {"recheck", "recheckOperator", "recheckServer", "recheckCoins"}

Places == Starting \cup Checking \cup Rechecking \cup
          {"reserve", "plan", "bridge", "intent", "sign", "pending", "submit",
           "finalizing", "finalize", "confirm", "reconcile", "record",
           "complete", "close", "catch", "end", "killed"}

Init ==
  /\ pc = [r \in Runs |-> "start"]
  /\ stale = [r \in Runs |-> {}]
  /\ submitted = [r \in Runs |-> FALSE]
  /\ verified = [r \in Runs |-> FALSE]
  /\ receipt = [status |-> "none", by |-> Nobody]
  /\ operator = [r \in Runs |-> "idle"]
  /\ agreed = [r \in Runs |-> {}]

-----------------------------------------------------------------------------
(* Helpers.                                                                *)

At(r, place) == pc[r] = place
Goto(r, place) == pc' = [pc EXCEPT ![r] = place]

\* saveReceipt over an existing file: a synced temporary file is renamed over
\* it, then the directory is synced.  It may throw before or after the rename.
Replace(r, status, ok, failed) ==
  \/ /\ receipt' = [status |-> status, by |-> r]
     /\ Goto(r, ok)
  \/ /\ receipt' \in {receipt, [status |-> status, by |-> r]}
     /\ Goto(r, failed)

\* A step that reads or calls without changing what is modelled, or throws.
Call(r, here, ok) ==
  /\ At(r, here)
  /\ \/ Goto(r, ok)
     \/ Goto(r, "catch")
  /\ UNCHANGED <<stale, submitted, verified, receipt, operator>>

-----------------------------------------------------------------------------
(* One invocation.                                                         *)

\* One read of the first snapshot: what it shows is what is compared later.
Read(r, part, here, next) ==
  /\ At(r, here)
  /\ stale' = [stale EXCEPT ![r] = @ \ {part}]
  /\ Goto(r, next) \/ Goto(r, "end")

\* The first snapshot and the confirmation guard.  A failed read, a failed
\* guard, an empty source or a dry run ends the program, before any receipt.
Snapshot(r) ==
  /\ \/ Read(r, "recipient", "start", "startOperator")
     \/ Read(r, "operator", "startOperator", "startServer")
     \/ Read(r, "server", "startServer", "startCoins")
     \/ Read(r, "coins", "startCoins", "reserve")
  /\ UNCHANGED <<submitted, verified, receipt, operator, agreed>>

\* The exclusive create: it is the reservation, and it is outside the try.
Reserve(r) ==
  /\ At(r, "reserve")
  /\ IF receipt.status = "none"
     THEN receipt' = [status |-> "empty", by |-> r] /\ Goto(r, "plan")
     ELSE UNCHANGED receipt /\ Goto(r, "end")
  /\ UNCHANGED <<stale, submitted, verified, operator, agreed>>

\* Writing and syncing the reservation; a failure leaves the file behind and
\* leaves runSend, still outside the try.
Plan(r) ==
  /\ At(r, "plan")
  /\ Replace(r, "planned", "bridge", "end")
  /\ UNCHANGED <<stale, submitted, verified, operator, agreed>>

\* Opening the bridge, then the caller's beforeExecute.
OpenBridge(r) == Call(r, "bridge", "check") /\ UNCHANGED agreed

\* One read of a snapshot that must equal the first one.  A value read that
\* differs decides the comparison, though it is made after the last read.
Revalidate(r, part, here, ok) ==
  /\ At(r, here)
  /\ \/ part \notin stale[r] /\ Goto(r, ok)
     \/ Goto(r, "catch")
  /\ UNCHANGED <<stale, submitted, verified, receipt, operator, agreed>>

\* revalidate before the intent is created.
Check(r) ==
  \/ Revalidate(r, "recipient", "check", "checkOperator")
  \/ Revalidate(r, "operator", "checkOperator", "checkServer")
  \/ Revalidate(r, "server", "checkServer", "checkCoins")
  \/ Revalidate(r, "coins", "checkCoins", "intent")

\* The ark_send intent; the server may hold one even if the call throws.
CreateIntent(r) == Call(r, "intent", "sign") /\ UNCHANGED agreed

\* Authentication, both partials and the aggregate, inside the SDK call.
SignArk(r) ==
  /\ Call(r, "sign", "recheck")
  /\ agreed' = [agreed EXCEPT ![r] = Parts \ stale[r]]

\* Mutant: waits for the live state to match again instead of refusing.
Recheck_Waits(r) ==
  /\ At(r, "recheck") /\ stale[r] = {}
  /\ Goto(r, "pending")
  /\ UNCHANGED <<stale, submitted, verified, receipt, operator, agreed>>

\* Mutant: after authorization only the coins are looked at again.
Recheck_CoinsOnly(r) == Revalidate(r, "coins", "recheck", "pending")

\* guardedOperator.submitTx: the second live snapshot ...
Recheck(r) ==
  \/ Revalidate(r, "recipient", "recheck", "recheckOperator")
  \/ Revalidate(r, "operator", "recheckOperator", "recheckServer")
  \/ Revalidate(r, "server", "recheckServer", "recheckCoins")
  \/ Revalidate(r, "coins", "recheckCoins", "pending")

\* Mutant: the pending status is written after the call.
Pending_Late(r) ==
  /\ At(r, "pending") /\ Goto(r, "submit")
  /\ UNCHANGED <<stale, submitted, verified, receipt, operator, agreed>>

\* ... the durable status ...
Pending(r) ==
  /\ At(r, "pending")
  /\ Replace(r, "submission_pending", "submit", "catch")
  /\ UNCHANGED <<stale, submitted, verified, operator, agreed>>

\* ... the flag and the call.  The operator may receive it and its answer be
\* lost; an answer implies it was received.  The flag is set with no await
\* before the call, so nothing comes between.
Submit(r) ==
  /\ At(r, "submit")
  /\ submitted' = [submitted EXCEPT ![r] = TRUE]
  /\ \/ operator' = [operator EXCEPT ![r] = "received"] /\ Goto(r, "finalizing")
     \/ /\ operator' \in {operator, [operator EXCEPT ![r] = "received"]}
        /\ Goto(r, "catch")
  /\ UNCHANGED <<stale, verified, receipt, agreed>>

\* Checking the server's signatures and signing the checkpoints (these may
\* throw), then guardedOperator.finalizeTx: its status ...
Finalizing(r) ==
  /\ At(r, "finalizing")
  /\ \/ Replace(r, "finalization_pending", "finalize", "catch")
     \/ UNCHANGED receipt /\ Goto(r, "catch")
  /\ UNCHANGED <<stale, submitted, verified, operator, agreed>>

\* ... and its call, which asks the operator to finalize.
Finalize(r) ==
  /\ At(r, "finalize")
  /\ \/ operator' = [operator EXCEPT ![r] = "asked"] /\ Goto(r, "confirm")
     \/ /\ operator' \in {operator, [operator EXCEPT ![r] = "asked"]}
        /\ Goto(r, "catch")
  /\ UNCHANGED <<stale, submitted, verified, receipt, agreed>>

\* The transaction id is the planned one; then the status.
Confirm(r) ==
  /\ At(r, "confirm")
  /\ \/ Replace(r, "finalized", "reconcile", "catch")
     \/ UNCHANGED receipt /\ Goto(r, "catch")
  /\ UNCHANGED <<stale, submitted, verified, operator, agreed>>

\* Mutant: the flag is set before the indexer has been asked.
Reconcile_Trusting(r) ==
  /\ At(r, "reconcile")
  /\ verified' = [verified EXCEPT ![r] = TRUE]
  /\ Goto(r, "record") \/ Goto(r, "catch")
  /\ UNCHANGED <<stale, submitted, receipt, operator, agreed>>

\* The indexer shows the recipient's output and the change, and no longer the
\* inputs.  It may lag behind the answer of finalizeTx.
Reconcile(r) ==
  /\ At(r, "reconcile")
  /\ \/ /\ operator[r] = "finalized"
        /\ verified' = [verified EXCEPT ![r] = TRUE] /\ Goto(r, "record")
     \/ UNCHANGED verified /\ Goto(r, "catch")
  /\ UNCHANGED <<stale, submitted, receipt, operator, agreed>>

Record(r) ==
  /\ At(r, "record")
  /\ Replace(r, "indexer_verified", "complete", "catch")
  /\ UNCHANGED <<stale, submitted, verified, operator, agreed>>

\* send/complete
Complete(r) == Call(r, "complete", "close") /\ UNCHANGED agreed

Close(r) ==
  /\ At(r, "close")
  /\ Replace(r, "completed", "end", "catch")
  /\ UNCHANGED <<stale, submitted, verified, operator, agreed>>

\* What the catch block concludes.
Outcome(r) ==
  IF verified[r] THEN "failed_completion_only"
  ELSE IF submitted[r] THEN "failed_unknown_outcome"
  ELSE "failed_before_submission"

\* The catch block; its own write may fail, and then the file keeps what it had.
Catch(r) ==
  /\ At(r, "catch")
  /\ Replace(r, Outcome(r), "end", "end")
  /\ UNCHANGED <<stale, submitted, verified, operator, agreed>>

Run(r) ==
  \/ Snapshot(r) \/ Reserve(r) \/ Plan(r) \/ OpenBridge(r) \/ Check(r)
  \/ CreateIntent(r) \/ SignArk(r) \/ Recheck(r) \/ Pending(r) \/ Submit(r)
  \/ Finalizing(r) \/ Finalize(r) \/ Confirm(r) \/ Reconcile(r) \/ Record(r)
  \/ Complete(r) \/ Close(r) \/ Catch(r)

-----------------------------------------------------------------------------
(* The environment.                                                        *)

\* The process is killed.  (A loss of power is not modelled: saveReceipt does
\* not sync the parent of a directory it has just created.)
Kill(r) ==
  /\ pc[r] \notin Starting \cup {"end", "killed"}
  /\ Goto(r, "killed")
  /\ UNCHANGED <<stale, submitted, verified, receipt, operator, agreed>>

\* Invocations that have read something and will compare it again.
Comparing ==
  {r \in Runs : pc[r] \in (Starting \ {"start"}) \cup Checking \cup Rechecking
                          \cup {"reserve", "plan", "bridge", "intent", "sign"}}

\* Coins arrive or are spent, the name, the operator or the server changes: one
\* part takes a value that some invocations planned with and others did not.
Drift ==
  /\ \E p \in Parts : \E S \in SUBSET Comparing :
       stale' = [r \in Runs |-> IF r \in S THEN stale[r] \cup {p}
                                ELSE IF r \in Comparing THEN stale[r] \ {p}
                                ELSE stale[r]]
  /\ agreed' = [r \in Runs |-> IF pc[r] \in Rechecking
                               THEN agreed[r] \cup (Parts \ stale'[r])
                               ELSE agreed[r]]
  /\ UNCHANGED <<pc, submitted, verified, receipt, operator>>

\* The operator finalizes, in its own time, what it was asked to.
Settle(r) ==
  /\ operator[r] = "asked"
  /\ operator' = [operator EXCEPT ![r] = "finalized"]
  /\ UNCHANGED <<pc, stale, submitted, verified, receipt, agreed>>

Next == Drift \/ \E r \in Runs : Run(r) \/ Kill(r) \/ Settle(r)

Spec == Init /\ [][Next]_vars

\* A process that is not killed is scheduled, and every call it awaits ends:
\* requests, the bridge and the HTTP client carry timeouts.
FairSpec == Spec /\ \A r \in Runs : WF_vars(Run(r))

-----------------------------------------------------------------------------
(* Properties.                                                             *)

\* Type correctness of the receipt, the invocations and the operator.
TypeOK ==
  /\ pc \in [Runs -> Places]
  /\ stale \in [Runs -> SUBSET Parts]
  /\ submitted \in [Runs -> BOOLEAN]
  /\ verified \in [Runs -> BOOLEAN]
  /\ receipt \in [status: Statuses, by: Runs \cup {Nobody}]
  /\ operator \in [Runs -> {"idle", "received", "asked", "finalized"}]
  /\ agreed \in [Runs -> SUBSET Parts]

\* At most one transaction is ever given to the operator under one receipt
\* path, whatever invocations race for it, crash or find it again later
\* (saveReceipt's exclusive create, runSend line 197).
OneSubmission ==
  \A r, s \in Runs : operator[r] # "idle" /\ operator[s] # "idle" => r = s

\* Statuses under which a reader must assume the operator has the transaction.
AtRisk == {"submission_pending", "finalization_pending", "finalized",
           "indexer_verified", "completed", "failed_unknown_outcome",
           "failed_completion_only"}

\* Whatever crashes when, a transaction the operator received is announced by
\* the durable receipt of the invocation that sent it: the file never says
\* "planned" or "failed_before_submission" of a transaction that is out.
DurableBeforeSubmit ==
  \A r \in Runs : operator[r] # "idle" =>
                    receipt.by = r /\ receipt.status \in AtRisk

\* A receipt that claims the send was seen on the indexer tells the truth.
VerifiedIsFinal ==
  receipt.status \in {"indexer_verified", "completed", "failed_completion_only"}
    => operator[receipt.by] = "finalized"

\* Nothing is submitted on a plan of which some part has not matched the live
\* state at any moment since the signatures were made (revalidate inside
\* submitTx); the parts need not have matched at the same moment.
FreshAtSubmit == \A r \in Runs : operator[r] # "idle" => agreed[r] = Parts

\* A receipt, once written, belongs to its writer for ever, and a final status
\* is never revised, by the same invocation or by another.
ReceiptIsFinal ==
  [][/\ receipt.status # "none" => receipt'.by = receipt.by
     /\ receipt.status \in Failures => receipt' = receipt]_vars

\* The mapping to the promise in WriteAheadOnce.
Claim ==
  CASE receipt.status = "none" -> "free"
    [] receipt.status \in {"empty", "planned"} -> "reserved"
    [] receipt.status = "failed_before_submission" -> "never"
    [] receipt.status \in {"indexer_verified", "completed",
                           "failed_completion_only"} -> "done"
    [] OTHER -> "risk"

Promise == INSTANCE WriteAheadOnce
             WITH claim <- Claim,
                  sent <- \E r \in Runs : operator[r] # "idle",
                  effect <- \E r \in Runs : operator[r] = "finalized"

\* The receipt file keeps the write-ahead promise of the send README: it says
\* nothing was sent only if nothing was or will be, and that the send was seen
\* only if it took effect.
KeepsPromise == Promise!Spec

\* An invocation that got past its reservation ends, unless it is killed: no
\* failed call or stale plan leaves it waiting or retrying for ever.
Settles ==
  \A r \in Runs : At(r, "bridge") ~> (At(r, "end") \/ At(r, "killed"))

=============================================================================
