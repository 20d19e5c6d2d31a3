-------------------------- MODULE SendReceiptProofs --------------------------
(***************************************************************************)
(* What holds of runSend and its receipt for every number of invocations   *)
(* and every way the live state may change under them.                     *)
(*                                                                         *)
(* The argument: the exclusive create makes one invocation the owner of    *)
(* the file for ever (Owner); only the owner can be past the reservation;  *)
(* the local flags of the owner and the status in the file move together   *)
(* (Flags, Status); and the live state agreed with the plan at some moment *)
(* after signing if it is found to agree later (Fresh).                    *)
(***************************************************************************)
EXTENDS SendReceipt, TLAPS

\* Before the reservation an invocation has no effect at all.
Outside == Starting \cup {"reserve", "end", "killed"}

\* Places where the call to submitTx has been made.
After == {"finalizing", "finalize", "confirm", "reconcile", "record",
          "complete", "close", "catch", "end", "killed"}

Owner ==
  /\ receipt.status = "none" <=> receipt.by = Nobody
  /\ \A r \in Runs : pc[r] \notin Outside => receipt.by = r

\* Flags and file as seen by one invocation.
Local(r) ==
  /\ operator[r] # "idle" => submitted[r]
  /\ submitted[r] => /\ pc[r] \in After
                     /\ receipt.by = r /\ receipt.status \in AtRisk
  /\ verified[r] => operator[r] = "finalized"
  /\ pc[r] \in {"record", "complete", "close"} => verified[r]
  /\ pc[r] = "plan" => receipt.status = "empty"
  /\ pc[r] \in Checking \cup Rechecking \cup {"bridge", "intent", "sign", "pending"}
       => receipt.status = "planned"
  /\ pc[r] = "submit" => receipt.status = "submission_pending"
  /\ pc[r] \in {"finalizing", "finalize", "confirm", "reconcile", "record",
                "complete", "close"} => submitted[r] /\ operator[r] # "idle"
  /\ pc[r] \in {"finalizing", "finalize"} => operator[r] = "received"
  /\ pc[r] \in {"submit", "finalizing", "finalize", "confirm", "reconcile"}
       => ~verified[r]

\* What a final status says of its writer.
Status ==
  /\ receipt.status \in {"indexer_verified", "completed",
                         "failed_completion_only"} => verified[receipt.by]
  /\ receipt.status \in Failures => pc[receipt.by] \in Outside

Flags == (\A r \in Runs : Local(r)) /\ Status

\* agreed[r] holds a part already, or the check of that part must fail.
Fresh ==
  \A r \in Runs :
    /\ pc[r] \in Rechecking => Parts \ stale[r] \subseteq agreed[r]
    /\ pc[r] = "recheckOperator" => "recipient" \in agreed[r]
    /\ pc[r] = "recheckServer" => {"recipient", "operator"} \subseteq agreed[r]
    /\ pc[r] = "recheckCoins" => Parts \ {"coins"} \subseteq agreed[r]
    /\ pc[r] \in {"pending", "submit"} \/ submitted[r] => agreed[r] = Parts

Inv == TypeOK /\ Owner /\ Flags /\ Fresh

(***************************************************************************)
(* The invariant.                                                          *)
(***************************************************************************)

\* The invariant holds when the first invocation starts.
LEMMA InitInv == Init => Inv
  BY NobodyAssumption DEF Init, Inv, TypeOK, Places, Statuses, Owner, Outside,
     Flags, Local, Status, Failures, Fresh, Starting, Checking, Rechecking

\* Writing the file keeps the types of the file and of the program counter.
LEMMA ReplaceTypes ==
  ASSUME TypeOK, NEW r \in Runs, NEW status \in Statuses,
         NEW ok \in Places, NEW failed \in Places, Replace(r, status, ok, failed)
  PROVE  /\ pc' \in [Runs -> Places]
         /\ receipt' \in [status: Statuses, by: Runs \cup {Nobody}]
<1>1. pc' \in [Runs -> Places]
  BY DEF Replace, Goto, TypeOK
<1>2. receipt' \in [status: Statuses, by: Runs \cup {Nobody}]
  BY DEF Replace, TypeOK
<1> QED
  BY <1>1, <1>2

\* Every step of an invocation preserves the types.
LEMMA RunTypes ==
  ASSUME TypeOK, NEW r \in Runs, Run(r) \/ Kill(r)
  PROVE  TypeOK'
<1> USE DEF TypeOK, At, Goto
<1>0. /\ {"planned", "submission_pending", "finalization_pending", "finalized",
           "indexer_verified", "completed"} \subseteq Statuses
      /\ {"bridge", "submit", "finalize", "reconcile", "complete", "end",
           "catch"} \subseteq Places
  BY DEF Statuses, Places
<1>1. CASE Snapshot(r)
  <2>1. stale' \in [Runs -> SUBSET Parts]
    BY <1>1 DEF Snapshot, Read
  <2>2. pc' \in [Runs -> Places]
    BY <1>1 DEF Snapshot, Read, Places, Starting
  <2> QED
    BY <1>1, <2>1, <2>2 DEF Snapshot
<1>2. CASE Reserve(r)
  BY <1>2 DEF Reserve, Statuses, Failures, Places
<1>3. CASE Plan(r)
  BY <1>3, ReplaceTypes, <1>0 DEF Plan
<1>4. CASE OpenBridge(r)
  BY <1>4 DEF OpenBridge, Call, Places, Checking
<1>5. CASE Check(r)
  BY <1>5 DEF Check, Revalidate, Places, Checking
<1>6. CASE CreateIntent(r)
  BY <1>6 DEF CreateIntent, Call, Places
<1>7. CASE SignArk(r)
  BY <1>7 DEF SignArk, Call, Places, Rechecking
<1>8. CASE Recheck(r)
  BY <1>8 DEF Recheck, Revalidate, Places, Rechecking
<1>9. CASE Pending(r)
  BY <1>9, ReplaceTypes, <1>0 DEF Pending
<1>10. CASE Submit(r)
  BY <1>10 DEF Submit, Places
<1>11. CASE Finalizing(r)
  <2>1. CASE UNCHANGED receipt /\ Goto(r, "catch")
    BY <1>11, <2>1, <1>0 DEF Finalizing
  <2> QED
    BY <1>11, <2>1, ReplaceTypes, <1>0 DEF Finalizing
<1>12. CASE Finalize(r)
  BY <1>12 DEF Finalize, Places
<1>13. CASE Confirm(r)
  <2>1. CASE UNCHANGED receipt /\ Goto(r, "catch")
    BY <1>13, <2>1, <1>0 DEF Confirm
  <2> QED
    BY <1>13, <2>1, ReplaceTypes, <1>0 DEF Confirm
<1>14. CASE Reconcile(r)
  BY <1>14 DEF Reconcile, Places
<1>15. CASE Record(r)
  BY <1>15, ReplaceTypes, <1>0 DEF Record
<1>16. CASE Complete(r)
  BY <1>16 DEF Complete, Call, Places
<1>17. CASE Close(r)
  BY <1>17, ReplaceTypes, <1>0 DEF Close
<1>18. CASE Catch(r)
  <2>1. Outcome(r) \in Statuses
    BY DEF Outcome, Statuses, Failures
  <2> QED
    BY <1>18, <2>1, ReplaceTypes, <1>0 DEF Catch
<1>19. CASE Kill(r)
  BY <1>19 DEF Kill, Places
<1> QED
  BY <1>1, <1>2, <1>3, <1>4, <1>5, <1>6, <1>7, <1>8, <1>9, <1>10, <1>11, <1>12, <1>13, <1>14, <1>15, <1>16, <1>17, <1>18, <1>19 DEF Run


\* While an invocation holds the file the others are outside and unknown to the
\* operator, so only its own part of the invariant is at stake.
LEMMA OwnerStep ==
  ASSUME Inv, NEW r \in Runs, pc[r] \notin Outside,
         \A s \in Runs \ {r} : /\ pc'[s] = pc[s] /\ submitted'[s] = submitted[s]
                              /\ verified'[s] = verified[s]
                              /\ operator'[s] = operator[s],
         receipt'.by = r, receipt'.status # "none", Local(r)', Status'
  PROVE  Owner' /\ Flags'
<1>1. receipt.by = r
  BY DEF Inv, Owner
<1>2. \A s \in Runs \ {r} : pc[s] \in Outside /\ ~submitted[s]
  BY <1>1 DEF Inv, Owner, Flags, Local
<1>3. \A s \in Runs \ {r} : Local(s)'
  BY <1>2 DEF Inv, Flags, Local, Outside, Starting, Checking, Rechecking
<1>4. Owner'
  BY <1>2, NobodyAssumption DEF Owner
<1> QED
  BY <1>3, <1>4 DEF Flags

\* Every step of an invocation keeps the file, its owner and the flags together.
LEMMA RunOwned ==
  ASSUME Inv, NEW r \in Runs, Run(r) \/ Kill(r)
  PROVE  Owner' /\ Flags'
<1> USE DEF At, Goto
<1>1. CASE Snapshot(r) \/ (Kill(r) /\ pc[r] \in Outside)
  <2>1. /\ UNCHANGED <<receipt, submitted, verified, operator>>
        /\ \A s \in Runs \ {r} : pc'[s] = pc[s]
        /\ pc[r] \in Outside \ {"end", "killed"} /\ pc'[r] \in Outside
    BY <1>1 DEF Snapshot, Read, Kill, Inv, TypeOK, Outside, Starting
  <2>2. Owner'
    BY <2>1 DEF Inv, Owner
  <2>3. Status'
    BY <2>1, NobodyAssumption DEF Inv, Owner, Flags, Status, TypeOK, Failures
  <2>4. \A s \in Runs : Local(s)'
    BY <2>1 DEF Inv, Flags, Local, Outside, After, Starting, Checking, Rechecking
  <2> QED
    BY <2>2, <2>3, <2>4 DEF Flags
<1>2. CASE Reserve(r)
  <2>1. /\ UNCHANGED <<submitted, verified, operator>>
        /\ \A s \in Runs \ {r} : pc'[s] = pc[s]
        /\ pc[r] = "reserve"
    BY <1>2 DEF Reserve, Inv, TypeOK
  <2>2. CASE receipt.status = "none"
    <3>1. receipt' = [status |-> "empty", by |-> r] /\ pc'[r] = "plan"
      BY <1>2, <2>2 DEF Reserve, Inv, TypeOK
    <3>2. \A s \in Runs : pc[s] \in Outside /\ ~submitted[s] /\ ~verified[s]
                            /\ operator[s] = "idle"
      BY <2>2, NobodyAssumption DEF Inv, Owner, Flags, Local, AtRisk
    <3>3. Owner'
      BY <2>1, <3>1, <3>2, NobodyAssumption DEF Owner
    <3>4. \A s \in Runs : Local(s)'
      BY <2>1, <3>1, <3>2 DEF Local, Outside, Starting, Checking, Rechecking
    <3> QED
      BY <3>1, <3>3, <3>4 DEF Flags, Status, Failures
  <2>3. CASE receipt.status # "none"
    <3>1. UNCHANGED receipt /\ pc'[r] = "end"
      BY <1>2, <2>3 DEF Reserve, Inv, TypeOK
    <3>2. Owner'
      BY <2>1, <3>1 DEF Inv, Owner, Outside, Starting
    <3>3. Status'
      BY <2>1, <3>1, NobodyAssumption DEF Inv, Owner, Flags, Status, TypeOK,
         Failures, Outside
    <3>4. \A s \in Runs : Local(s)'
      BY <2>1, <3>1 DEF Inv, Flags, Local, After, Checking, Rechecking
    <3> QED
      BY <3>2, <3>3, <3>4 DEF Flags
  <2> QED
    BY <2>2, <2>3
<1> USE DEF Local, Status, Outside, After, AtRisk, Failures, Starting, Checking,
        Rechecking
<1>4. CASE Plan(r)
  <2>1. pc[r] \notin Outside /\ receipt.by = r /\ receipt.status # "none"
    BY <1>4, NobodyAssumption DEF Plan, Inv, Owner
  <2>2. receipt'.by = r /\ receipt'.status # "none"
    BY <1>4, <2>1 DEF Plan, Replace
  <2>3. Local(r)' /\ Status'
    BY <1>4, <2>1, <2>2 DEF Plan, Replace, Inv, TypeOK, Flags
  <2> QED
    BY <1>4, <2>1, <2>2, <2>3, OwnerStep DEF Plan, Replace, Inv, TypeOK
<1>5. CASE Pending(r)
  <2>1. pc[r] \notin Outside /\ receipt.by = r /\ receipt.status # "none"
    BY <1>5, NobodyAssumption DEF Pending, Inv, Owner
  <2>2. receipt'.by = r /\ receipt'.status # "none"
    BY <1>5, <2>1 DEF Pending, Replace
  <2>3. Local(r)' /\ Status'
    BY <1>5, <2>1, <2>2 DEF Pending, Replace, Inv, TypeOK, Flags
  <2> QED
    BY <1>5, <2>1, <2>2, <2>3, OwnerStep DEF Pending, Replace, Inv, TypeOK
<1>6. CASE Finalizing(r)
  <2>1. pc[r] \notin Outside /\ receipt.by = r /\ receipt.status # "none"
    BY <1>6, NobodyAssumption DEF Finalizing, Inv, Owner
  <2>2. receipt'.by = r /\ receipt'.status # "none"
    BY <1>6, <2>1 DEF Finalizing, Replace
  <2>3. Local(r)' /\ Status'
    BY <1>6, <2>1, <2>2 DEF Finalizing, Replace, Inv, TypeOK, Flags
  <2> QED
    BY <1>6, <2>1, <2>2, <2>3, OwnerStep DEF Finalizing, Replace, Inv, TypeOK
<1>7. CASE Confirm(r)
  <2>1. pc[r] \notin Outside /\ receipt.by = r /\ receipt.status # "none"
    BY <1>7, NobodyAssumption DEF Confirm, Inv, Owner
  <2>2. receipt'.by = r /\ receipt'.status # "none"
    BY <1>7, <2>1 DEF Confirm, Replace
  <2>3. Local(r)' /\ Status'
    BY <1>7, <2>1, <2>2 DEF Confirm, Replace, Inv, TypeOK, Flags
  <2> QED
    BY <1>7, <2>1, <2>2, <2>3, OwnerStep DEF Confirm, Replace, Inv, TypeOK
<1>8. CASE Record(r)
  <2>1. pc[r] \notin Outside /\ receipt.by = r /\ receipt.status # "none"
    BY <1>8, NobodyAssumption DEF Record, Inv, Owner
  <2>2. receipt'.by = r /\ receipt'.status # "none"
    BY <1>8, <2>1 DEF Record, Replace
  <2>3. Local(r)' /\ Status'
    BY <1>8, <2>1, <2>2 DEF Record, Replace, Inv, TypeOK, Flags
  <2> QED
    BY <1>8, <2>1, <2>2, <2>3, OwnerStep DEF Record, Replace, Inv, TypeOK
<1>9. CASE Close(r)
  <2>1. pc[r] \notin Outside /\ receipt.by = r /\ receipt.status # "none"
    BY <1>9, NobodyAssumption DEF Close, Inv, Owner
  <2>2. receipt'.by = r /\ receipt'.status # "none"
    BY <1>9, <2>1 DEF Close, Replace
  <2>3. Local(r)' /\ Status'
    BY <1>9, <2>1, <2>2 DEF Close, Replace, Inv, TypeOK, Flags
  <2> QED
    BY <1>9, <2>1, <2>2, <2>3, OwnerStep DEF Close, Replace, Inv, TypeOK
<1>10. CASE Catch(r)
  <2>1. pc[r] \notin Outside /\ receipt.by = r /\ receipt.status # "none"
    BY <1>10, NobodyAssumption DEF Catch, Inv, Owner
  <2>2. receipt'.by = r /\ receipt'.status # "none"
    BY <1>10, <2>1 DEF Catch, Replace, Outcome
  <2>3. Local(r)' /\ Status'
    BY <1>10, <2>1, <2>2 DEF Catch, Replace, Outcome, Inv, TypeOK, Flags
  <2> QED
    BY <1>10, <2>1, <2>2, <2>3, OwnerStep DEF Catch, Replace, Outcome, Inv, TypeOK
<1>11. CASE OpenBridge(r)
  <2>1. pc[r] \notin Outside /\ receipt.by = r /\ receipt.status # "none"
    BY <1>11, NobodyAssumption DEF OpenBridge, Call, Inv, Owner
  <2>2. receipt'.by = r /\ receipt'.status # "none"
    BY <1>11, <2>1 DEF OpenBridge, Call
  <2>3. Local(r)' /\ Status'
    BY <1>11, <2>1, <2>2 DEF OpenBridge, Call, Inv, TypeOK, Flags
  <2> QED
    BY <1>11, <2>1, <2>2, <2>3, OwnerStep DEF OpenBridge, Call, Inv, TypeOK
<1>12. CASE Check(r)
  <2>1. pc[r] \notin Outside /\ receipt.by = r /\ receipt.status # "none"
    BY <1>12, NobodyAssumption DEF Check, Revalidate, Inv, Owner
  <2>2. receipt'.by = r /\ receipt'.status # "none"
    BY <1>12, <2>1 DEF Check, Revalidate
  <2>3. Local(r)' /\ Status'
    BY <1>12, <2>1, <2>2 DEF Check, Revalidate, Inv, TypeOK, Flags
  <2> QED
    BY <1>12, <2>1, <2>2, <2>3, OwnerStep DEF Check, Revalidate, Inv, TypeOK
<1>13. CASE CreateIntent(r)
  <2>1. pc[r] \notin Outside /\ receipt.by = r /\ receipt.status # "none"
    BY <1>13, NobodyAssumption DEF CreateIntent, Call, Inv, Owner
  <2>2. receipt'.by = r /\ receipt'.status # "none"
    BY <1>13, <2>1 DEF CreateIntent, Call
  <2>3. Local(r)' /\ Status'
    BY <1>13, <2>1, <2>2 DEF CreateIntent, Call, Inv, TypeOK, Flags
  <2> QED
    BY <1>13, <2>1, <2>2, <2>3, OwnerStep DEF CreateIntent, Call, Inv, TypeOK
<1>14. CASE SignArk(r)
  <2>1. pc[r] \notin Outside /\ receipt.by = r /\ receipt.status # "none"
    BY <1>14, NobodyAssumption DEF SignArk, Call, Inv, Owner
  <2>2. receipt'.by = r /\ receipt'.status # "none"
    BY <1>14, <2>1 DEF SignArk, Call
  <2>3. Local(r)' /\ Status'
    BY <1>14, <2>1, <2>2 DEF SignArk, Call, Inv, TypeOK, Flags
  <2> QED
    BY <1>14, <2>1, <2>2, <2>3, OwnerStep DEF SignArk, Call, Inv, TypeOK
<1>15. CASE Recheck(r)
  <2>1. pc[r] \notin Outside /\ receipt.by = r /\ receipt.status # "none"
    BY <1>15, NobodyAssumption DEF Recheck, Revalidate, Inv, Owner
  <2>2. receipt'.by = r /\ receipt'.status # "none"
    BY <1>15, <2>1 DEF Recheck, Revalidate
  <2>3. Local(r)' /\ Status'
    BY <1>15, <2>1, <2>2 DEF Recheck, Revalidate, Inv, TypeOK, Flags
  <2> QED
    BY <1>15, <2>1, <2>2, <2>3, OwnerStep DEF Recheck, Revalidate, Inv, TypeOK
<1>16. CASE Submit(r)
  <2>1. pc[r] \notin Outside /\ receipt.by = r /\ receipt.status # "none"
    BY <1>16, NobodyAssumption DEF Submit, Inv, Owner
  <2>2. receipt'.by = r /\ receipt'.status # "none"
    BY <1>16, <2>1 DEF Submit
  <2>3. Local(r)' /\ Status'
    BY <1>16, <2>1, <2>2 DEF Submit, Inv, TypeOK, Flags
  <2> QED
    BY <1>16, <2>1, <2>2, <2>3, OwnerStep DEF Submit, Inv, TypeOK
<1>17. CASE Finalize(r)
  <2>1. pc[r] \notin Outside /\ receipt.by = r /\ receipt.status # "none"
    BY <1>17, NobodyAssumption DEF Finalize, Inv, Owner
  <2>2. receipt'.by = r /\ receipt'.status # "none"
    BY <1>17, <2>1 DEF Finalize
  <2>3. Local(r)' /\ Status'
    BY <1>17, <2>1, <2>2 DEF Finalize, Inv, TypeOK, Flags
  <2> QED
    BY <1>17, <2>1, <2>2, <2>3, OwnerStep DEF Finalize, Inv, TypeOK
<1>18. CASE Reconcile(r)
  <2>1. pc[r] \notin Outside /\ receipt.by = r /\ receipt.status # "none"
    BY <1>18, NobodyAssumption DEF Reconcile, Inv, Owner
  <2>2. receipt'.by = r /\ receipt'.status # "none"
    BY <1>18, <2>1 DEF Reconcile
  <2>3. Local(r)' /\ Status'
    BY <1>18, <2>1, <2>2 DEF Reconcile, Inv, TypeOK, Flags
  <2> QED
    BY <1>18, <2>1, <2>2, <2>3, OwnerStep DEF Reconcile, Inv, TypeOK
<1>19. CASE Complete(r)
  <2>1. pc[r] \notin Outside /\ receipt.by = r /\ receipt.status # "none"
    BY <1>19, NobodyAssumption DEF Complete, Call, Inv, Owner
  <2>2. receipt'.by = r /\ receipt'.status # "none"
    BY <1>19, <2>1 DEF Complete, Call
  <2>3. Local(r)' /\ Status'
    BY <1>19, <2>1, <2>2 DEF Complete, Call, Inv, TypeOK, Flags
  <2> QED
    BY <1>19, <2>1, <2>2, <2>3, OwnerStep DEF Complete, Call, Inv, TypeOK
<1>20. CASE Kill(r) /\ pc[r] \notin Outside
  <2>1. pc[r] \notin Outside /\ receipt.by = r /\ receipt.status # "none"
    BY <1>20, NobodyAssumption DEF Kill, Inv, Owner
  <2>2. receipt'.by = r /\ receipt'.status # "none"
    BY <1>20, <2>1 DEF Kill
  <2>3. Local(r)' /\ Status'
    BY <1>20, <2>1, <2>2 DEF Kill, Inv, TypeOK, Flags
  <2> QED
    BY <1>20, <2>1, <2>2, <2>3, OwnerStep DEF Kill, Inv, TypeOK
<1> QED
  BY <1>1, <1>2, <1>4, <1>5, <1>6, <1>7, <1>8, <1>9, <1>10, <1>11, <1>12, <1>13, <1>14, <1>15, <1>16, <1>17, <1>18, <1>19, <1>20 DEF Run

\* Every step of an invocation keeps what is known of the plan's freshness.
LEMMA RunFresh ==
  ASSUME Inv, NEW r \in Runs, Run(r) \/ Kill(r)
  PROVE  Fresh'
<1> USE DEF Inv, TypeOK, Fresh, At, Goto
<1>1. CASE Snapshot(r)
  <2>1. pc'[r] \in Starting \cup {"reserve", "end"} /\ ~submitted[r]
    BY <1>1 DEF Snapshot, Read, Starting, Flags, Local, After
  <2>2. \A s \in Runs \ {r} : stale'[s] = stale[s] /\ pc'[s] = pc[s]
    BY <1>1 DEF Snapshot, Read
  <2>3. UNCHANGED <<submitted, agreed>>
    BY <1>1 DEF Snapshot
  <2> QED
    BY <2>1, <2>2, <2>3 DEF Starting, Rechecking
<1>2. CASE SignArk(r)
  <2>1. pc'[r] \in {"recheck", "catch"} /\ ~submitted[r]
    BY <1>2 DEF SignArk, Call, Flags, Local, After
  <2>2. agreed'[r] = Parts \ stale[r]
    BY <1>2 DEF SignArk
  <2>3. \A s \in Runs \ {r} : agreed'[s] = agreed[s] /\ pc'[s] = pc[s]
    BY <1>2 DEF SignArk, Call
  <2>4. UNCHANGED <<submitted, stale>>
    BY <1>2 DEF SignArk, Call
  <2> QED
    BY <2>1, <2>2, <2>3, <2>4
<1>3. CASE Recheck(r)
  BY <1>3 DEF Recheck, Revalidate, Parts, Rechecking
<1>4. CASE Submit(r)
  BY <1>4 DEF Submit
<1>5. ASSUME UNCHANGED <<submitted, stale, agreed>>,
             \A s \in Runs \ {r} : pc'[s] = pc[s],
             pc'[r] \notin Rechecking \cup {"pending"},
             pc'[r] = "submit" => pc[r] = "pending"
      PROVE  Fresh'
  BY <1>5 DEF Rechecking
<1>6. CASE Reserve(r) \/ Plan(r) \/ OpenBridge(r) \/ Check(r) \/ CreateIntent(r)
  <2>1. UNCHANGED <<submitted, stale, agreed>>
    BY <1>6 DEF Reserve, Plan, OpenBridge, Check, CreateIntent, Call, Revalidate
  <2>2. \A s \in Runs \ {r} : pc'[s] = pc[s]
    BY <1>6 DEF Reserve, Plan, Replace, OpenBridge, Check, CreateIntent, Call,
       Revalidate
  <2>3. pc'[r] \in Checking \cup {"plan", "bridge", "intent", "sign", "catch", "end"}
    BY <1>6 DEF Reserve, Plan, Replace, OpenBridge, Check, CreateIntent, Call,
       Revalidate, Checking
  <2> QED
    BY <1>5, <2>1, <2>2, <2>3 DEF Checking, Rechecking
<1>7. CASE Pending(r) \/ Finalizing(r) \/ Confirm(r) \/ Record(r) \/ Close(r)
           \/ Catch(r)
  <2>1. UNCHANGED <<submitted, stale, agreed>>
    BY <1>7 DEF Pending, Finalizing, Confirm, Record, Close, Catch
  <2>2. \A s \in Runs \ {r} : pc'[s] = pc[s]
    BY <1>7 DEF Pending, Finalizing, Confirm, Record, Close, Catch, Replace
  <2>3. pc'[r] \in {"submit", "finalize", "reconcile", "complete", "end", "catch"}
    BY <1>7 DEF Pending, Finalizing, Confirm, Record, Close, Catch, Replace
  <2>4. pc'[r] = "submit" => pc[r] = "pending"
    BY <1>7 DEF Pending, Finalizing, Confirm, Record, Close, Catch, Replace
  <2> QED
    BY <1>5, <2>1, <2>2, <2>3, <2>4 DEF Rechecking
<1>8. CASE Finalize(r) \/ Reconcile(r) \/ Complete(r) \/ Kill(r)
  <2>1. UNCHANGED <<submitted, stale, agreed>>
    BY <1>8 DEF Finalize, Reconcile, Complete, Kill, Call
  <2>2. \A s \in Runs \ {r} : pc'[s] = pc[s]
    BY <1>8 DEF Finalize, Reconcile, Complete, Kill, Call
  <2>3. pc'[r] \in {"confirm", "record", "close", "catch", "killed"}
    BY <1>8 DEF Finalize, Reconcile, Complete, Kill, Call
  <2> QED
    BY <1>5, <2>1, <2>2, <2>3 DEF Rechecking
<1> QED
  BY <1>1, <1>2, <1>3, <1>4, <1>6, <1>7, <1>8 DEF Run

\* Every step of an invocation preserves the invariant.
LEMMA RunInv ==
  ASSUME Inv, NEW r \in Runs, Run(r) \/ Kill(r)
  PROVE  Inv'
  BY RunTypes, RunOwned, RunFresh DEF Inv

\* A change of the live state preserves the invariant.
LEMMA DriftInv == Inv /\ Drift => Inv'
<1> SUFFICES ASSUME Inv, Drift PROVE Inv'
  OBVIOUS
<1> USE DEF Inv
<1>1. TypeOK'
  BY DEF TypeOK, Drift
<1>2. Owner' /\ Flags'
  BY DEF Drift, Owner, Flags, Local, Status
<1>3. \A r \in Runs : agreed'[r] = IF pc[r] \in Rechecking
                                   THEN agreed[r] \cup (Parts \ stale'[r])
                                   ELSE agreed[r]
  BY DEF Drift
<1>4. UNCHANGED <<pc, submitted>> /\ agreed \in [Runs -> SUBSET Parts]
  BY DEF Drift, TypeOK
<1>5. Fresh'
  BY <1>3, <1>4 DEF Fresh
<1> QED
  BY <1>1, <1>2, <1>5

\* The operator's own progress preserves the invariant.
LEMMA SettleInv ==
  ASSUME Inv, NEW r \in Runs, Settle(r)
  PROVE  Inv'
<1> USE DEF Inv
<1>1. /\ UNCHANGED <<pc, stale, submitted, verified, receipt, agreed>>
      /\ operator[r] = "asked" /\ operator'[r] = "finalized"
      /\ \A s \in Runs \ {r} : operator'[s] = operator[s]
  BY DEF Settle, TypeOK
<1>2. TypeOK'
  BY DEF Settle, TypeOK
<1>3. Owner' /\ Fresh'
  BY <1>1 DEF Owner, Fresh
<1>4. Status' /\ \A s \in Runs : Local(s)'
  BY <1>1 DEF Flags, Local, Status
<1> QED
  BY <1>2, <1>3, <1>4 DEF Flags

\* The invariant is inductive.
LEMMA Inductive == Inv /\ [Next]_vars => Inv'
<1> SUFFICES ASSUME Inv, [Next]_vars PROVE Inv'
  OBVIOUS
<1>1. CASE Drift
  BY <1>1, DriftInv
<1>2. CASE \E r \in Runs : Run(r) \/ Kill(r) \/ Settle(r)
  BY <1>2, RunInv, SettleInv
<1>3. CASE UNCHANGED vars
  BY <1>3 DEF vars, Inv, TypeOK, Owner, Flags, Local, Status, Fresh
<1> QED
  BY <1>1, <1>2, <1>3 DEF Next

LEMMA Invariance == Spec => []Inv
  BY InitInv, Inductive, PTL DEF Spec

(***************************************************************************)
(* The theorems.                                                           *)
(***************************************************************************)

\* Every variable keeps its type, for any set of invocations.
THEOREM TypeCorrect == Spec => []TypeOK
<1>1. Inv => TypeOK
  BY DEF Inv
<1> QED
  BY <1>1, Invariance, PTL

\* At most one transaction reaches the operator under one receipt path,
\* however many invocations race, crash or come later.
THEOREM OneSubmissionSafety == Spec => []OneSubmission
<1>1. Inv => OneSubmission
  BY DEF Inv, Flags, Local, OneSubmission
<1> QED
  BY <1>1, Invariance, PTL

\* What the operator has, the durable receipt announces.
THEOREM DurableSafety == Spec => []DurableBeforeSubmit
<1>1. Inv => DurableBeforeSubmit
  BY DEF Inv, Flags, Local, DurableBeforeSubmit
<1> QED
  BY <1>1, Invariance, PTL

\* A receipt that says "seen on the indexer" tells the truth.
THEOREM VerifiedSafety == Spec => []VerifiedIsFinal
<1>1. Inv => VerifiedIsFinal
  BY NobodyAssumption DEF Inv, Flags, Local, Status, Owner, TypeOK, VerifiedIsFinal
<1> QED
  BY <1>1, Invariance, PTL

\* Nothing is submitted on a plan the live state has not matched since the
\* signatures were made.
THEOREM FreshSafety == Spec => []FreshAtSubmit
<1>1. Inv => FreshAtSubmit
  BY DEF Inv, Flags, Local, Fresh, FreshAtSubmit
<1> QED
  BY <1>1, Invariance, PTL

\* A step of an invocation neither takes over a receipt nor revises a final one.
LEMMA ReceiptStep ==
  ASSUME Inv, NEW r \in Runs, Run(r)
  PROVE  /\ receipt.status # "none" => receipt'.by = receipt.by
         /\ receipt.status \in Failures => receipt' = receipt
<1>1. receipt.status \in Failures /\ receipt.by = r => pc[r] \in Outside
  BY DEF Inv, Flags, Local, Status
<1>2. receipt.status # "none" /\ receipt.by # r => pc[r] \in Outside
  BY DEF Inv, Owner
<1>3. CASE Snapshot(r) \/ OpenBridge(r) \/ Check(r) \/ CreateIntent(r)
           \/ SignArk(r) \/ Recheck(r) \/ Submit(r) \/ Finalize(r)
           \/ Reconcile(r) \/ Complete(r)
  BY <1>3 DEF Snapshot, OpenBridge, Check, CreateIntent, SignArk, Recheck,
     Submit, Finalize, Reconcile, Complete, Call, Revalidate, Failures
<1>4. CASE Reserve(r)
  BY <1>4 DEF Reserve, Failures
<1>5. CASE Plan(r) \/ Pending(r) \/ Finalizing(r) \/ Confirm(r) \/ Record(r)
           \/ Close(r) \/ Catch(r)
  <2>1. pc[r] \notin Outside
    BY <1>5 DEF Plan, Pending, Finalizing, Confirm, Record, Close, Catch, At,
       Outside, Starting
  <2>2. receipt' = receipt \/ receipt'.by = r
    BY <1>5 DEF Plan, Pending, Finalizing, Confirm, Record, Close, Catch, Replace
  <2> QED
    BY <1>1, <1>2, <2>1, <2>2 DEF Failures
<1> QED
  BY <1>3, <1>4, <1>5 DEF Run

\* A receipt keeps its writer and its final status.
THEOREM ReceiptPermanence == Spec => ReceiptIsFinal
<1>1. Inv /\ [Next]_vars =>
        [/\ receipt.status # "none" => receipt'.by = receipt.by
         /\ receipt.status \in Failures => receipt' = receipt]_vars
  BY ReceiptStep DEF Next, Kill, Drift, Settle
<1> QED
  BY <1>1, Invariance, PTL DEF Spec, ReceiptIsFinal


(***************************************************************************)
(* Refinement.                                                             *)
(***************************************************************************)

Sent == \E r \in Runs : operator[r] # "idle"
Effect == \E r \in Runs : operator[r] = "finalized"

\* Steps that change neither the file nor what the operator holds.
LEMMA Stutter == UNCHANGED <<receipt, operator>> => UNCHANGED <<Claim, Sent>>
  BY DEF Claim, Sent

\* What Claim says of each status.
LEMMA ClaimValues ==
  /\ receipt.status = "none" => Claim = "free"
  /\ receipt.status \in {"empty", "planned"} => Claim = "reserved"
  /\ receipt.status = "failed_before_submission" => Claim = "never"
  /\ receipt.status \in {"indexer_verified", "completed",
                          "failed_completion_only"} => Claim = "done"
  /\ receipt.status \in {"submission_pending", "finalization_pending",
                          "finalized", "failed_unknown_outcome"}
       => Claim = "risk"
  BY DEF Claim

LEMMA ClaimValuesNext ==
  /\ receipt'.status = "none" => Claim' = "free"
  /\ receipt'.status \in {"empty", "planned"} => Claim' = "reserved"
  /\ receipt'.status = "failed_before_submission" => Claim' = "never"
  /\ receipt'.status \in {"indexer_verified", "completed",
                           "failed_completion_only"} => Claim' = "done"
  /\ receipt'.status \in {"submission_pending", "finalization_pending",
                           "finalized", "failed_unknown_outcome"}
       => Claim' = "risk"
  BY DEF Claim

\* The owner of the file is the only invocation the operator can know.
LEMMA SentIsOwned ==
  ASSUME Inv, NEW r \in Runs, pc[r] \notin Outside
  PROVE  Sent <=> operator[r] # "idle"
  BY DEF Inv, Owner, Flags, Local, Sent

\* No step of an invocation is the effect itself.
LEMMA RunKeepsEffect ==
  ASSUME Inv, NEW r \in Runs, Run(r)
  PROVE  UNCHANGED Effect
<1> USE DEF Inv, At
<1>1. CASE Submit(r) \/ Finalize(r)
  <2>1. operator[r] \in {"idle", "received"}
    BY <1>1 DEF Submit, Finalize, Flags, Local, After
  <2>2. \/ UNCHANGED operator
        \/ \E new \in {"received", "asked"} :
             operator' = [operator EXCEPT ![r] = new]
    BY <1>1 DEF Submit, Finalize
  <2>3. \A s \in Runs : (operator'[s] = "finalized") <=> (operator[s] = "finalized")
    BY <2>1, <2>2 DEF TypeOK
  <2> QED
    BY <2>3 DEF Effect
<1>2. CASE UNCHANGED operator
  BY <1>2 DEF Effect
<1>3. Submit(r) \/ Finalize(r) \/ UNCHANGED operator
  BY DEF Run, Snapshot, Reserve, Plan, OpenBridge, Check, CreateIntent, SignArk,
     Recheck, Pending, Finalizing, Confirm, Reconcile, Record, Complete, Close,
     Catch, Call, Revalidate
<1> QED
  BY <1>1, <1>2, <1>3

\* Every step of an invocation is a step of the promise or invisible in it.
LEMMA RunRefines ==
  ASSUME Inv, NEW r \in Runs, Run(r)
  PROVE  \/ UNCHANGED <<Claim, Sent>>
         \/ Claim = "free" /\ Claim' = "reserved" /\ Sent' = Sent
         \/ Claim = "reserved" /\ Claim' = "risk" /\ Sent' = Sent
         \/ Claim = "risk" /\ ~Sent /\ Sent' /\ Claim' = Claim
         \/ Claim \in {"reserved", "risk"} /\ ~Sent /\ Claim' = "never" /\ ~Sent'
         \/ Claim = "risk" /\ Effect /\ Claim' = "done" /\ Sent' = Sent
<1> USE DEF Inv, Goto, At
<1>1. CASE UNCHANGED <<receipt, operator>>
  BY <1>1, Stutter
<1>2. CASE Reserve(r)
  <2>1. UNCHANGED Sent
    BY <1>2 DEF Reserve, Sent
  <2>2. \/ UNCHANGED receipt
        \/ receipt.status = "none" /\ receipt'.status = "empty"
    BY <1>2 DEF Reserve
  <2> QED
    BY <2>1, <2>2, ClaimValues, ClaimValuesNext, Stutter DEF Claim
<1>3. ASSUME UNCHANGED operator,
             receipt' # receipt =>
               \/ Claim = "reserved" /\ Claim' \in {"reserved", "risk"}
               \/ Claim = "risk" /\ Claim' = "risk"
      PROVE  \/ UNCHANGED <<Claim, Sent>>
             \/ Claim = "reserved" /\ Claim' = "risk" /\ Sent' = Sent
  BY <1>3 DEF Sent, Claim
<1>4. CASE Plan(r)
  <2>1. UNCHANGED operator /\ receipt.status = "empty"
    BY <1>4 DEF Plan, Flags, Local, Status
  <2>2. receipt' # receipt => receipt'.status = "planned"
    BY <1>4 DEF Plan, Replace
  <2> QED
    BY <1>3, <2>1, <2>2, ClaimValues, ClaimValuesNext
<1>5. CASE Pending(r)
  <2>1. UNCHANGED operator /\ receipt.status = "planned"
    BY <1>5 DEF Pending, Flags, Local, Status
  <2>2. receipt' # receipt => receipt'.status = "submission_pending"
    BY <1>5 DEF Pending, Replace
  <2> QED
    BY <1>3, <2>1, <2>2, ClaimValues, ClaimValuesNext
<1>6. ASSUME submitted[r], ~verified[r]
      PROVE  Claim = "risk"
  <2>1. receipt.by = r /\ receipt.status \in AtRisk
    BY <1>6 DEF Flags, Local
  <2>2. receipt.status \notin {"indexer_verified", "completed",
                               "failed_completion_only"}
    BY <1>6, <2>1 DEF Flags, Local, Status
  <2> QED
    BY <2>1, <2>2, ClaimValues DEF AtRisk
<1>7. CASE Finalizing(r) \/ Confirm(r)
  <2>1. UNCHANGED operator /\ submitted[r] /\ ~verified[r]
    BY <1>7 DEF Finalizing, Confirm, Flags, Local, Status
  <2>2. receipt' # receipt
          => receipt'.status \in {"finalization_pending", "finalized"}
    BY <1>7 DEF Finalizing, Confirm, Replace
  <2> QED
    BY <1>3, <1>6, <2>1, <2>2, ClaimValuesNext
<1>8. CASE Submit(r)
  <2>1. pc[r] \notin Outside /\ receipt.status = "submission_pending"
          /\ ~submitted[r] /\ UNCHANGED receipt
    BY <1>8 DEF Submit, Outside, Starting, Checking, Rechecking, Status, Flags,
       Local, After
  <2>2. ~Sent
    BY <2>1, SentIsOwned DEF Flags, Local
  <2>3. Claim = "risk" /\ Claim' = "risk"
    BY <2>1, ClaimValues, ClaimValuesNext
  <2>4. UNCHANGED operator \/ operator' = [operator EXCEPT ![r] = "received"]
    BY <1>8 DEF Submit
  <2>5. CASE UNCHANGED operator
    BY <1>1, <2>1, <2>5
  <2>6. CASE operator' = [operator EXCEPT ![r] = "received"]
    <3>1. Sent'
      BY <2>6 DEF Sent, TypeOK
    <3> QED
      BY <2>2, <2>3, <3>1
  <2> QED
    BY <2>4, <2>5, <2>6
<1>9. CASE Finalize(r)
  <2>1. operator[r] # "idle" /\ UNCHANGED receipt
    BY <1>9 DEF Finalize, Flags, Local, Status
  <2>2. operator'[r] # "idle"
    BY <1>9, <2>1 DEF Finalize, TypeOK
  <2> QED
    BY <2>1, <2>2 DEF Sent, Claim
<1>10. ASSUME pc[r] \notin Outside, verified[r], UNCHANGED operator,
              receipt' # receipt => Claim' = "done"
       PROVE  \/ UNCHANGED <<Claim, Sent>>
              \/ Claim = "risk" /\ Effect /\ Claim' = "done" /\ Sent' = Sent
  <2>1. Effect /\ Sent' = Sent
    BY <1>10 DEF Effect, Sent, Flags, Local
  <2>2. receipt.status \in AtRisk
    BY <1>10 DEF Flags, Local
  <2>3. Claim \in {"risk", "done"}
    BY <2>2, ClaimValues DEF AtRisk
  <2> QED
    BY <1>10, <2>1, <2>3 DEF Claim
<1>11. CASE Record(r) \/ Close(r)
  <2>1. pc[r] \notin Outside /\ verified[r] /\ UNCHANGED operator
    BY <1>11 DEF Record, Close, Outside, Starting, Flags, Local
  <2>2. receipt' # receipt => receipt'.status \in {"indexer_verified", "completed"}
    BY <1>11 DEF Record, Close, Replace
  <2> QED
    BY <1>10, <2>1, <2>2, ClaimValuesNext
<1>12. CASE Catch(r)
  <2>1. pc[r] \notin Outside /\ UNCHANGED operator
    BY <1>12 DEF Catch, Outside, Starting
  <2>2. receipt' # receipt => receipt'.status = Outcome(r)
    BY <1>12 DEF Catch, Replace
  <2>3. CASE verified[r]
    <3>1. receipt' # receipt => Claim' = "done"
      BY <2>2, <2>3, ClaimValuesNext DEF Outcome
    <3> QED
      BY <1>10, <2>1, <2>3, <3>1
  <2>4. CASE ~verified[r] /\ submitted[r]
    <3>1. receipt' # receipt => Claim' = "risk"
      BY <2>2, <2>4, ClaimValuesNext DEF Outcome
    <3> QED
      BY <1>3, <1>6, <2>1, <2>4, <3>1
  <2>5. CASE ~verified[r] /\ ~submitted[r]
    <3>1. receipt' # receipt => Claim' = "never"
      BY <2>2, <2>5, ClaimValuesNext DEF Outcome
    <3>2. ~Sent /\ ~Sent'
      <4>1. ~Sent
        BY <2>1, <2>5, SentIsOwned DEF Flags, Local
      <4> QED
        BY <4>1, <2>1 DEF Sent
    <3>3. receipt.by = r /\ receipt.status # "none" /\ receipt.status \notin Failures
      BY <2>1, NobodyAssumption DEF Owner, Flags, Local, Status
    <3>4. receipt.status \notin {"indexer_verified", "completed",
                                 "failed_completion_only"}
      BY <2>5, <3>3 DEF Flags, Local, Status
    <3>5. Claim \in {"reserved", "risk"}
      BY <3>3, <3>4, ClaimValues DEF TypeOK, Statuses, Failures
    <3> QED
      BY <2>1, <3>1, <3>2, <3>5 DEF Claim, Sent
  <2> QED
    BY <2>3, <2>4, <2>5
<1>13. CASE Snapshot(r) \/ OpenBridge(r) \/ Check(r) \/ CreateIntent(r)
            \/ SignArk(r) \/ Recheck(r) \/ Reconcile(r) \/ Complete(r)
  <2>1. UNCHANGED <<receipt, operator>>
    BY <1>13 DEF Snapshot, OpenBridge, Check, CreateIntent, SignArk, Recheck,
       Reconcile, Complete, Call, Revalidate
  <2> QED
    BY <1>1, <2>1
<1> QED
  BY <1>2, <1>4, <1>5, <1>7, <1>8, <1>9, <1>11, <1>12, <1>13 DEF Run

\* runSend implements the write-ahead promise of WriteAheadOnce.
THEOREM Implementation == Spec => KeepsPromise
<1>1. Init => Promise!Init
  <2> SUFFICES ASSUME Init PROVE Promise!Init
    OBVIOUS
  <2>1. Claim = "free"
    BY ClaimValues DEF Init
  <2> QED
    BY <2>1 DEF Promise!Init, Init
<1>2. Inv /\ [Next]_vars => [Promise!Next]_(Promise!vars)
  <2> SUFFICES ASSUME Inv, [Next]_vars PROVE [Promise!Next]_(Promise!vars)
    OBVIOUS
  <2> USE DEF Promise!Next, Promise!vars, Promise!Reserve, Promise!Announce,
          Promise!Send, Promise!Happen, Promise!GiveUp, Promise!Conclude
  <2>1. CASE UNCHANGED <<receipt, operator>>
    <3>1. UNCHANGED <<Claim, Sent, Effect>>
      BY <2>1, Stutter DEF Effect
    <3> QED
      BY <3>1 DEF Sent, Effect
  <2>2. ASSUME NEW r \in Runs, Run(r)
        PROVE  [Promise!Next]_(Promise!vars)
    BY <2>2, RunRefines, RunKeepsEffect DEF Sent, Effect
  <2>3. CASE Drift
    BY <2>1, <2>3 DEF Drift
  <2>4. ASSUME NEW r \in Runs, Kill(r)
        PROVE  [Promise!Next]_(Promise!vars)
    BY <2>1, <2>4 DEF Kill
  <2>5. ASSUME NEW r \in Runs, Settle(r)
        PROVE  [Promise!Next]_(Promise!vars)
    <3>1. UNCHANGED receipt /\ Sent /\ Sent' /\ Effect'
      BY <2>5 DEF Settle, Inv, TypeOK, Sent, Effect
    <3> QED
      BY <3>1 DEF Sent, Effect, Claim
  <2>6. CASE UNCHANGED vars
    BY <2>1, <2>6 DEF vars
  <2> QED
    BY <2>2, <2>3, <2>4, <2>5, <2>6 DEF Next
<1> QED
  BY <1>1, <1>2, Invariance, PTL DEF Spec, KeepsPromise, Promise!Spec

==============================================================================
