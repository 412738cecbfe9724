--------------------------- MODULE WorkerInvariant ---------------------------
(***************************************************************************)
(* The inductive strengthening of TypeOK, OneShot, CommitBindsSeal and     *)
(* CancelIsFinal.  It says three things the properties leave unsaid: which *)
(* facts of a transition go with its state, that the receipts and the      *)
(* states agree, and what the steps an operation has still to take rely on.*)
(***************************************************************************)
EXTENDS WorkerProperties

Sealed == {"SEALED", "EVIDENCED", "PERMITTED"}
Terminal == {"ACKNOWLEDGED", "ROLLED_BACK"}
Bound == CrossingStates \cup {"ACKNOWLEDGED"}

\* The facts that come with the state of transition t, whose record is x.
FactsFit(t, x) ==
    /\ x.state = "NONE" => x = Unprepared
    /\ x.state # "NONE" => x.base \in View
    /\ x.state \in Sealed => x.artifact \in Tree
    /\ x.state \in Bound =>
        /\ x.next \in View
        /\ x.next.tree = x.artifact
        /\ x.next.gen = x.base.gen + 1
    /\ x.state \in Bound \cup {"PERMITTED"} /\ IsRun(t) =>
        /\ x.clean /\ x.passed
        /\ Handshake => "ALL" \in x.teardown

\* The permit that comes with the state.
PermitFits(x) ==
    /\ x.permit = "ISSUED" <=> x.state = "PERMITTED"
    /\ x.permit = "CONSUMING" <=> x.state \in CrossingStates
    /\ x.permit = "CONSUMED" <=> x.state = "ACKNOWLEDGED"
    /\ x.permit = "REVOKED" => x.state \in {"CANCELLED", "ROLLED_BACK"}

TransitionsFit == \A t \in Txn : FactsFit(t, tx[t]) /\ PermitFits(tx[t])

\* The terminal states are those of the transitions with a receipt.
ReceiptsFitState ==
    /\ \A t \in Txn : tx[t].state = "ROLLED_BACK" => HasReceipt(t)
    /\ \A t \in Txn : tx[t].state = "ACKNOWLEDGED" => Committed(t)
    /\ \A i \in DOMAIN receipts :
        LET t == receipts[i].txn IN
        IF receipts[i].decision = "COMMITTED"
        THEN tx[t].state = "ACKNOWLEDGED" /\ receipts[i].view = tx[t].next
        ELSE tx[t].state = "ROLLED_BACK"
    /\ \A i, j \in DOMAIN receipts : receipts[i].txn = receipts[j].txn => i = j

\* Only prepared transitions are recovered.
OrderPrepared == \A i \in DOMAIN order : tx[order[i]].state # "NONE"
TodoPrepared == \A i \in DOMAIN todo : tx[todo[i]].state # "NONE"

\* What the steps still to be taken rely on.
Avoids(S) == op.plan \in Seq(Steps \ S)

TxnFreeSteps == {"finishIntent", "examine", "settle"}
NextSteps == ApplySteps \cup {"logRepair"}
RepairSteps == {"backup", "logBackup", "swap", "evict", "reinstate", "logRepair"}

Authorizing ==
    /\ op.plan \in Seq({"authorize"})
    /\ ~IsRun(op.txn)
    /\ tx[op.txn].base = head
    /\ tx[op.txn].state = "PREPARED" \/ tx[op.txn].artifact = op.tree

PlanFits ==
    /\ op.plan \in Seq(TxnFreeSteps) \/ op.txn \in Txn
    /\ Avoids({"clone", "authorize"}) \/ op.tree \in Tree
    /\ Avoids({"reject", "examine"}) \/ op.decision \in NonCommits
    /\ Avoids(NextSteps) \/ tx[op.txn].next \in View
    /\ \/ Avoids({"logRepair"})
       \/ op.plan \in Seq(RepairSteps) /\ tx[op.txn].state \in {"CONSUMING", "APPLIED"}
    /\ Avoids({"authorize"}) \/ Authorizing

LogInv == LogTypeOK /\ TransitionsFit /\ ReceiptsFitState /\ OrderPrepared

\* The Worker's inductive invariant.  Once the log cannot be folded no step is
\* taken any more, so nothing is asked of the plan.
Inductive ==
    /\ LogInv
    /\ DiskTypeOK
    /\ ControlTypeOK
    /\ TodoPrepared
    /\ corrupt \/ PlanFits
=============================================================================
