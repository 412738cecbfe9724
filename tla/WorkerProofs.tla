----------------------------- MODULE WorkerProofs -----------------------------
(***************************************************************************)
(* What is proved of the Worker, for every set of transitions, every       *)
(* content of the trees and every bound on crashes, I/O errors, drifts and *)
(* configurations.  Nothing is assumed of the contents of the disk.        *)
(*                                                                         *)
(* Part I    The Worker keeps its inductive invariant.                     *)
(* Part II   Each part of RecoveryInvariant, under its condition.          *)
(* Part III  Decisions are one chain; StateAuthority is implemented.       *)
(***************************************************************************)
EXTENDS AuthorityInvariant, TLAPS, SequenceTheorems

----------------------------------------------------------------------------
(***************************************************************************)
(* Part I.  First every event the Worker can append, given what its        *)
(* handler has established; then every durable step of a handler; then     *)
(* every request.                                                          *)
(***************************************************************************)

----------------------------------------------------------------------------
(* Events. *)

\* What an operation in progress may rely on: no transition is unprepared
\* again, a View to be installed is not forgotten, a cancelled run is lost.
Kept ==
    \A u \in Txn :
        /\ tx[u].next \in View => tx'[u].next \in View
        /\ tx[u].state # "NONE" => tx'[u].state # "NONE"
        /\ tx[u].state = "CANCELLED" => tx'[u].state \in {"CANCELLED", "ROLLED_BACK"}

LogKept == LogInv' /\ Kept

\* The parts of the log an event about one transition leaves alone or sets to
\* a value of their kind.
OthersTyped ==
    /\ head' \in View
    /\ pending' \subseteq Intent
    /\ archived' \in BOOLEAN
    /\ corrupt' \in BOOLEAN

LEMMA ReceiptAt ==
    ASSUME LogInv, NEW i \in DOMAIN receipts
    PROVE  receipts[i] \in Receipt /\ receipts[i].txn \in Txn
<1>1. receipts \in Seq(Receipt)
  BY DEF LogInv, LogTypeOK
<1>2. receipts[i] \in Receipt
  BY <1>1
<1> QED BY <1>2 DEF Receipt

\* An event the fold rejects changes nothing that is projected.
LEMMA Rejected ==
    ASSUME LogInv, UNCHANGED projected, corrupt' \in BOOLEAN
    PROVE  LogKept
BY DEF LogKept, Kept, LogInv, projected, LogTypeOK, TransitionsFit, ReceiptsFitState,
       HasReceipt, Committed, OrderPrepared

\* An event that rewrites the record of one transition without deciding it.
LEMMA Rewritten ==
    ASSUME LogInv, NEW t \in Txn, NEW x \in Transition,
           Update(t, x), UNCHANGED receipts, OthersTyped,
           order' = order \/ order' = Append(order, t),
           FactsFit(t, x), PermitFits(x),
           tx[t].next \in View => x.next \in View,
           tx[t].state = "CANCELLED" => x.state \in {"CANCELLED", "ROLLED_BACK"},
           x.state # "NONE",
           x.state \in Terminal \/ tx[t].state \in Terminal =>
                x.state = tx[t].state /\ x.next = tx[t].next
    PROVE  LogKept
<1>1. tx' = [tx EXCEPT ![t] = x] /\ tx \in [Txn -> Transition]
  BY DEF Update, LogInv, LogTypeOK
<1>2. LogTypeOK'
  BY <1>1 DEF LogInv, LogTypeOK, OthersTyped
<1>3. TransitionsFit'
  BY <1>1 DEF LogInv, TransitionsFit
<1>4. \A u \in Txn : tx'[u].state \in Terminal \/ tx[u].state \in Terminal =>
                     tx'[u].state = tx[u].state /\ tx'[u].next = tx[u].next
  BY <1>1
<1>5. \A i \in DOMAIN receipts : receipts[i].txn \in Txn
  BY ReceiptAt
<1>6. receipts' = receipts
  OBVIOUS
<1>7. \A u \in Txn : /\ tx'[u].state = "ROLLED_BACK" => HasReceipt(u)'
                     /\ tx'[u].state = "ACKNOWLEDGED" => Committed(u)'
  BY <1>4, <1>6 DEF LogInv, ReceiptsFitState, HasReceipt, Committed, Terminal
<1>8. ReceiptsFitState'
  BY <1>4, <1>5, <1>6, <1>7 DEF LogInv, ReceiptsFitState, Terminal
<1>9. Kept
  BY <1>1 DEF Kept
<1>10. OrderPrepared'
  <2>1. order \in Seq(Txn)
    BY DEF LogInv, LogTypeOK
  <2>2. \A i \in DOMAIN order : order[i] \in Txn /\ tx'[order[i]].state # "NONE"
    BY <1>1, <2>1 DEF LogInv, OrderPrepared
  <2>3. CASE order' = order
    BY <2>2, <2>3 DEF OrderPrepared
  <2>4. CASE order' = Append(order, t)
    <3>1. DOMAIN order = 1..Len(order) /\ DOMAIN order' = 1..(Len(order) + 1)
      BY <2>1, <2>4, AppendProperties, LenProperties
    <3>2. /\ Len(order) \in Nat /\ order'[Len(order) + 1] = t
          /\ \A i \in 1..Len(order) : order'[i] = order[i]
      BY <2>1, <2>4, AppendProperties, LenProperties
    <3>3. \A i \in DOMAIN order' : i \in DOMAIN order \/ i = Len(order) + 1
      BY <3>1, <3>2
    <3> QED BY <1>1, <2>2, <3>1, <3>2, <3>3 DEF OrderPrepared
  <2> QED BY <2>3, <2>4
<1> QED BY <1>2, <1>3, <1>8, <1>9, <1>10 DEF LogKept, LogInv

\* An event that is about no transition.
LEMMA Untouched ==
    ASSUME LogInv, UNCHANGED <<tx, order, receipts>>, OthersTyped
    PROVE  LogKept
BY DEF LogKept, Kept, LogInv, OthersTyped, LogTypeOK, TransitionsFit, ReceiptsFitState,
       HasReceipt, Committed, OrderPrepared

\* An event that decides a transition.
LEMMA Decided ==
    ASSUME LogInv, NEW t \in Txn, NEW x \in Transition, NEW rcpt \in Receipt,
           Update(t, x), receipts' = Append(receipts, rcpt), UNCHANGED order, OthersTyped,
           FactsFit(t, x), PermitFits(x),
           rcpt.txn = t, tx[t].state \notin Terminal, tx[t].state # "NONE",
           tx[t].state = "CANCELLED" => rcpt.decision # "COMMITTED",
           tx[t].next \in View => x.next \in View,
           IF rcpt.decision = "COMMITTED"
           THEN x.state = "ACKNOWLEDGED" /\ rcpt.view = x.next
           ELSE x.state = "ROLLED_BACK"
    PROVE  LogKept
<1>1. tx' = [tx EXCEPT ![t] = x] /\ tx \in [Txn -> Transition]
  BY DEF Update, LogInv, LogTypeOK
<1>2. receipts \in Seq(Receipt)
  BY DEF LogInv, LogTypeOK
<1>3. LogTypeOK'
  BY <1>1, <1>2 DEF LogInv, LogTypeOK, OthersTyped
<1>4. TransitionsFit'
  BY <1>1 DEF LogInv, TransitionsFit
<1>5. /\ DOMAIN receipts' = 1..(Len(receipts) + 1)
      /\ DOMAIN receipts = 1..Len(receipts)
      /\ Len(receipts) \in Nat
      /\ receipts'[Len(receipts) + 1] = rcpt
      /\ \A i \in DOMAIN receipts : receipts'[i] = receipts[i] /\ receipts[i] \in Receipt
  BY <1>2
<1>6. \A i \in DOMAIN receipts : receipts[i].txn # t
  BY DEF LogInv, ReceiptsFitState, Terminal
<1>7. ReceiptsFitState'
  BY <1>1, <1>5, <1>6 DEF LogInv, Receipt, ReceiptsFitState, HasReceipt, Committed
<1>8. Kept
  BY <1>1 DEF Kept
<1>9. OrderPrepared'
  <2>1. \A i \in DOMAIN order : order[i] \in Txn
    BY DEF LogInv, LogTypeOK
  <2> QED BY <1>1, <2>1 DEF LogInv, OrderPrepared
<1> QED BY <1>3, <1>4, <1>7, <1>8, <1>9 DEF LogKept, LogInv
----------------------------------------------------------------------------
(* One lemma per event. *)

\* The record of a transition under the invariant.
LEMMA RecordAt ==
    ASSUME LogInv, NEW t \in Txn
    PROVE  tx[t] \in Transition /\ FactsFit(t, tx[t]) /\ PermitFits(tx[t])
BY DEF LogInv, LogTypeOK, TransitionsFit

LEMMA TransitionPrepared ==
    ASSUME LogInv, NEW t \in Txn, TRANSITION_PREPARED(t)
    PROVE  LogKept
<1>1. CASE tx[t].state # "NONE"
  BY <1>1, Rejected DEF TRANSITION_PREPARED, Fold
<1>2. CASE tx[t].state = "NONE"
  <2> DEFINE x == [Unprepared EXCEPT !.state = "PREPARED", !.base = head]
  <2>1. /\ Update(t, x) /\ UNCHANGED <<receipts, corrupt>>
        /\ order' = Append(order, t) /\ UNCHANGED <<head, pending, archived>>
    BY <1>2 DEF TRANSITION_PREPARED, Fold
  <2>2. tx[t].next = None
    BY <1>2, RecordAt DEF FactsFit, Unprepared
  <2>3. head \in View
    BY DEF LogInv, LogTypeOK
  <2>4. x \in Transition /\ FactsFit(t, x) /\ PermitFits(x) /\ x.state = "PREPARED"
    BY <2>3 DEF Transition, Unprepared, FactsFit, PermitFits, Sealed, Bound, CrossingStates,
              States, OpenStates, PermitStates
  <2>5. OthersTyped
    BY <2>1 DEF LogInv, LogTypeOK, OthersTyped
  <2> HIDE DEF x
  <2> QED BY <1>2, <2>1, <2>2, <2>4, <2>5, NoneIsNoView, Rewritten DEF Terminal
<1> QED BY <1>1, <1>2

LEMMA RuntimeTeardownRecorded ==
    ASSUME LogInv, NEW t \in Txn, NEW scope \in {"AGENT", "ALL"},
           RUNTIME_TEARDOWN_RECORDED(t, scope)
    PROVE  LogKept
<1>1. CASE ~(tx[t].state # "NONE" /\ IsRun(t))
  BY <1>1, Rejected DEF RUNTIME_TEARDOWN_RECORDED, Fold
<1>2. CASE tx[t].state # "NONE" /\ IsRun(t)
  <2> DEFINE x == [tx[t] EXCEPT !.teardown = @ \cup {scope}]
  <2>1. Update(t, x) /\ UNCHANGED <<head, order, receipts, pending, archived, corrupt>>
    BY <1>2 DEF RUNTIME_TEARDOWN_RECORDED, Fold
  <2>2. tx[t] \in Transition /\ FactsFit(t, tx[t]) /\ PermitFits(tx[t])
    BY RecordAt
  <2>3. x \in Transition /\ x.next = tx[t].next /\ x.state = tx[t].state
    BY <2>2 DEF Transition
  <2>4. FactsFit(t, x) /\ PermitFits(x)
    BY <1>2, <2>2 DEF Transition, FactsFit, PermitFits
  <2>5. OthersTyped
    BY <2>1 DEF LogInv, LogTypeOK, OthersTyped
  <2> HIDE DEF x
  <2> QED BY <1>2, <2>1, <2>3, <2>4, <2>5, Rewritten
<1> QED BY <1>1, <1>2
LEMMA RunCancelled ==
    ASSUME LogInv, NEW t \in Txn,
           RUN_CANCELLED(t)
    PROVE  LogKept
<1>1. CASE ~(tx[t].state \in OpenStates)
  BY <1>1, Rejected DEF RUN_CANCELLED, Fold
<1>2. CASE tx[t].state \in OpenStates
  <2> DEFINE x == [tx[t] EXCEPT !.state = "CANCELLED",
                            !.permit = IF @ = "ISSUED" THEN "REVOKED" ELSE @]
  <2>1. Update(t, x) /\ UNCHANGED <<head, order, receipts, pending, archived, corrupt>>
    BY <1>2 DEF RUN_CANCELLED, Fold
  <2>2. tx[t] \in Transition /\ FactsFit(t, tx[t]) /\ PermitFits(tx[t])
    BY RecordAt
  <2>3. x \in Transition
    BY <1>2, <2>2 DEF Transition, States, OpenStates, CrossingStates, PermitStates
  <2>4. FactsFit(t, x) /\ PermitFits(x)
    BY <1>2, <2>2 DEF Transition, FactsFit, PermitFits, Sealed, Bound, OpenStates, CrossingStates
  <2>5. OthersTyped
    BY <2>1 DEF LogInv, LogTypeOK, OthersTyped
  <2>6. /\ tx[t].next \in View => x.next \in View
        /\ tx[t].state = "CANCELLED" => x.state \in {"CANCELLED", "ROLLED_BACK"}
        /\ x.state # "NONE"
        /\ x.state \in Terminal \/ tx[t].state \in Terminal =>
              x.state = tx[t].state /\ x.next = tx[t].next
    BY <1>2, <2>2 DEF Transition, PermitFits, Terminal, OpenStates, CrossingStates, ProposalSealedState
  <2> HIDE DEF x
  <2> QED BY <2>1, <2>3, <2>4, <2>5, <2>6, Rewritten
<1> QED BY <1>1, <1>2

LEMMA ProposalSealed ==
    ASSUME LogInv, NEW t \in Txn, NEW artifact \in Tree, NEW clean \in BOOLEAN,
           PROPOSAL_SEALED(t, artifact, clean)
    PROVE  LogKept
<1>1. CASE ~(tx[t].state = "PREPARED")
  BY <1>1, Rejected DEF PROPOSAL_SEALED, Fold
<1>2. CASE tx[t].state = "PREPARED"
  <2> DEFINE x == [tx[t] EXCEPT !.state = "SEALED", !.artifact = artifact, !.clean = clean]
  <2>1. Update(t, x) /\ UNCHANGED <<head, order, receipts, archived, corrupt>>
        /\ pending' \subseteq pending
    BY <1>2 DEF PROPOSAL_SEALED, Fold, Without
  <2>2. tx[t] \in Transition /\ FactsFit(t, tx[t]) /\ PermitFits(tx[t])
    BY RecordAt
  <2>3. x \in Transition
    BY <1>2, <2>2 DEF Transition, States, OpenStates, CrossingStates, PermitStates
  <2>4. FactsFit(t, x) /\ PermitFits(x)
    BY <1>2, <2>2 DEF Transition, FactsFit, PermitFits, Sealed, Bound, OpenStates, CrossingStates
  <2>5. OthersTyped
    BY <2>1 DEF LogInv, LogTypeOK, OthersTyped
  <2>6. /\ tx[t].next \in View => x.next \in View
        /\ tx[t].state = "CANCELLED" => x.state \in {"CANCELLED", "ROLLED_BACK"}
        /\ x.state # "NONE"
        /\ x.state \in Terminal \/ tx[t].state \in Terminal =>
              x.state = tx[t].state /\ x.next = tx[t].next
    BY <1>2, <2>2 DEF Transition, PermitFits, Terminal, OpenStates, CrossingStates, ProposalSealedState
  <2> HIDE DEF x
  <2> QED BY <2>1, <2>3, <2>4, <2>5, <2>6, Rewritten
<1> QED BY <1>1, <1>2

LEMMA EvidenceRecorded ==
    ASSUME LogInv, NEW t \in Txn, NEW passed \in BOOLEAN,
           EVIDENCE_RECORDED(t, passed)
    PROVE  LogKept
<1>1. CASE ~(tx[t].state = "SEALED")
  BY <1>1, Rejected DEF EVIDENCE_RECORDED, Fold
<1>2. CASE tx[t].state = "SEALED"
  <2> DEFINE x == [tx[t] EXCEPT !.state = "EVIDENCED", !.passed = passed]
  <2>1. Update(t, x) /\ UNCHANGED <<head, order, receipts, pending, archived, corrupt>>
    BY <1>2 DEF EVIDENCE_RECORDED, Fold
  <2>2. tx[t] \in Transition /\ FactsFit(t, tx[t]) /\ PermitFits(tx[t])
    BY RecordAt
  <2>3. x \in Transition
    BY <1>2, <2>2 DEF Transition, States, OpenStates, CrossingStates, PermitStates
  <2>4. FactsFit(t, x) /\ PermitFits(x)
    BY <1>2, <2>2 DEF Transition, FactsFit, PermitFits, Sealed, Bound, OpenStates, CrossingStates
  <2>5. OthersTyped
    BY <2>1 DEF LogInv, LogTypeOK, OthersTyped
  <2>6. /\ tx[t].next \in View => x.next \in View
        /\ tx[t].state = "CANCELLED" => x.state \in {"CANCELLED", "ROLLED_BACK"}
        /\ x.state # "NONE"
        /\ x.state \in Terminal \/ tx[t].state \in Terminal =>
              x.state = tx[t].state /\ x.next = tx[t].next
    BY <1>2, <2>2 DEF Transition, PermitFits, Terminal, OpenStates, CrossingStates, ProposalSealedState
  <2> HIDE DEF x
  <2> QED BY <2>1, <2>3, <2>4, <2>5, <2>6, Rewritten
<1> QED BY <1>1, <1>2

\* The handler of a run looks at the evidence; a rollback has none to look at.
LEMMA PermitIssued ==
    ASSUME LogInv, NEW t \in Txn,
           IsRun(t) => tx[t].clean /\ tx[t].passed /\ TeardownRecorded(t, "ALL"),
           PERMIT_ISSUED(t)
    PROVE  LogKept
<1>1. CASE ~(tx[t].state = "EVIDENCED" /\ tx[t].permit = "NONE")
  BY <1>1, Rejected DEF PERMIT_ISSUED, Fold
<1>2. CASE tx[t].state = "EVIDENCED" /\ tx[t].permit = "NONE"
  <2> DEFINE x == [tx[t] EXCEPT !.state = "PERMITTED", !.permit = "ISSUED"]
  <2>1. Update(t, x) /\ UNCHANGED <<head, order, receipts, pending, archived, corrupt>>
    BY <1>2 DEF PERMIT_ISSUED, Fold
  <2>2. tx[t] \in Transition /\ FactsFit(t, tx[t]) /\ PermitFits(tx[t])
    BY RecordAt
  <2>3. x \in Transition
    BY <1>2, <2>2 DEF Transition, States, OpenStates, CrossingStates, PermitStates
  <2>4. FactsFit(t, x) /\ PermitFits(x)
    BY <1>2, <2>2 DEF Transition, FactsFit, PermitFits, TeardownRecorded, Sealed, Bound, OpenStates, CrossingStates
  <2>5. OthersTyped
    BY <2>1 DEF LogInv, LogTypeOK, OthersTyped
  <2>6. /\ tx[t].next \in View => x.next \in View
        /\ tx[t].state = "CANCELLED" => x.state \in {"CANCELLED", "ROLLED_BACK"}
        /\ x.state # "NONE"
        /\ x.state \in Terminal \/ tx[t].state \in Terminal =>
              x.state = tx[t].state /\ x.next = tx[t].next
    BY <1>2, <2>2 DEF Transition, PermitFits, Terminal, OpenStates, CrossingStates, ProposalSealedState
  <2> HIDE DEF x
  <2> QED BY <2>1, <2>3, <2>4, <2>5, <2>6, Rewritten
<1> QED BY <1>1, <1>2

LEMMA PermitConsuming ==
    ASSUME LogInv, NEW t \in Txn, NEW next \in View,
           next.tree = tx[t].artifact, next.gen = tx[t].base.gen + 1,
           PERMIT_CONSUMING(t, next)
    PROVE  LogKept
<1>1. CASE ~(tx[t].permit = "ISSUED")
  BY <1>1, Rejected DEF PERMIT_CONSUMING, Fold
<1>2. CASE tx[t].permit = "ISSUED"
  <2> DEFINE x == [tx[t] EXCEPT !.state = "CONSUMING", !.permit = "CONSUMING", !.next = next]
  <2>1. Update(t, x) /\ UNCHANGED <<head, order, receipts, pending, archived, corrupt>>
    BY <1>2 DEF PERMIT_CONSUMING, Fold
  <2>2. tx[t] \in Transition /\ FactsFit(t, tx[t]) /\ PermitFits(tx[t])
    BY RecordAt
  <2>3. x \in Transition
    BY <1>2, <2>2 DEF Transition, States, OpenStates, CrossingStates, PermitStates
  <2>4. FactsFit(t, x) /\ PermitFits(x)
    BY <1>2, <2>2 DEF Transition, FactsFit, PermitFits, Sealed, Bound, OpenStates, CrossingStates
  <2>5. OthersTyped
    BY <2>1 DEF LogInv, LogTypeOK, OthersTyped
  <2>6. /\ tx[t].next \in View => x.next \in View
        /\ tx[t].state = "CANCELLED" => x.state \in {"CANCELLED", "ROLLED_BACK"}
        /\ x.state # "NONE"
        /\ x.state \in Terminal \/ tx[t].state \in Terminal =>
              x.state = tx[t].state /\ x.next = tx[t].next
    BY <1>2, <2>2 DEF Transition, PermitFits, Terminal, OpenStates, CrossingStates, ProposalSealedState
  <2> HIDE DEF x
  <2> QED BY <2>1, <2>3, <2>4, <2>5, <2>6, Rewritten
<1> QED BY <1>1, <1>2

LEMMA WorkspaceApplied ==
    ASSUME LogInv, NEW t \in Txn,
           WORKSPACE_APPLIED(t)
    PROVE  LogKept
<1>1. CASE ~(tx[t].state \in {"CONSUMING", "REPAIRED"})
  BY <1>1, Rejected DEF WORKSPACE_APPLIED, Fold
<1>2. CASE tx[t].state \in {"CONSUMING", "REPAIRED"}
  <2> DEFINE x == [tx[t] EXCEPT !.state = "APPLIED"]
  <2>1. Update(t, x) /\ UNCHANGED <<order, receipts, pending, archived, corrupt>>
        /\ head' = tx[t].next
    BY <1>2 DEF WORKSPACE_APPLIED, Fold
  <2>2. tx[t] \in Transition /\ FactsFit(t, tx[t]) /\ PermitFits(tx[t])
    BY RecordAt
  <2>3. x \in Transition
    BY <1>2, <2>2 DEF Transition, States, OpenStates, CrossingStates, PermitStates
  <2>4. FactsFit(t, x) /\ PermitFits(x)
    BY <1>2, <2>2 DEF Transition, FactsFit, PermitFits, Sealed, Bound, OpenStates, CrossingStates
  <2>5. OthersTyped
    BY <1>2, <2>1, <2>2 DEF LogInv, LogTypeOK, OthersTyped, FactsFit, Bound, CrossingStates
  <2>6. /\ tx[t].next \in View => x.next \in View
        /\ tx[t].state = "CANCELLED" => x.state \in {"CANCELLED", "ROLLED_BACK"}
        /\ x.state # "NONE"
        /\ x.state \in Terminal \/ tx[t].state \in Terminal =>
              x.state = tx[t].state /\ x.next = tx[t].next
    BY <1>2, <2>2 DEF Transition, PermitFits, Terminal, OpenStates, CrossingStates, ProposalSealedState
  <2> HIDE DEF x
  <2> QED BY <2>1, <2>3, <2>4, <2>5, <2>6, Rewritten
<1> QED BY <1>1, <1>2

\* The fold would accept a repair of any transition: only the handler's guard
\* keeps it from opening a decided one again.
LEMMA RepairApplied ==
    ASSUME LogInv, NEW t \in Txn,
           tx[t].state \in {"CONSUMING", "APPLIED"},
           REPAIR_APPLIED(t)
    PROVE  LogKept
<1>1. CASE ~(tx[t].state # "NONE")
  BY <1>1, Rejected DEF REPAIR_APPLIED, Fold
<1>2. CASE tx[t].state # "NONE"
  <2> DEFINE x == [tx[t] EXCEPT !.state = "REPAIRED"]
  <2>1. Update(t, x) /\ UNCHANGED <<head, order, receipts, pending, archived, corrupt>>
    BY <1>2 DEF REPAIR_APPLIED, Fold
  <2>2. tx[t] \in Transition /\ FactsFit(t, tx[t]) /\ PermitFits(tx[t])
    BY RecordAt
  <2>3. x \in Transition
    BY <1>2, <2>2 DEF Transition, States, OpenStates, CrossingStates, PermitStates
  <2>4. FactsFit(t, x) /\ PermitFits(x)
    BY <1>2, <2>2 DEF Transition, FactsFit, PermitFits, Sealed, Bound, OpenStates, CrossingStates
  <2>5. OthersTyped
    BY <2>1 DEF LogInv, LogTypeOK, OthersTyped
  <2>6. /\ tx[t].next \in View => x.next \in View
        /\ tx[t].state = "CANCELLED" => x.state \in {"CANCELLED", "ROLLED_BACK"}
        /\ x.state # "NONE"
        /\ x.state \in Terminal \/ tx[t].state \in Terminal =>
              x.state = tx[t].state /\ x.next = tx[t].next
    BY <1>2, <2>2 DEF Transition, PermitFits, Terminal, OpenStates, CrossingStates, ProposalSealedState
  <2> HIDE DEF x
  <2> QED BY <2>1, <2>3, <2>4, <2>5, <2>6, Rewritten
<1> QED BY <1>1, <1>2

LEMMA RunArtifactsDestroyed ==
    ASSUME LogInv, NEW t \in Txn,
           RUN_ARTIFACTS_DESTROYED(t)
    PROVE  LogKept
<1>1. CASE ~(tx[t].state # "NONE")
  BY <1>1, Rejected DEF RUN_ARTIFACTS_DESTROYED, Fold
<1>2. CASE tx[t].state # "NONE"
  <2> DEFINE x == [tx[t] EXCEPT !.destroyed = TRUE]
  <2>1. Update(t, x) /\ UNCHANGED <<head, order, receipts, pending, archived, corrupt>>
    BY <1>2 DEF RUN_ARTIFACTS_DESTROYED, Fold
  <2>2. tx[t] \in Transition /\ FactsFit(t, tx[t]) /\ PermitFits(tx[t])
    BY RecordAt
  <2>3. x \in Transition
    BY <1>2, <2>2 DEF Transition, States, OpenStates, CrossingStates, PermitStates
  <2>4. FactsFit(t, x) /\ PermitFits(x)
    BY <1>2, <2>2 DEF Transition, FactsFit, PermitFits, Sealed, Bound, OpenStates, CrossingStates
  <2>5. OthersTyped
    BY <2>1 DEF LogInv, LogTypeOK, OthersTyped
  <2>6. /\ tx[t].next \in View => x.next \in View
        /\ tx[t].state = "CANCELLED" => x.state \in {"CANCELLED", "ROLLED_BACK"}
        /\ x.state # "NONE"
        /\ x.state \in Terminal \/ tx[t].state \in Terminal =>
              x.state = tx[t].state /\ x.next = tx[t].next
    BY <1>2, <2>2 DEF Transition, PermitFits, Terminal, OpenStates, CrossingStates, ProposalSealedState
  <2> HIDE DEF x
  <2> QED BY <2>1, <2>3, <2>4, <2>5, <2>6, Rewritten
<1> QED BY <1>1, <1>2

LEMMA ProposalExported ==
    ASSUME LogInv, NEW t \in Txn,
           PROPOSAL_EXPORTED(t)
    PROVE  LogKept
<1>1. CASE ~ProposalSealedState(t)
  BY <1>1, Rejected DEF PROPOSAL_EXPORTED, Fold
<1>2. CASE ProposalSealedState(t)
  <2> DEFINE x == [tx[t] EXCEPT !.exported = TRUE]
  <2>1. Update(t, x) /\ UNCHANGED <<head, order, receipts, archived, corrupt>>
        /\ pending' \subseteq pending
    BY <1>2 DEF PROPOSAL_EXPORTED, Fold, Without
  <2>2. tx[t] \in Transition /\ FactsFit(t, tx[t]) /\ PermitFits(tx[t])
    BY RecordAt
  <2>3. x \in Transition
    BY <1>2, <2>2 DEF Transition, States, OpenStates, CrossingStates, PermitStates
  <2>4. FactsFit(t, x) /\ PermitFits(x)
    BY <1>2, <2>2 DEF Transition, FactsFit, PermitFits, ProposalSealedState, Unprepared, Sealed, Bound, OpenStates, CrossingStates
  <2>5. OthersTyped
    BY <2>1 DEF LogInv, LogTypeOK, OthersTyped
  <2>6. /\ tx[t].next \in View => x.next \in View
        /\ tx[t].state = "CANCELLED" => x.state \in {"CANCELLED", "ROLLED_BACK"}
        /\ x.state # "NONE"
        /\ x.state \in Terminal \/ tx[t].state \in Terminal =>
              x.state = tx[t].state /\ x.next = tx[t].next
    BY <1>2, <2>2 DEF Transition, FactsFit, Terminal, ProposalSealedState, Unprepared
  <2> HIDE DEF x
  <2> QED BY <2>1, <2>3, <2>4, <2>5, <2>6, Rewritten
<1> QED BY <1>1, <1>2
LEMMA BackupCreated ==
    ASSUME LogInv, NEW t \in Txn, NEW tree, BACKUP_CREATED(t, tree)
    PROVE  LogKept
<1>1. UNCHANGED projected /\ corrupt' \in BOOLEAN
  BY DEF BACKUP_CREATED, Fold, LogInv, LogTypeOK
<1> QED BY <1>1, Rejected

LEMMA IntentPrepared ==
    ASSUME LogInv, NEW intent \in Intent, INTENT_PREPARED(intent)
    PROVE  LogKept
<1>1. UNCHANGED <<tx, order, receipts>> /\ OthersTyped
  BY DEF INTENT_PREPARED, LogInv, LogTypeOK, OthersTyped
<1> QED BY <1>1, Untouched

LEMMA PlatformStateRegenerated ==
    ASSUME LogInv, NEW view \in View, PLATFORM_STATE_REGENERATED(view)
    PROVE  LogKept
<1>1. UNCHANGED <<tx, order, receipts>> /\ OthersTyped
  BY DEF PLATFORM_STATE_REGENERATED, Without, LogInv, LogTypeOK, OthersTyped
<1> QED BY <1>1, Untouched

LEMMA AgentArchived ==
    ASSUME LogInv, AGENT_ARCHIVED
    PROVE  LogKept
<1>1. UNCHANGED <<tx, order, receipts>> /\ OthersTyped
  BY DEF AGENT_ARCHIVED, Without, LogInv, LogTypeOK, OthersTyped
<1> QED BY <1>1, Untouched

LEMMA TransitionAcknowledged ==
    ASSUME LogInv, NEW t \in Txn, TRANSITION_ACKNOWLEDGED(t)
    PROVE  LogKept
<1>1. CASE tx[t].state # "APPLIED"
  BY <1>1, Rejected DEF TRANSITION_ACKNOWLEDGED, Fold
<1>2. CASE tx[t].state = "APPLIED"
  <2> DEFINE x == [tx[t] EXCEPT !.state = "ACKNOWLEDGED",
                                !.permit = IF @ = "NONE" THEN @ ELSE "CONSUMED"]
             rcpt == [txn |-> t, decision |-> "COMMITTED",
                      view |-> tx[t].next, prior |-> tx[t].base]
  <2>1. /\ Update(t, x) /\ receipts' = Append(receipts, rcpt)
        /\ UNCHANGED <<head, order, pending, archived, corrupt>>
    BY <1>2 DEF TRANSITION_ACKNOWLEDGED, Fold
  <2>2. tx[t] \in Transition /\ FactsFit(t, tx[t]) /\ PermitFits(tx[t])
    BY RecordAt
  <2>3. tx[t].next \in View /\ tx[t].base \in View
    BY <1>2, <2>2 DEF FactsFit, Bound, CrossingStates
  <2>4. x \in Transition /\ rcpt \in Receipt
    BY <2>2, <2>3 DEF Transition, States, PermitStates, Receipt
  <2>5. FactsFit(t, x) /\ PermitFits(x)
    BY <1>2, <2>2 DEF Transition, FactsFit, PermitFits, Sealed, Bound, CrossingStates
  <2>6. OthersTyped
    BY <2>1 DEF LogInv, LogTypeOK, OthersTyped
  <2>7. /\ x.next = tx[t].next /\ x.state = "ACKNOWLEDGED"
        /\ rcpt.txn = t /\ rcpt.decision = "COMMITTED" /\ rcpt.view = tx[t].next
    BY <2>2 DEF Transition
  <2> HIDE DEF x, rcpt
  <2> QED BY <1>2, <2>1, <2>4, <2>5, <2>6, <2>7, Decided DEF Terminal
<1> QED BY <1>1, <1>2

LEMMA NonCommitDispositioned ==
    ASSUME LogInv, NEW t \in Txn, NEW decision \in NonCommits, NEW restored \in BOOLEAN,
           NON_COMMIT_DISPOSITIONED(t, decision, restored)
    PROVE  LogKept
<1> DEFINE authority == DispositionBase(t, restored)
           view == [authority EXCEPT !.epoch = @ + 1]
           accepts == /\ tx[t].state \notin {"NONE", "ACKNOWLEDGED"}
                      /\ tx[t].state = "REPAIRED" => restored
                      /\ tx[t].permit # "CONSUMED"
                      /\ ~HasReceipt(t)
           x == [tx[t] EXCEPT !.state = "ROLLED_BACK",
                              !.permit = IF @ = "NONE" THEN @ ELSE "REVOKED"]
           rcpt == [txn |-> t, decision |-> decision, view |-> view, prior |-> authority]
<1>1. CASE ~accepts
  BY <1>1, Rejected DEF NON_COMMIT_DISPOSITIONED, Fold
<1>2. CASE accepts
  <2>1. /\ Update(t, x) /\ receipts' = Append(receipts, rcpt)
        /\ head' = view /\ UNCHANGED <<order, pending, archived, corrupt>>
    BY <1>2 DEF NON_COMMIT_DISPOSITIONED, Fold
  <2>2. tx[t] \in Transition /\ FactsFit(t, tx[t]) /\ PermitFits(tx[t])
    BY RecordAt
  <2>3. authority \in View
    BY <1>2, <2>2 DEF DispositionBase, FactsFit, LogInv, LogTypeOK
  <2>4. view \in View
    BY <2>3 DEF View
  <2>5. x \in Transition /\ rcpt \in Receipt
    BY <2>2, <2>3, <2>4 DEF Transition, States, PermitStates, Receipt
  <2>6. FactsFit(t, x) /\ PermitFits(x)
    BY <1>2, <2>2 DEF Transition, FactsFit, PermitFits, Sealed, Bound, CrossingStates
  <2>7. OthersTyped
    BY <2>1, <2>4 DEF LogInv, LogTypeOK, OthersTyped
  <2>8. tx[t].state \notin Terminal
    BY <1>2 DEF LogInv, ReceiptsFitState, Terminal
  <2>9. /\ x.next = tx[t].next /\ x.state = "ROLLED_BACK"
        /\ rcpt.txn = t /\ rcpt.decision # "COMMITTED"
    BY <2>2 DEF Transition, NonCommits
  <2> HIDE DEF x, rcpt, view, authority
  <2> QED BY <1>2, <2>1, <2>5, <2>6, <2>7, <2>8, <2>9, Decided
<1> QED BY <1>1, <1>2


----------------------------------------------------------------------------
(* Plans. *)

\* A plan without the steps of S loses none of that by losing its first step.
LEMMA AvoidsFirst ==
    ASSUME NEW S, Avoids(S), op.plan # <<>>
    PROVE  Head(op.plan) \notin S /\ Tail(op.plan) \in Seq(Steps \ S)
BY HeadTailProperties DEF Avoids

\* What the first step of a plan finds.
LEMMA FirstStep ==
    ASSUME ControlTypeOK, PlanFits, op.plan # <<>>
    PROVE  /\ Head(op.plan) \in Steps
           /\ Head(op.plan) \notin TxnFreeSteps => op.txn \in Txn
           /\ Head(op.plan) \in {"clone", "authorize"} => op.tree \in Tree
           /\ Head(op.plan) \in {"reject", "examine"} => op.decision \in NonCommits
           /\ Head(op.plan) \in NextSteps => tx[op.txn].next \in View
           /\ Head(op.plan) = "logRepair" => tx[op.txn].state \in {"CONSUMING", "APPLIED"}
           /\ Head(op.plan) = "authorize" => Authorizing
<1>1. Head(op.plan) \in Steps
  BY HeadTailProperties DEF ControlTypeOK, Operation
<1>2. op.plan \in Seq(TxnFreeSteps) => Head(op.plan) \in TxnFreeSteps
  BY HeadTailProperties
<1>3. \A S : Avoids(S) => Head(op.plan) \notin S
  BY AvoidsFirst
<1> QED BY <1>1, <1>2, <1>3 DEF PlanFits

\* An idle Worker relies on nothing.
LEMMA IdlePlanFits ==
    ASSUME op' = Idle
    PROVE  op' \in Operation /\ PlanFits'
<1>1. op'.plan = <<>> /\ op'.plan \in Seq(TxnFreeSteps) /\ \A S : op'.plan \in Seq(Steps \ S)
  BY EmptySeq DEF Idle
<1>2. op' \in Operation
  BY EmptySeq DEF Idle, Operation, Kinds, Dir
<1> QED BY <1>1, <1>2 DEF PlanFits, Avoids

\* The steps after which a plan simply goes on.
LEMMA Skipped ==
    ASSUME ControlTypeOK, PlanFits, op.plan # <<>>, op' = [op EXCEPT !.plan = Tail(@)], Kept,
           Head(op.plan) \notin {"authorize", "logRepair"},
           Head(op.plan) \in RepairSteps => UNCHANGED tx
    PROVE  op' \in Operation /\ PlanFits'
<1>1. op \in Operation /\ op.plan \in Seq(Steps)
  BY DEF ControlTypeOK, Operation
<1>2. /\ op'.plan = Tail(op.plan) /\ op'.txn = op.txn
      /\ op'.tree = op.tree /\ op'.decision = op.decision
  BY <1>1 DEF Operation
<1>3. op' \in Operation
  BY <1>1, HeadTailProperties DEF Operation
<1>4. \A S : Avoids(S) => Avoids(S)'
  BY <1>2, AvoidsFirst DEF Avoids
<1>5. op.plan \in Seq(TxnFreeSteps) => op'.plan \in Seq(TxnFreeSteps)
  BY <1>2, HeadTailProperties
<1>6. op.plan \in Seq(RepairSteps) =>
          op'.plan \in Seq(RepairSteps) /\ Head(op.plan) \in RepairSteps
  BY <1>2, HeadTailProperties
<1>7. ~Avoids(NextSteps) => op.txn \in Txn
  <2>1. SUFFICES ASSUME op.plan \in Seq(TxnFreeSteps) PROVE Avoids(NextSteps)
    BY DEF PlanFits
  <2>2. TxnFreeSteps \subseteq Steps \ NextSteps
    BY DEF TxnFreeSteps, Steps, NextSteps, ApplySteps
  <2> QED BY <2>1, <2>2, SeqMonotonic DEF Avoids
<1>8. ~Avoids({"authorize"}) => Head(op.plan) = "authorize"
  BY HeadTailProperties DEF PlanFits, Authorizing
<1>9. Avoids({"authorize"})'
  BY <1>4, <1>8
<1>10. Avoids(NextSteps)' \/ tx'[op'.txn].next \in View
  BY <1>2, <1>4, <1>7 DEF PlanFits, Kept
<1>11. \/ Avoids({"logRepair"})'
       \/ op'.plan \in Seq(RepairSteps) /\ tx'[op'.txn].state \in {"CONSUMING", "APPLIED"}
  BY <1>2, <1>4, <1>6 DEF PlanFits
<1> QED BY <1>2, <1>3, <1>4, <1>5, <1>9, <1>10, <1>11 DEF PlanFits

LEMMA Continued ==
    ASSUME ControlTypeOK, PlanFits, op.plan # <<>>, Continue, Kept,
           Head(op.plan) \notin {"authorize", "logRepair"},
           Head(op.plan) \in RepairSteps => UNCHANGED tx
    PROVE  op' \in Operation /\ PlanFits'
BY IdlePlanFits, Skipped DEF Continue

\* A plan made of the steps of Q, once its handler has established what they
\* rely on.
LEMMA Planned ==
    ASSUME NEW kind \in Kinds, NEW t \in Txn \cup {None}, NEW tree \in Dir,
           NEW decision \in NonCommits \cup {None},
           NEW Q \in SUBSET Steps, NEW plan \in Seq(Q),
           op' = [kind |-> kind, txn |-> t, plan |-> plan, tree |-> tree,
                  decision |-> decision],
           Q \subseteq TxnFreeSteps \/ t \in Txn,
           Q \cap {"clone", "authorize"} = {} \/ tree \in Tree,
           Q \cap {"reject", "examine"} = {} \/ decision \in NonCommits,
           Q \cap NextSteps = {} \/ tx'[t].next \in View,
           \/ "logRepair" \notin Q
           \/ Q \subseteq RepairSteps /\ tx'[t].state \in {"CONSUMING", "APPLIED"},
           \/ "authorize" \notin Q
           \/ /\ Q = {"authorize"} /\ ~IsRun(t) /\ tx'[t].base = head'
              /\ tx'[t].state = "PREPARED" \/ tx'[t].artifact = tree
    PROVE  op' \in Operation /\ PlanFits'
<1>1. \A S : Q \subseteq S => plan \in Seq(S)
  BY SeqMonotonic
<1>2. /\ op'.plan = plan /\ op'.txn = t /\ op'.tree = tree /\ op'.decision = decision
  OBVIOUS
<1>3. \A S : Q \cap S = {} => Avoids(S)'
  BY <1>1, <1>2 DEF Avoids
<1>4. op' \in Operation
  BY <1>1 DEF Operation
<1>5. "authorize" \in Q => Authorizing'
  BY <1>2 DEF Authorizing, IsRun
<1> QED BY <1>1, <1>2, <1>3, <1>4, <1>5 DEF PlanFits

----------------------------------------------------------------------------
(* The ways a step of an operation ends. *)

Reasons == {"IO", "WORKSPACE_CAS_MISMATCH", "RECOVERY_REQUIRED", "RUNTIME_TEARDOWN_REQUIRED"}

ControlKept == ControlTypeOK' /\ TodoPrepared' /\ PlanFits'

LEMMA WentOn ==
    ASSUME ControlTypeOK, TodoPrepared, PlanFits, op.plan # <<>>, Go, Kept, UNCHANGED bounds,
           Head(op.plan) \notin {"authorize", "logRepair"},
           Head(op.plan) \in RepairSteps => UNCHANGED tx
    PROVE  ControlKept
<1>1. op' \in Operation /\ PlanFits'
  BY Continued DEF Go
<1>2. ControlTypeOK'
  BY <1>1 DEF ControlTypeOK, Go, bounds
<1>3. TodoPrepared'
  <2>1. \A i \in DOMAIN todo : todo[i] \in Txn
    BY DEF ControlTypeOK
  <2> QED BY <2>1 DEF TodoPrepared, Kept, Go
<1> QED BY <1>1, <1>2, <1>3 DEF ControlKept

LEMMA Threw ==
    ASSUME ControlTypeOK, NEW reason \in Reasons, Throw(reason), UNCHANGED bounds
    PROVE  ControlKept
<1>1. op' \in Operation /\ PlanFits'
  BY IdlePlanFits DEF Throw
<1>2. todo' = <<>> /\ todo' \in Seq(Txn) /\ DOMAIN todo' = {}
  BY EmptySeq DEF Throw
<1>3. refusal' \in Reasons \cup {"none"} /\ up' \in {"down", "starting", "sweeping", "serving"}
  BY DEF Throw, ControlTypeOK, Reasons
<1>4. ControlTypeOK'
  BY <1>1, <1>2, <1>3 DEF ControlTypeOK, bounds, Reasons
<1> QED BY <1>1, <1>2, <1>4 DEF ControlKept, TodoPrepared

\* A failed apply goes back to its base.
LEMMA Undone ==
    ASSUME ControlTypeOK, op.txn \in Txn, Undo
    PROVE  op' \in Operation /\ PlanFits'
<1> DEFINE plan == <<"evict", "reinstate", "remove", "logDestroyed", "restore">>
           Q == {"evict", "reinstate", "remove", "logDestroyed", "restore"}
<1>1. op' = [kind |-> "undo", txn |-> op.txn, plan |-> plan, tree |-> op.tree,
             decision |-> op.decision]
  BY DEF Undo, ControlTypeOK, Operation
<1>2. plan \in Seq(Q)
  OBVIOUS
<1>3. Q \subseteq Steps /\ Q \cap NextSteps = {}
  BY DEF Steps, NextSteps, ApplySteps
<1>4. op.tree \in Dir /\ op.decision \in NonCommits \cup {None} /\ "undo" \in Kinds
  BY DEF ControlTypeOK, Operation, Kinds
<1>5. /\ Q \cap {"clone", "authorize"} = {} /\ Q \cap {"reject", "examine"} = {}
      /\ "logRepair" \notin Q /\ "authorize" \notin Q
  OBVIOUS
<1> HIDE DEF plan, Q
<1> QED BY <1>1, <1>2, <1>3, <1>4, <1>5, Planned

LEMMA Failed ==
    ASSUME ControlTypeOK, TodoPrepared, PlanFits, op.plan # <<>>, NEW reason \in Reasons,
           Fail(reason), Kept, UNCHANGED bounds
    PROVE  ControlKept
<1>1. CASE op.kind = "apply" /\ Head(op.plan) \in ApplySteps
  <2>1. op.txn \in Txn
    BY <1>1, FirstStep DEF ApplySteps, TxnFreeSteps
  <2>2. op' \in Operation /\ PlanFits'
    BY <1>1, <2>1, Undone DEF Fail
  <2>3. ControlTypeOK'
    BY <1>1, <2>2 DEF Fail, ControlTypeOK, bounds
  <2>4. \A i \in DOMAIN todo : todo[i] \in Txn
    BY DEF ControlTypeOK
  <2>5. TodoPrepared'
    BY <1>1, <2>4 DEF Fail, TodoPrepared, Kept
  <2> QED BY <2>2, <2>3, <2>5 DEF ControlKept
<1>2. CASE ~(op.kind = "apply" /\ Head(op.plan) \in ApplySteps)
  BY <1>2, Threw DEF Fail
<1> QED BY <1>1, <1>2
\* A handler that leaves a new plan and touches no other control.
LEMMA Replanned ==
    ASSUME ControlTypeOK, TodoPrepared, Kept, UNCHANGED <<up, todo, refusal, bounds>>,
           op' \in Operation, PlanFits'
    PROVE  ControlKept
<1>1. ControlTypeOK'
  BY DEF ControlTypeOK, bounds
<1>2. TodoPrepared'
  <2>1. \A i \in DOMAIN todo : todo[i] \in Txn
    BY DEF ControlTypeOK
  <2> QED BY <2>1 DEF TodoPrepared, Kept
<1> QED BY <1>1, <1>2 DEF ControlKept

\* A step with another durable effect to come.
LEMMA Awaited ==
    ASSUME ControlTypeOK, TodoPrepared, PlanFits, op.plan # <<>>,
           Head(op.plan) \notin RepairSteps \cup {"authorize"}, Kept, Await, UNCHANGED bounds
    PROVE  ControlKept
<1>1. op' = op /\ op \in Operation
  BY DEF Await, ControlTypeOK
<1>2. \A S : Avoids(S) => Avoids(S)'
  BY <1>1 DEF Avoids
<1>3. op.plan \notin Seq(RepairSteps) /\ op.plan \notin Seq({"authorize"})
  BY HeadTailProperties
<1>4. ~Avoids(NextSteps) => op.txn \in Txn
  <2>1. SUFFICES ASSUME op.plan \in Seq(TxnFreeSteps) PROVE Avoids(NextSteps)
    BY DEF PlanFits
  <2>2. TxnFreeSteps \subseteq Steps \ NextSteps
    BY DEF TxnFreeSteps, Steps, NextSteps, ApplySteps
  <2> QED BY <2>1, <2>2, SeqMonotonic DEF Avoids
<1>5. PlanFits'
  BY <1>1, <1>2, <1>3, <1>4 DEF PlanFits, Authorizing, Kept
<1> QED BY <1>1, <1>5, Replanned DEF Await

\* The permit is consumed: the swap and the acknowledgement follow.
LEMMA Applying ==
    ASSUME ControlTypeOK, TodoPrepared, Kept, UNCHANGED <<up, todo, refusal, bounds>>,
           NEW t \in Txn, tx'[t].next \in View,
           Run("apply", t, SwapAndAcknowledge, None, None)
    PROVE  ControlKept
<1> DEFINE Q == {"backup", "logBackup", "swap", "snapshot", "apply", "ack",
                 "dropBackup", "remove", "logDestroyed"}
<1>1. SwapAndAcknowledge \in Seq(Q)
  <2>1. <<"backup", "logBackup", "swap", "snapshot", "apply", "ack">> \in Seq(Q)
    OBVIOUS
  <2>2. <<"dropBackup", "remove", "logDestroyed">> \in Seq(Q)
    OBVIOUS
  <2> HIDE DEF Q
  <2> QED BY <2>1, <2>2, ConcatProperties DEF SwapAndAcknowledge, Finished
<1>2. Q \subseteq Steps /\ "apply" \in Kinds /\ None \in Dir
  BY DEF Steps, ApplySteps, Kinds, Dir
<1>3. op' \in Operation /\ PlanFits'
  <2>1. op' = [kind |-> "apply", txn |-> t, plan |-> SwapAndAcknowledge, tree |-> None,
               decision |-> None]
    BY DEF Run
  <2>2. /\ Q \cap {"clone", "authorize"} = {} /\ Q \cap {"reject", "examine"} = {}
        /\ "logRepair" \notin Q /\ "authorize" \notin Q
    OBVIOUS
  <2> HIDE DEF Q
  <2> QED BY <1>1, <1>2, <2>1, <2>2, Planned
<1> QED BY <1>3, Replanned

----------------------------------------------------------------------------
(* Steps. *)

LEMMA LogSame ==
    ASSUME LogInv, UNCHANGED logVars
    PROVE  LogKept /\ UNCHANGED tx
BY Rejected DEF logVars, projected, LogInv, LogTypeOK

LEMMA DiskSame ==
    ASSUME DiskTypeOK, UNCHANGED disk
    PROVE  DiskTypeOK'
BY DEF DiskTypeOK, disk

LEMMA Assembled ==
    ASSUME LogKept, DiskTypeOK', ControlKept
    PROVE  Inductive' /\ Kept
BY DEF LogKept, ControlKept, Inductive

LEMMA MaterializedTyped ==
    ASSUME DiskTypeOK
    PROVE  Materialized \in Dir
BY DEF DiskTypeOK, Materialized, Dir

\* The situation a step starts from.
LEMMA Situation ==
    ASSUME Inductive, NEW step, At(step)
    PROVE  /\ op.plan # <<>> /\ Head(op.plan) = step /\ ~corrupt
           /\ LogInv /\ DiskTypeOK /\ ControlTypeOK /\ TodoPrepared /\ PlanFits
           /\ step \notin TxnFreeSteps => op.txn \in Txn
           /\ step \in {"clone", "authorize"} => op.tree \in Tree
           /\ step \in {"reject", "examine"} => op.decision \in NonCommits
           /\ step \in NextSteps => tx[op.txn].next \in View
           /\ step = "logRepair" => tx[op.txn].state \in {"CONSUMING", "APPLIED"}
           /\ step = "authorize" => Authorizing
<1>1. op.plan # <<>> /\ Head(op.plan) = step /\ ~corrupt
  BY DEF At
<1>2. LogInv /\ DiskTypeOK /\ ControlTypeOK /\ TodoPrepared /\ PlanFits
  BY <1>1 DEF Inductive
<1> QED BY <1>1, <1>2, FirstStep

LEMMA CloneStepKept ==
    ASSUME Inductive, CloneStep
    PROVE  Inductive' /\ Kept
<1>1. At("clone") /\ UNCHANGED <<logVars, bounds>>
  BY DEF CloneStep
<1>2. op.txn \in Txn /\ op.tree \in Tree
  BY <1>1, Situation DEF TxnFreeSteps
<1>3. LogKept
  BY <1>1, Situation, LogSame
<1>4. DiskTypeOK'
  BY <1>1, <1>2, Situation DEF CloneStep, DiskTypeOK
<1>5. ControlKept
  <2>1. Go \/ Throw("WORKSPACE_CAS_MISMATCH")
    BY DEF CloneStep
  <2> QED BY <1>1, <1>3, <2>1, Situation, WentOn, Threw DEF LogKept, RepairSteps, Reasons
<1> QED BY <1>3, <1>4, <1>5, Assembled

LEMMA PrepareStepKept ==
    ASSUME Inductive, PrepareStep
    PROVE  Inductive' /\ Kept
<1>1. At("prepare") /\ Go /\ TRANSITION_PREPARED(op.txn) /\ UNCHANGED <<disk, bounds>>
  BY DEF PrepareStep
<1>2. op.txn \in Txn
  BY <1>1, Situation DEF TxnFreeSteps
<1>3. LogKept
  BY <1>1, <1>2, Situation, TransitionPrepared
<1>4. DiskTypeOK'
  BY <1>1, Situation, DiskSame
<1>5. ControlKept
  BY <1>1, <1>3, Situation, WentOn DEF LogKept, RepairSteps
<1> QED BY <1>3, <1>4, <1>5, Assembled

LEMMA ImportProposalStepKept ==
    ASSUME Inductive, ImportProposalStep
    PROVE  Inductive' /\ Kept
<1>1. At("importProposal") /\ UNCHANGED <<logVars, bounds>>
  BY DEF ImportProposalStep
<1>2. op.txn \in Txn
  BY <1>1, Situation DEF TxnFreeSteps
<1>3. LogKept
  BY <1>1, Situation, LogSame
<1>4. DiskTypeOK'
  BY <1>1, <1>2, Situation DEF ImportProposalStep, DiskTypeOK
<1>5. ControlKept
  <2>1. Go \/ Await \/ Throw("IO")
    BY DEF ImportProposalStep
  <2> QED BY <1>1, <1>3, <2>1, Situation, WentOn, Awaited, Threw DEF LogKept, RepairSteps, Reasons
<1> QED BY <1>3, <1>4, <1>5, Assembled

LEMMA LogSealStepKept ==
    ASSUME Inductive, LogSealStep
    PROVE  Inductive' /\ Kept
<1> DEFINE intent == [kind |-> "seal", txn |-> op.txn, clean |-> Head(op.plan) = "logSeal"]
<1>1. PICK step \in {"logSeal", "logFlawed"} : At(step)
  BY DEF LogSealStep
<1>2. INTENT_PREPARED(intent) /\ Go /\ UNCHANGED <<disk, bounds>>
  BY DEF LogSealStep
<1>3. op.txn \in Txn
  BY <1>1, Situation DEF TxnFreeSteps
<1>4. intent \in Intent
  BY <1>3 DEF Intent
<1>5. LogKept
  BY <1>1, <1>2, <1>4, Situation, IntentPrepared
<1>6. DiskTypeOK'
  BY <1>1, <1>2, Situation, DiskSame
<1>7. ControlKept
  BY <1>1, <1>2, <1>5, Situation, WentOn DEF LogKept, RepairSteps
<1> QED BY <1>5, <1>6, <1>7, Assembled

LEMMA BackupStepKept ==
    ASSUME Inductive, BackupStep
    PROVE  Inductive' /\ Kept
<1>1. At("backup") /\ UNCHANGED <<logVars, bounds>>
  BY DEF BackupStep
<1>2. op.txn \in Txn /\ Materialized \in Dir
  BY <1>1, Situation, MaterializedTyped DEF TxnFreeSteps
<1>3. LogKept /\ UNCHANGED tx
  BY <1>1, Situation, LogSame
<1>4. DiskTypeOK'
  BY <1>1, <1>2, Situation DEF BackupStep, DiskTypeOK, Dir
<1>5. ControlKept
  <2>1. Go \/ Fail("IO")
    BY DEF BackupStep
  <2> QED BY <1>1, <1>3, <2>1, Situation, WentOn, Failed DEF LogKept, Reasons
<1> QED BY <1>3, <1>4, <1>5, Assembled

LEMMA LogBackupStepKept ==
    ASSUME Inductive, LogBackupStep
    PROVE  Inductive' /\ Kept
<1>1. At("logBackup") /\ Go /\ BACKUP_CREATED(op.txn, ExpectedBase) /\ UNCHANGED <<disk, bounds>>
  BY DEF LogBackupStep
<1>2. op.txn \in Txn
  BY <1>1, Situation DEF TxnFreeSteps
<1>3. LogKept /\ UNCHANGED tx
  BY <1>1, <1>2, Situation, BackupCreated DEF BACKUP_CREATED, Fold, projected
<1>4. DiskTypeOK'
  BY <1>1, Situation, DiskSame
<1>5. ControlKept
  BY <1>1, <1>3, Situation, WentOn DEF LogKept
<1> QED BY <1>3, <1>4, <1>5, Assembled

LEMMA SwapStepKept ==
    ASSUME Inductive, SwapStep
    PROVE  Inductive' /\ Kept
<1>1. At("swap") /\ Go /\ UNCHANGED <<logVars, bounds>>
  BY DEF SwapStep
<1>2. tx[op.txn].next.tree \in Tree
  BY <1>1, Situation DEF NextSteps, ApplySteps, View
<1>3. LogKept /\ UNCHANGED tx
  BY <1>1, Situation, LogSame
<1>4. DiskTypeOK'
  BY <1>1, <1>2, Situation DEF SwapStep, DiskTypeOK, Dir
<1>5. ControlKept
  BY <1>1, <1>3, Situation, WentOn DEF LogKept
<1> QED BY <1>3, <1>4, <1>5, Assembled

LEMMA SnapshotStepKept ==
    ASSUME Inductive, SnapshotStep
    PROVE  Inductive' /\ Kept
<1>1. At("snapshot") /\ UNCHANGED <<logVars, bounds>>
  BY DEF SnapshotStep
<1>2. tx[op.txn].next.tree \in Tree
  BY <1>1, Situation DEF NextSteps, ApplySteps, View
<1>3. LogKept /\ UNCHANGED tx
  BY <1>1, Situation, LogSame
<1>4. DiskTypeOK'
  BY <1>1, <1>2, Situation DEF SnapshotStep, DiskTypeOK, Dir
<1>5. ControlKept
  <2>1. Go \/ Fail("IO")
    BY DEF SnapshotStep
  <2> QED BY <1>1, <1>3, <2>1, Situation, WentOn, Failed DEF LogKept, Reasons
<1> QED BY <1>3, <1>4, <1>5, Assembled

LEMMA ApplyStepKept ==
    ASSUME Inductive, ApplyStep
    PROVE  Inductive' /\ Kept
<1>1. At("apply") /\ Go /\ WORKSPACE_APPLIED(op.txn) /\ UNCHANGED <<disk, bounds>>
  BY DEF ApplyStep
<1>2. op.txn \in Txn
  BY <1>1, Situation DEF TxnFreeSteps
<1>3. LogKept
  BY <1>1, <1>2, Situation, WorkspaceApplied
<1>4. DiskTypeOK'
  BY <1>1, Situation, DiskSame
<1>5. ControlKept
  BY <1>1, <1>3, Situation, WentOn DEF LogKept, RepairSteps
<1> QED BY <1>3, <1>4, <1>5, Assembled

LEMMA AckStepKept ==
    ASSUME Inductive, AckStep
    PROVE  Inductive' /\ Kept
<1>1. At("ack") /\ Go /\ TRANSITION_ACKNOWLEDGED(op.txn) /\ UNCHANGED <<disk, bounds>>
  BY DEF AckStep
<1>2. op.txn \in Txn
  BY <1>1, Situation DEF TxnFreeSteps
<1>3. LogKept
  BY <1>1, <1>2, Situation, TransitionAcknowledged
<1>4. DiskTypeOK'
  BY <1>1, Situation, DiskSame
<1>5. ControlKept
  BY <1>1, <1>3, Situation, WentOn DEF LogKept, RepairSteps
<1> QED BY <1>3, <1>4, <1>5, Assembled

LEMMA DropBackupStepKept ==
    ASSUME Inductive, DropBackupStep
    PROVE  Inductive' /\ Kept
<1>1. At("dropBackup") /\ Go /\ UNCHANGED <<logVars, bounds>>
  BY DEF DropBackupStep
<1>2. op.txn \in Txn
  BY <1>1, Situation DEF TxnFreeSteps
<1>3. LogKept
  BY <1>1, Situation, LogSame
<1>4. DiskTypeOK'
  BY <1>1, <1>2, Situation DEF DropBackupStep, DiskTypeOK, Dir
<1>5. ControlKept
  BY <1>1, <1>3, Situation, WentOn DEF LogKept, RepairSteps
<1> QED BY <1>3, <1>4, <1>5, Assembled

LEMMA RemoveStepKept ==
    ASSUME Inductive, RemoveStep
    PROVE  Inductive' /\ Kept
<1>1. At("remove") /\ UNCHANGED <<logVars, bounds>>
  BY DEF RemoveStep
<1>2. op.txn \in Txn
  BY <1>1, Situation DEF TxnFreeSteps
<1>3. LogKept
  BY <1>1, Situation, LogSame
<1>4. DiskTypeOK'
  BY <1>1, <1>2, Situation DEF RemoveStep, DiskTypeOK, disk
<1>5. ControlKept
  <2>1. Go \/ Await \/ Throw("RUNTIME_TEARDOWN_REQUIRED")
    BY DEF RemoveStep
  <2> QED BY <1>1, <1>3, <2>1, Situation, WentOn, Awaited, Threw DEF LogKept, RepairSteps, Reasons
<1> QED BY <1>3, <1>4, <1>5, Assembled

LEMMA LogDestroyedStepKept ==
    ASSUME Inductive, LogDestroyedStep
    PROVE  Inductive' /\ Kept
<1>1. At("logDestroyed") /\ Go /\ UNCHANGED <<disk, bounds>>
  BY DEF LogDestroyedStep
<1>2. op.txn \in Txn
  BY <1>1, Situation DEF TxnFreeSteps
<1>3. LogKept
  BY <1>1, <1>2, Situation, LogSame, RunArtifactsDestroyed DEF LogDestroyedStep
<1>4. DiskTypeOK'
  BY <1>1, Situation, DiskSame
<1>5. ControlKept
  BY <1>1, <1>3, Situation, WentOn DEF LogKept, RepairSteps
<1> QED BY <1>3, <1>4, <1>5, Assembled

\* RejectStep and RestoreStep.
LEMMA DisposeStepKept ==
    ASSUME Inductive, NEW restored \in BOOLEAN,
           At(IF restored THEN "restore" ELSE "reject"), DisposeStep(restored)
    PROVE  Inductive' /\ Kept
<1> DEFINE decision == IF restored THEN "ABORTED" ELSE op.decision
<1>1. /\ op.plan # <<>> /\ Head(op.plan) \in {"restore", "reject"}
      /\ LogInv /\ DiskTypeOK /\ ControlTypeOK /\ TodoPrepared /\ PlanFits
      /\ op.txn \in Txn /\ decision \in NonCommits
  BY Situation DEF TxnFreeSteps, NonCommits
<1>2. /\ \/ NON_COMMIT_DISPOSITIONED(op.txn, decision, restored) /\ Go
         \/ UNCHANGED logVars /\ Throw("RECOVERY_REQUIRED")
      /\ workspace' = Materialized
      /\ UNCHANGED <<backup, snapshots, candidate, proposal, export, staged, retired, archive>>
      /\ UNCHANGED bounds
  BY DEF DisposeStep
<1>3. LogKept
  BY <1>1, <1>2, LogSame, NonCommitDispositioned
<1>4. DiskTypeOK'
  BY <1>1, <1>2, MaterializedTyped DEF DiskTypeOK
<1>5. ControlKept
  BY <1>1, <1>2, <1>3, WentOn, Threw DEF LogKept, RepairSteps, Reasons
<1> QED BY <1>3, <1>4, <1>5, Assembled

LEMMA EvictStepKept ==
    ASSUME Inductive, EvictStep
    PROVE  Inductive' /\ Kept
<1>1. At("evict") /\ UNCHANGED <<logVars, bounds>>
  BY DEF EvictStep
<1>2. LogKept /\ UNCHANGED tx
  BY <1>1, Situation, LogSame
<1>3. DiskTypeOK'
  BY <1>1, Situation DEF EvictStep, DiskTypeOK, Dir
<1>4. ControlKept
  <2>1. Go \/ Throw("RECOVERY_REQUIRED")
    BY DEF EvictStep
  <2> QED BY <1>1, <1>2, <2>1, Situation, WentOn, Threw DEF LogKept, Reasons
<1> QED BY <1>2, <1>3, <1>4, Assembled

LEMMA ReinstateStepKept ==
    ASSUME Inductive, ReinstateStep
    PROVE  Inductive' /\ Kept
<1>1. At("reinstate") /\ UNCHANGED <<logVars, bounds>>
  BY DEF ReinstateStep
<1>2. op.txn \in Txn /\ Materialized \in Dir
  BY <1>1, Situation, MaterializedTyped DEF TxnFreeSteps
<1>3. LogKept /\ UNCHANGED tx
  BY <1>1, Situation, LogSame
<1>4. DiskTypeOK'
  <2>1. backup \in [Txn -> Dir] /\ workspace \in Dir
    BY <1>1, Situation DEF DiskTypeOK
  <2>2. workspace' \in Dir /\ backup' \in [Txn -> Dir]
    BY <1>2, <2>1 DEF ReinstateStep, Dir
  <2> QED BY <1>1, <2>2, Situation DEF ReinstateStep, DiskTypeOK
<1>5. ControlKept
  <2>1. Go \/ Throw("RECOVERY_REQUIRED")
    BY DEF ReinstateStep
  <2> QED BY <1>1, <1>3, <2>1, Situation, WentOn, Threw DEF LogKept, Reasons
<1> QED BY <1>3, <1>4, <1>5, Assembled
\* One of the four steps by which a rollback authorizes itself.
LEMMA Authorized ==
    ASSUME ControlTypeOK, TodoPrepared, Authorizing, op.plan # <<>>, op.txn \in Txn,
           op.tree \in Tree, Continue, Kept, UNCHANGED <<up, todo, refusal, bounds, head>>,
           tx'[op.txn].base = tx[op.txn].base, tx'[op.txn].artifact = op.tree
    PROVE  ControlKept
<1>1. CASE op' = Idle
  BY <1>1, IdlePlanFits, Replanned
<1>2. CASE op' = [op EXCEPT !.plan = Tail(@)]
  <2> DEFINE Q == {"authorize"}
  <2>1. Tail(op.plan) \in Seq(Q)
    BY HeadTailProperties DEF Authorizing
  <2>2. op' = [kind |-> op.kind, txn |-> op.txn, plan |-> Tail(op.plan), tree |-> op.tree,
               decision |-> op.decision]
    BY <1>2 DEF ControlTypeOK, Operation
  <2>3. op.kind \in Kinds /\ op.tree \in Dir /\ op.decision \in NonCommits \cup {None}
    BY DEF ControlTypeOK, Operation
  <2>4. Q \in SUBSET Steps
    BY DEF Steps
  <2>5. /\ "logRepair" \notin Q /\ Q \cap {"reject", "examine"} = {} /\ Q \cap NextSteps = {}
    BY DEF NextSteps, ApplySteps
  <2>6. ~IsRun(op.txn) /\ tx'[op.txn].base = head'
    BY DEF Authorizing
  <2>7. Q = {"authorize"}
    OBVIOUS
  <2> HIDE DEF Q
  <2>8. op' \in Operation /\ PlanFits'
    BY <2>1, <2>2, <2>3, <2>4, <2>5, <2>6, <2>7, Planned
  <2> QED BY <2>8, Replanned
<1> QED BY <1>1, <1>2 DEF Continue

LEMMA AuthorizeStepKept ==
    ASSUME Inductive, AuthorizeStep
    PROVE  Inductive' /\ Kept
<1> DEFINE t == op.txn
<1>1. At("authorize") /\ UNCHANGED <<disk, up, todo, refusal, bounds>>
  BY DEF AuthorizeStep
<1>2. /\ t \in Txn /\ op.tree \in Tree /\ Authorizing /\ op.plan # <<>>
      /\ LogInv /\ ControlTypeOK /\ TodoPrepared
  BY <1>1, Situation DEF TxnFreeSteps
<1>3. tx[t] \in Transition /\ FactsFit(t, tx[t]) /\ PermitFits(tx[t])
  BY <1>2, RecordAt
<1>4. DiskTypeOK'
  BY <1>1, Situation, DiskSame
<1>5. tx \in [Txn -> Transition]
  BY <1>2 DEF LogInv, LogTypeOK
<1>6. CASE tx[t].state = "PREPARED" /\ PROPOSAL_SEALED(t, op.tree, TRUE) /\ Continue
  <2>1. LogKept
    BY <1>2, <1>6, ProposalSealed
  <2>2. UNCHANGED head /\ tx'[t].base = tx[t].base /\ tx'[t].artifact = op.tree
    <3>1. /\ UNCHANGED head
          /\ tx' = [tx EXCEPT ![t] = [tx[t] EXCEPT !.state = "SEALED", !.artifact = op.tree, !.clean = TRUE]]
      BY <1>6 DEF PROPOSAL_SEALED, Fold, Update
    <3>2. tx'[t] = [tx[t] EXCEPT !.state = "SEALED", !.artifact = op.tree, !.clean = TRUE]
      BY <1>2, <1>5, <3>1
    <3>3. tx'[t].base = tx[t].base /\ tx'[t].artifact = op.tree
      BY <1>3, <3>2 DEF Transition
    <3> QED BY <3>1, <3>3
  <2>3. ControlKept
    BY <1>1, <1>2, <1>6, <2>1, <2>2, Authorized DEF LogKept
  <2> QED BY <1>4, <2>1, <2>3, Assembled
<1>7. CASE tx[t].state = "SEALED" /\ EVIDENCE_RECORDED(t, TRUE) /\ Continue
  <2>1. LogKept
    BY <1>2, <1>7, EvidenceRecorded
  <2>2. UNCHANGED head /\ tx'[t].base = tx[t].base /\ tx'[t].artifact = op.tree
    <3>1. /\ UNCHANGED head
          /\ tx' = [tx EXCEPT ![t] = [tx[t] EXCEPT !.state = "EVIDENCED", !.passed = TRUE]]
      BY <1>7 DEF EVIDENCE_RECORDED, Fold, Update
    <3>2. tx'[t] = [tx[t] EXCEPT !.state = "EVIDENCED", !.passed = TRUE]
      BY <1>2, <1>5, <3>1
    <3> QED BY <1>2, <1>3, <1>7, <3>1, <3>2 DEF Transition, Authorizing
  <2>3. ControlKept
    BY <1>1, <1>2, <1>7, <2>1, <2>2, Authorized DEF LogKept
  <2> QED BY <1>4, <2>1, <2>3, Assembled
<1>8. CASE tx[t].state = "EVIDENCED" /\ PERMIT_ISSUED(t) /\ Continue
  <2>1. LogKept
    BY <1>2, <1>8, PermitIssued DEF Authorizing
  <2>2. UNCHANGED head /\ tx'[t].base = tx[t].base /\ tx'[t].artifact = op.tree
    <3>1. tx[t].permit = "NONE"
      BY <1>3, <1>8 DEF PermitFits, Transition, PermitStates, CrossingStates
    <3>2. /\ UNCHANGED head
          /\ tx' = [tx EXCEPT ![t] = [tx[t] EXCEPT !.state = "PERMITTED", !.permit = "ISSUED"]]
      BY <1>8, <3>1 DEF PERMIT_ISSUED, Fold, Update
    <3>3. tx'[t] = [tx[t] EXCEPT !.state = "PERMITTED", !.permit = "ISSUED"]
      BY <1>2, <1>5, <3>2
    <3> QED BY <1>2, <1>3, <1>8, <3>2, <3>3 DEF Transition, Authorizing
  <2>3. ControlKept
    BY <1>1, <1>2, <1>8, <2>1, <2>2, Authorized DEF LogKept
  <2> QED BY <1>4, <2>1, <2>3, Assembled
<1>9. CASE /\ tx[t].state = "PERMITTED"
           /\ PERMIT_CONSUMING(t, NextView(t, op.tree, 1))
           /\ Run("apply", t, SwapAndAcknowledge, None, None)
  <2> DEFINE next == NextView(t, op.tree, 1)
  <2>1. next \in View /\ next.tree = op.tree /\ next.gen = head.gen + 1
    BY <1>2 DEF NextView, View, LogInv, LogTypeOK
  <2>2. next.tree = tx[t].artifact /\ next.gen = tx[t].base.gen + 1
    BY <1>9, <1>2, <2>1 DEF Authorizing
  <2>3. LogKept
    BY <1>2, <1>9, <2>1, <2>2, PermitConsuming
  <2>4. tx'[t].next \in View
    <3> HIDE DEF next
    <3>1. tx[t].permit = "ISSUED"
      BY <1>3, <1>9 DEF PermitFits
    <3>2. tx' = [tx EXCEPT ![t] = [tx[t] EXCEPT !.state = "CONSUMING",
                                      !.permit = "CONSUMING", !.next = next]]
      BY <1>9, <3>1 DEF next, PERMIT_CONSUMING, Fold, Update
    <3>3. tx'[t] = [tx[t] EXCEPT !.state = "CONSUMING", !.permit = "CONSUMING",
                              !.next = next]
      BY <1>2, <1>5, <3>2
    <3>4. tx'[t].next = next
      BY <1>3, <3>3 DEF Transition
    <3> QED BY <2>1, <3>4
  <2>5. ControlKept
    BY <1>1, <1>2, <1>9, <2>3, <2>4, Applying DEF LogKept
  <2> QED BY <1>4, <2>3, <2>5, Assembled
<1>10. \/ tx[t].state = "PREPARED" /\ PROPOSAL_SEALED(t, op.tree, TRUE) /\ Continue
       \/ tx[t].state = "SEALED" /\ EVIDENCE_RECORDED(t, TRUE) /\ Continue
       \/ tx[t].state = "EVIDENCED" /\ PERMIT_ISSUED(t) /\ Continue
       \/ /\ tx[t].state = "PERMITTED"
          /\ PERMIT_CONSUMING(t, NextView(t, op.tree, 1))
          /\ Run("apply", t, SwapAndAcknowledge, None, None)
  BY Zenon DEF AuthorizeStep
<1> QED BY ONLY <1>6, <1>7, <1>8, <1>9, <1>10, Zenon

LEMMA LogRepairStepKept ==
    ASSUME Inductive, LogRepairStep
    PROVE  Inductive' /\ Kept
<1> DEFINE forward == <<"snapshot", "apply", "ack", "dropBackup">>
           Forward == {"snapshot", "apply", "ack", "dropBackup"}
           back == <<"remove", "logDestroyed", "restore">>
           Back == {"remove", "logDestroyed", "restore"}
<1>1. /\ At("logRepair") /\ REPAIR_APPLIED(op.txn)
      /\ UNCHANGED <<disk, up, todo, refusal, bounds>>
  BY DEF LogRepairStep
<1>2. /\ op.txn \in Txn /\ tx[op.txn].state \in {"CONSUMING", "APPLIED"}
      /\ tx[op.txn].next \in View
  BY <1>1, Situation DEF TxnFreeSteps, NextSteps
<1>3. LogKept
  BY <1>1, <1>2, Situation, RepairApplied
<1>4. DiskTypeOK'
  BY <1>1, Situation, DiskSame
<1>5. tx'[op.txn].next \in View
  BY <1>2, <1>3 DEF LogKept, Kept
<1>6. "repaired" \in Kinds /\ None \in Dir
  BY DEF Kinds, Dir
<1>7. op' \in Operation /\ PlanFits'
  <2>1. CASE Run("repaired", op.txn, forward, None, None)
    <3>1. op' = [kind |-> "repaired", txn |-> op.txn, plan |-> forward, tree |-> None,
                 decision |-> None]
      BY <2>1 DEF Run
    <3>2. forward \in Seq(Forward)
      OBVIOUS
    <3>3. /\ Forward \subseteq Steps /\ Forward \cap {"clone", "authorize"} = {}
          /\ Forward \cap {"reject", "examine"} = {}
          /\ "logRepair" \notin Forward /\ "authorize" \notin Forward
      BY DEF Steps, ApplySteps
    <3> HIDE DEF forward, Forward
    <3> QED BY <1>2, <1>5, <1>6, <3>1, <3>2, <3>3, Planned
  <2>2. CASE Run("repaired", op.txn, back, None, None)
    <3>1. op' = [kind |-> "repaired", txn |-> op.txn, plan |-> back, tree |-> None,
                 decision |-> None]
      BY <2>2 DEF Run
    <3>2. back \in Seq(Back)
      OBVIOUS
    <3>3. /\ Back \subseteq Steps /\ Back \cap {"clone", "authorize"} = {}
          /\ Back \cap {"reject", "examine"} = {}
          /\ "logRepair" \notin Back /\ "authorize" \notin Back
      BY DEF Steps, ApplySteps
    <3> HIDE DEF back, Back
    <3> QED BY <1>2, <1>5, <1>6, <3>1, <3>2, <3>3, Planned
  <2> QED BY <2>1, <2>2 DEF LogRepairStep
<1>8. ControlKept
  BY <1>1, <1>3, <1>7, Situation, Replanned DEF LogKept
<1> QED BY <1>3, <1>4, <1>8, Assembled

\* The operation waits for the intent to be carried one effect further.
LEMMA IntentParts ==
    ASSUME NEW intent \in Intent
    PROVE  /\ intent.kind \in {"seal", "export", "platform", "archive"}
           /\ intent.kind \in {"seal", "export"} => intent.txn \in Txn /\ intent.clean \in BOOLEAN
           /\ intent.kind \in {"platform", "archive"} => intent.view \in View
<1>1. CASE intent \in [kind : {"seal", "export"}, txn : Txn, clean : BOOLEAN]
  BY <1>1
<1>2. CASE intent \in [kind : {"platform"}, base : View, view : View]
  BY <1>2
<1>3. CASE intent \in [kind : {"archive"}, view : View]
  BY <1>3
<1> QED BY <1>1, <1>2, <1>3 DEF Intent

IntentAdvanced == LogKept /\ DiskTypeOK' /\ (Throw("RECOVERY_REQUIRED") \/ Await)

LEMMA FinishSealAdvances ==
    ASSUME LogInv, DiskTypeOK, NEW intent \in Intent, intent.kind = "seal", FinishSeal(intent)
    PROVE  IntentAdvanced
<1> DEFINE t == intent.txn
<1>1. t \in Txn /\ intent.clean \in BOOLEAN
  BY IntentParts
<1>2. CASE Throw("RECOVERY_REQUIRED") /\ UNCHANGED <<logVars, disk>>
  BY <1>2, LogSame, DiskSame DEF IntentAdvanced
<1>3. CASE /\ candidate' = [candidate EXCEPT ![t] = None]
           /\ UNCHANGED <<logVars, workspace, backup, snapshots, proposal, export,
                          staged, retired, archive>>
           /\ Await
  <2>1. DiskTypeOK'
    BY <1>1, <1>3 DEF DiskTypeOK
  <2> QED BY <1>3, <2>1, LogSame DEF IntentAdvanced
<1>4. CASE /\ proposal[t] # None
           /\ PROPOSAL_SEALED(t, proposal[t], intent.clean) /\ UNCHANGED disk /\ Await
  <2>1. proposal[t] \in Tree
    BY <1>1, <1>4 DEF DiskTypeOK
  <2> QED BY <1>1, <1>4, <2>1, ProposalSealed, DiskSame DEF IntentAdvanced
<1> QED BY <1>2, <1>3, <1>4 DEF FinishSeal

LEMMA FinishExportAdvances ==
    ASSUME LogInv, DiskTypeOK, NEW intent \in Intent, intent.kind = "export",
           FinishExport(intent)
    PROVE  IntentAdvanced
<1> DEFINE t == intent.txn
<1>1. t \in Txn
  BY IntentParts
<1>2. CASE Throw("RECOVERY_REQUIRED") /\ UNCHANGED <<logVars, disk>>
  BY <1>2, LogSame, DiskSame DEF IntentAdvanced
<1>3. CASE /\ export' = [export EXCEPT ![t] = tx[t].artifact]
           /\ UNCHANGED <<logVars, workspace, backup, snapshots, candidate, proposal,
                          staged, retired, archive>>
           /\ Await
  <2>1. tx[t].artifact \in Tree \cup {None}
    BY <1>1, RecordAt DEF Transition
  <2>2. DiskTypeOK'
    BY <1>1, <1>3, <2>1 DEF DiskTypeOK
  <2> QED BY <1>3, <2>2, LogSame DEF IntentAdvanced
<1>4. CASE PROPOSAL_EXPORTED(t) /\ UNCHANGED disk /\ Await
  BY <1>1, <1>4, ProposalExported, DiskSame DEF IntentAdvanced
<1> QED BY <1>2, <1>3, <1>4 DEF FinishExport

LEMMA FinishPlatformAdvances ==
    ASSUME LogInv, DiskTypeOK, NEW intent \in Intent, intent.kind = "platform",
           FinishPlatformRegeneration(intent)
    PROVE  IntentAdvanced
<1>1. intent.view \in View
  BY IntentParts
<1>2. CASE Throw("RECOVERY_REQUIRED") /\ UNCHANGED <<logVars, disk>>
  BY <1>2, LogSame, DiskSame DEF IntentAdvanced
<1>3. CASE /\ PLATFORM_STATE_REGENERATED(intent.view)
           /\ staged' = None /\ retired' = None
           /\ UNCHANGED <<workspace, backup, snapshots, candidate, proposal, export, archive>>
           /\ Await
  <2>1. DiskTypeOK'
    BY <1>3 DEF DiskTypeOK, Dir
  <2> QED BY <1>1, <1>3, <2>1, PlatformStateRegenerated DEF IntentAdvanced
<1>4. CASE /\ IF workspace = None
              THEN workspace' = staged /\ staged' = None /\ UNCHANGED retired
              ELSE retired' = workspace /\ workspace' = None /\ UNCHANGED staged
           /\ UNCHANGED <<logVars, backup, snapshots, candidate, proposal, export, archive>>
           /\ Await
  <2>1. DiskTypeOK'
    BY <1>4 DEF DiskTypeOK, Dir
  <2> QED BY <1>4, <2>1, LogSame DEF IntentAdvanced
<1> QED BY <1>2, <1>3, <1>4 DEF FinishPlatformRegeneration

LEMMA FinishArchiveAdvances ==
    ASSUME LogInv, DiskTypeOK, NEW intent \in Intent, FinishArchive(intent)
    PROVE  IntentAdvanced
<1>1. CASE Throw("RECOVERY_REQUIRED") /\ UNCHANGED <<logVars, disk>>
  BY <1>1, LogSame, DiskSame DEF IntentAdvanced
<1>2. CASE /\ archive' = workspace /\ workspace' = None
           /\ UNCHANGED <<logVars, backup, snapshots, candidate, proposal, export,
                          staged, retired>>
           /\ Await
  <2>1. DiskTypeOK'
    BY <1>2 DEF DiskTypeOK, Dir
  <2> QED BY <1>2, <2>1, LogSame DEF IntentAdvanced
<1>3. CASE AGENT_ARCHIVED /\ UNCHANGED disk /\ Await
  BY <1>3, AgentArchived, DiskSame DEF IntentAdvanced
<1> QED BY <1>1, <1>2, <1>3 DEF FinishArchive

LEMMA FinishIntentStepKept ==
    ASSUME Inductive, FinishIntentStep
    PROVE  Inductive' /\ Kept
<1>1. At("finishIntent") /\ UNCHANGED bounds
  BY DEF FinishIntentStep
<1>2. /\ op.plan # <<>> /\ Head(op.plan) = "finishIntent"
      /\ LogInv /\ DiskTypeOK /\ ControlTypeOK /\ TodoPrepared /\ PlanFits
  BY <1>1, Situation
<1>3. CASE pending = {}
  <2>1. LogKept /\ DiskTypeOK'
    BY <1>2, <1>3, LogSame, DiskSame DEF FinishIntentStep
  <2>2. Go \/ Throw("RECOVERY_REQUIRED")
    BY <1>3 DEF FinishIntentStep
  <2>3. ControlKept
    BY <1>1, <1>2, <2>1, <2>2, WentOn, Threw DEF LogKept, RepairSteps, Reasons
  <2> QED BY <2>1, <2>3, Assembled
<1>4. CASE pending # {}
  <2>1. PICK intent \in pending : \/ intent.kind = "seal" /\ FinishSeal(intent)
                                  \/ intent.kind = "export" /\ FinishExport(intent)
                                  \/ intent.kind = "platform" /\ FinishPlatformRegeneration(intent)
                                  \/ intent.kind = "archive" /\ FinishArchive(intent)
    BY <1>4 DEF FinishIntentStep
  <2>2. intent \in Intent
    BY <1>2 DEF LogInv, LogTypeOK
  <2>3. IntentAdvanced
    BY <1>2, <2>1, <2>2, FinishSealAdvances, FinishExportAdvances, FinishPlatformAdvances,
       FinishArchiveAdvances
  <2>4. ControlKept
    BY <1>1, <1>2, <2>3, Awaited, Threw DEF IntentAdvanced, LogKept, RepairSteps, Reasons
  <2> QED BY <2>3, <2>4, Assembled DEF IntentAdvanced
<1> QED BY <1>3, <1>4
\* What recovery decides to do with a transition.
LEMMA RecoveryPlanned ==
    ASSUME LogInv, NEW t \in Txn, tx[t].state # "NONE", RecoveryPlan(t) # <<>>
    PROVE  \/ RecoveryPlan(t) \in Seq({"dropBackup", "remove", "logDestroyed", "reject", "restore"})
           \/ /\ RecoveryPlan(t) \in Seq({"apply", "snapshot", "ack", "dropBackup", "remove",
                                          "logDestroyed"})
              /\ tx[t].next \in View
<1> DEFINE Back == {"dropBackup", "remove", "logDestroyed", "reject", "restore"}
           Forward == {"apply", "snapshot", "ack", "dropBackup", "remove", "logDestroyed"}
<1>1. tx[t] \in Transition /\ FactsFit(t, tx[t])
  BY RecordAt
<1>2. Finished \in Seq(Back) /\ Finished \in Seq(Forward)
  BY DEF Finished
<1>3. <<"reject">> \in Seq(Back) /\ <<"restore">> \in Seq(Back)
  OBVIOUS
<1>4. Finished \o <<"reject">> \in Seq(Back) /\ Finished \o <<"restore">> \in Seq(Back)
  BY <1>2, <1>3, ConcatProperties
<1>5. ForwardPlan(t) \in Seq(Forward)
  <2>1. /\ <<>> \in Seq(Forward) /\ <<"apply">> \in Seq(Forward)
        /\ <<"snapshot", "ack">> \in Seq(Forward)
    OBVIOUS
  <2> DEFINE first == IF tx[t].state = "APPLIED" THEN <<>> ELSE <<"apply">>
  <2>2. first \in Seq(Forward)
    BY <2>1
  <2>3. ForwardPlan(t) = first \o <<"snapshot", "ack">> \o Finished
    BY DEF ForwardPlan
  <2> HIDE DEF first, Forward
  <2>4. first \o <<"snapshot", "ack">> \in Seq(Forward)
    BY <2>1, <2>2, ConcatProperties
  <2> QED BY <1>2, <2>3, <2>4, ConcatProperties
<1>6. \/ RecoveryPlan(t) \in {Finished, Finished \o <<"reject">>, Finished \o <<"restore">>}
      \/ /\ RecoveryPlan(t) = ForwardPlan(t)
         /\ tx[t].state \notin OpenStates \cup {"ROLLED_BACK", "ACKNOWLEDGED"}
  BY DEF RecoveryPlan
<1>7. tx[t].state \notin OpenStates \cup {"ROLLED_BACK", "ACKNOWLEDGED"} => tx[t].next \in View
  BY <1>1 DEF Transition, FactsFit, States, Bound
<1> HIDE DEF Back, Forward
<1>8. CASE RecoveryPlan(t) \in {Finished, Finished \o <<"reject">>, Finished \o <<"restore">>}
  <2>1. RecoveryPlan(t) \in Seq(Back)
    BY <1>2, <1>4, <1>8
  <2> QED BY <2>1 DEF Back
<1>9. CASE /\ RecoveryPlan(t) = ForwardPlan(t)
           /\ tx[t].state \notin OpenStates \cup {"ROLLED_BACK", "ACKNOWLEDGED"}
  <2>1. RecoveryPlan(t) \in Seq(Forward) /\ tx[t].next \in View
    BY <1>5, <1>7, <1>9
  <2> QED BY <2>1 DEF Forward
<1> QED BY <1>6, <1>8, <1>9

\* recoverAgent goes on with a plan for transition t and then examines the next.
LEMMA Examining ==
    ASSUME ControlTypeOK, op.decision \in NonCommits, NEW t \in Txn,
           NEW S \in SUBSET Steps, NEW plan \in Seq(S),
           op' = [kind |-> op.kind, txn |-> t, plan |-> plan \o <<"examine">>,
                  tree |-> op.tree, decision |-> op.decision],
           S \cap {"clone", "authorize", "logRepair"} = {},
           S \cap NextSteps = {} \/ tx'[t].next \in View
    PROVE  op' \in Operation /\ PlanFits'
<1> DEFINE Q == S \cup {"examine"}
           whole == plan \o <<"examine">>
<1>1. op' = [kind |-> op.kind, txn |-> t, plan |-> whole, tree |-> op.tree,
             decision |-> op.decision]
  OBVIOUS
<1>2. whole \in Seq(Q)
  <2>1. plan \in Seq(Q)
    BY SeqMonotonic
  <2>2. <<"examine">> \in Seq(Q)
    OBVIOUS
  <2> QED BY <2>1, <2>2, ConcatProperties
<1>3. /\ Q \subseteq Steps /\ Q \cap {"clone", "authorize"} = {}
      /\ "logRepair" \notin Q /\ "authorize" \notin Q
  BY DEF Steps
<1>4. Q \cap NextSteps = {} \/ tx'[t].next \in View
  BY DEF NextSteps, ApplySteps
<1>5. op.kind \in Kinds /\ op.tree \in Dir
  BY DEF ControlTypeOK, Operation
<1>6. t \in Txn \cup {None} /\ op.decision \in NonCommits \cup {None} /\ Q \in SUBSET Steps
  BY <1>3
<1> HIDE DEF Q, whole
<1> QED BY <1>1, <1>2, <1>3, <1>4, <1>5, <1>6, Planned

LEMMA ExamineStepKept ==
    ASSUME Inductive, ExamineStep
    PROVE  Inductive' /\ Kept
<1> DEFINE t == Head(todo)
           stay == UNCHANGED <<disk, up, todo, refusal>>
<1>1. At("examine") /\ UNCHANGED <<logVars, bounds>>
  BY DEF ExamineStep
<1>2. /\ op.plan # <<>> /\ op.decision \in NonCommits
      /\ LogInv /\ DiskTypeOK /\ ControlTypeOK /\ TodoPrepared /\ PlanFits
  BY <1>1, Situation
<1>3. LogKept /\ UNCHANGED tx
  BY <1>1, <1>2, LogSame
<1>4. CASE todo = <<>>
  <2>1. op' = [op EXCEPT !.plan = <<"settle">>] /\ stay
    BY <1>4 DEF ExamineStep
  <2>2. DiskTypeOK'
    BY <1>2, <2>1, DiskSame
  <2>3. op' \in Operation /\ PlanFits'
    <3> DEFINE Q == {"settle"}
    <3>1. op' = [kind |-> op.kind, txn |-> op.txn, plan |-> <<"settle">>, tree |-> op.tree,
                 decision |-> op.decision]
      BY <1>2, <2>1 DEF ControlTypeOK, Operation
    <3>2. <<"settle">> \in Seq(Q)
      OBVIOUS
    <3>3. /\ Q \subseteq Steps /\ Q \subseteq TxnFreeSteps /\ Q \cap {"clone", "authorize"} = {}
          /\ Q \cap {"reject", "examine"} = {} /\ Q \cap NextSteps = {}
          /\ "logRepair" \notin Q /\ "authorize" \notin Q
      BY DEF Steps, TxnFreeSteps, NextSteps, ApplySteps
    <3>4. op.kind \in Kinds /\ op.tree \in Dir /\ op.txn \in Txn \cup {None}
      BY <1>2 DEF ControlTypeOK, Operation
    <3> HIDE DEF Q
    <3> QED BY <1>2, <3>1, <3>2, <3>3, <3>4, Planned
  <2>4. ControlKept
    BY <1>1, <1>2, <1>3, <2>1, <2>3, Replanned DEF LogKept
  <2> QED BY <1>3, <2>2, <2>4, Assembled
<1>5. CASE todo # <<>>
  <2>1. t \in Txn /\ tx[t].state # "NONE" /\ Tail(todo) \in Seq(Txn)
    BY <1>2, <1>5, HeadTailProperties DEF ControlTypeOK, TodoPrepared
  <2>2. CASE SwapInterrupted(t)
    <3>1. op' = [op EXCEPT !.txn = t, !.plan = <<"reinstate", "examine">>] /\ stay
      BY <1>5, <2>2 DEF ExamineStep
    <3>2. DiskTypeOK'
      BY <1>2, <3>1, DiskSame
    <3>3. op' \in Operation /\ PlanFits'
      <4> DEFINE Q == {"reinstate"}
      <4>1. <<"reinstate">> \in Seq(Q) /\ <<"reinstate", "examine">> = <<"reinstate">> \o <<"examine">>
        OBVIOUS
      <4>2. Q \subseteq Steps /\ Q \cap {"clone", "authorize", "logRepair"} = {} /\ Q \cap NextSteps = {}
        BY DEF Steps, NextSteps, ApplySteps
      <4>3. op' = [kind |-> op.kind, txn |-> t, plan |-> <<"reinstate", "examine">>,
                   tree |-> op.tree, decision |-> op.decision]
        BY <1>2, <3>1 DEF ControlTypeOK, Operation
      <4> HIDE DEF Q
      <4> QED BY <1>2, <2>1, <4>1, <4>2, <4>3, Examining
    <3>4. ControlKept
      BY <1>1, <1>2, <1>3, <3>1, <3>3, Replanned DEF LogKept
    <3> QED BY <1>3, <3>2, <3>4, Assembled
  <2>3. CASE ~SwapInterrupted(t)
    <3>1. DiskTypeOK'
      <4>1. /\ workspace' \in {workspace, Materialized}
            /\ UNCHANGED <<backup, snapshots, candidate, proposal, export,
                           staged, retired, archive>>
        BY <1>5, <2>3 DEF ExamineStep
      <4> QED BY <1>2, <4>1, MaterializedTyped DEF DiskTypeOK
    <3>2. CASE RecoveryPlan(t) = <<>>
      <4>1. Throw("RECOVERY_REQUIRED")
        BY <1>5, <2>3, <3>2 DEF ExamineStep
      <4>2. ControlKept
        BY <1>1, <1>2, <4>1, Threw DEF Reasons
      <4> QED BY <1>3, <3>1, <4>2, Assembled
    <3>3. CASE RecoveryPlan(t) # <<>>
      <4>1. /\ op' = [op EXCEPT !.txn = t, !.plan = RecoveryPlan(t) \o <<"examine">>]
            /\ todo' = Tail(todo) /\ UNCHANGED <<up, refusal>>
        BY <1>5, <2>3, <3>3 DEF ExamineStep
      <4>2. op' \in Operation /\ PlanFits'
        <5> DEFINE Back == {"dropBackup", "remove", "logDestroyed", "reject", "restore"}
                   Forward == {"apply", "snapshot", "ack", "dropBackup", "remove", "logDestroyed"}
        <5>1. \/ RecoveryPlan(t) \in Seq(Back)
              \/ RecoveryPlan(t) \in Seq(Forward) /\ tx'[t].next \in View
          BY <1>2, <1>3, <2>1, <3>3, RecoveryPlanned
        <5>2. /\ Back \subseteq Steps /\ Forward \subseteq Steps
              /\ Back \cap {"clone", "authorize", "logRepair"} = {}
              /\ Forward \cap {"clone", "authorize", "logRepair"} = {}
              /\ Back \cap NextSteps = {}
          BY DEF Steps, NextSteps, ApplySteps
        <5>3. op' = [kind |-> op.kind, txn |-> t, plan |-> RecoveryPlan(t) \o <<"examine">>,
                     tree |-> op.tree, decision |-> op.decision]
          BY <1>2, <4>1 DEF ControlTypeOK, Operation
        <5> HIDE DEF Back, Forward
        <5> QED BY <1>2, <2>1, <5>1, <5>2, <5>3, Examining
      <4>3. ControlTypeOK'
        BY <1>1, <1>2, <2>1, <4>1, <4>2 DEF ControlTypeOK, bounds
      <4>4. TodoPrepared'
        <5>1. todo \in Seq(Txn) /\ Len(todo) \in Nat
          BY <1>2 DEF ControlTypeOK
        <5>2. /\ DOMAIN todo' = 1..(Len(todo) - 1) /\ DOMAIN todo = 1..Len(todo)
              /\ \A i \in DOMAIN todo' : todo'[i] = todo[i + 1]
          BY <1>5, <4>1, <5>1, HeadTailProperties, LenProperties
        <5>3. \A i \in DOMAIN todo' : i + 1 \in DOMAIN todo
          BY <5>1, <5>2
        <5> QED BY <1>2, <1>3, <5>2, <5>3 DEF TodoPrepared
      <4> QED BY <1>3, <3>1, <4>2, <4>3, <4>4, Assembled DEF ControlKept
    <3> QED BY <3>2, <3>3
  <2> QED BY <2>2, <2>3
<1> QED BY <1>4, <1>5

LEMMA SettleStepKept ==
    ASSUME Inductive, SettleStep
    PROVE  Inductive' /\ Kept
<1>1. At("settle") /\ UNCHANGED <<logVars, disk, bounds>>
  BY DEF SettleStep
<1>2. LogInv /\ DiskTypeOK /\ ControlTypeOK /\ TodoPrepared
  BY <1>1, Situation
<1>3. LogKept /\ DiskTypeOK' /\ UNCHANGED tx
  BY <1>1, <1>2, LogSame, DiskSame
<1>4. CASE /\ op' = Idle /\ UNCHANGED <<todo, refusal>>
           /\ up' = IF up = "starting" THEN "sweeping" ELSE up
  <2>1. op' \in Operation /\ PlanFits'
    BY <1>4, IdlePlanFits
  <2>2. ControlTypeOK' /\ TodoPrepared'
    BY <1>1, <1>2, <1>3, <1>4, <2>1 DEF ControlTypeOK, TodoPrepared, bounds
  <2> QED BY <1>3, <2>1, <2>2, Assembled DEF ControlKept
<1>5. CASE Throw("RECOVERY_REQUIRED")
  BY <1>1, <1>2, <1>3, <1>5, Threw, Assembled DEF Reasons
<1> QED BY <1>4, <1>5 DEF SettleStep

----------------------------------------------------------------------------
(* Requests. *)

\* The situation a request starts from.
LEMMA Asked ==
    ASSUME Inductive, Ready
    PROVE  /\ op = Idle /\ ~corrupt
           /\ LogInv /\ DiskTypeOK /\ ControlTypeOK /\ TodoPrepared /\ PlanFits
           /\ tx \in [Txn -> Transition] /\ head \in View
BY DEF Inductive, Ready, LogInv, LogTypeOK

\* A request answered at once.
LEMMA Answered ==
    ASSUME Inductive, Ready, LogKept, UNCHANGED <<control, bounds>>
    PROVE  ControlKept
<1>1. op' = Idle /\ op' = op /\ UNCHANGED <<up, todo, refusal, bounds>>
  BY Asked DEF control
<1>2. op' \in Operation /\ PlanFits'
  BY <1>1, IdlePlanFits
<1> QED BY <1>1, <1>2, Asked, Replanned DEF LogKept

LEMMA PrepareRunKept ==
    ASSUME Inductive, NEW t \in Txn, PrepareRun(t)
    PROVE  Inductive' /\ Kept
<1> DEFINE Q == {"clone", "prepare"}
<1>1. /\ Ready /\ UNCHANGED <<logVars, disk, up, todo, refusal, bounds>>
      /\ op' = [kind |-> "prepareRun", txn |-> t, plan |-> <<"clone", "prepare">>,
                tree |-> head.tree, decision |-> None]
  BY DEF PrepareRun, Run
<1>2. LogKept /\ DiskTypeOK'
  BY <1>1, Asked, LogSame, DiskSame
<1>3. head.tree \in Tree /\ head.tree \in Dir /\ "prepareRun" \in Kinds
  BY <1>1, Asked DEF View, Dir, Kinds
<1>4. <<"clone", "prepare">> \in Seq(Q)
  OBVIOUS
<1>5. /\ Q \subseteq Steps /\ Q \cap {"reject", "examine"} = {} /\ Q \cap NextSteps = {}
      /\ "logRepair" \notin Q /\ "authorize" \notin Q
  BY DEF Steps, NextSteps, ApplySteps
<1> HIDE DEF Q
<1>6. op' \in Operation /\ PlanFits'
  BY <1>1, <1>3, <1>4, <1>5, Planned
<1> QED BY <1>1, <1>2, <1>6, Asked, Replanned, Assembled DEF LogKept

LEMMA AgentEditsKept ==
    ASSUME Inductive, NEW t \in Txn, NEW tree \in Tree, AgentEdits(t, tree)
    PROVE  Inductive' /\ Kept
<1>1. UNCHANGED <<logVars, control, bounds>>
  BY DEF AgentEdits
<1>2. LogKept /\ UNCHANGED <<tx, head, corrupt>>
  BY <1>1, LogSame DEF Inductive, logVars
<1>3. DiskTypeOK'
  BY DEF Inductive, DiskTypeOK, AgentEdits
<1>4. ControlTypeOK' /\ TodoPrepared'
  BY <1>1, <1>2 DEF Inductive, ControlTypeOK, TodoPrepared, control, bounds
<1>5. (corrupt \/ PlanFits)'
  BY <1>1, <1>2 DEF Inductive, PlanFits, Avoids, Authorizing, control
<1> QED BY <1>2, <1>3, <1>4, <1>5 DEF LogKept, Inductive

LEMMA RecordRuntimeTeardownKept ==
    ASSUME Inductive, NEW t \in Txn, NEW scope \in {"AGENT", "ALL"},
           RecordRuntimeTeardown(t, scope)
    PROVE  Inductive' /\ Kept
<1>1. /\ Ready /\ RUNTIME_TEARDOWN_RECORDED(t, scope)
      /\ UNCHANGED disk /\ UNCHANGED <<control, bounds>>
  BY DEF RecordRuntimeTeardown
<1>2. LogKept /\ DiskTypeOK'
  BY <1>1, Asked, RuntimeTeardownRecorded, DiskSame
<1> QED BY <1>1, <1>2, Answered, Assembled

LEMMA CancelRunKept ==
    ASSUME Inductive, NEW t \in Txn, CancelRun(t)
    PROVE  Inductive' /\ Kept
<1>1. Ready /\ RUN_CANCELLED(t) /\ UNCHANGED disk /\ UNCHANGED <<control, bounds>>
  BY DEF CancelRun
<1>2. LogKept /\ DiskTypeOK'
  BY <1>1, Asked, RunCancelled, DiskSame
<1> QED BY <1>1, <1>2, Answered, Assembled

LEMMA RecordEvidenceKept ==
    ASSUME Inductive, NEW t \in Txn, NEW passed \in BOOLEAN, RecordEvidence(t, passed)
    PROVE  Inductive' /\ Kept
<1>1. Ready /\ EVIDENCE_RECORDED(t, passed) /\ UNCHANGED disk /\ UNCHANGED <<control, bounds>>
  BY DEF RecordEvidence
<1>2. LogKept /\ DiskTypeOK'
  BY <1>1, Asked, EvidenceRecorded, DiskSame
<1> QED BY <1>1, <1>2, Answered, Assembled

LEMMA IssuePermitKept ==
    ASSUME Inductive, NEW t \in Txn, IssuePermit(t)
    PROVE  Inductive' /\ Kept
<1>1. /\ Ready /\ PERMIT_ISSUED(t) /\ UNCHANGED disk /\ UNCHANGED <<control, bounds>>
      /\ tx[t].clean /\ tx[t].passed /\ TeardownRecorded(t, "ALL")
  BY DEF IssuePermit
<1>2. LogKept /\ DiskTypeOK'
  BY <1>1, Asked, PermitIssued, DiskSame
<1> QED BY <1>1, <1>2, Answered, Assembled

LEMMA PrepareKept ==
    ASSUME Inductive, NEW t \in Txn, Prepare(t)
    PROVE  Inductive' /\ Kept
<1>1. Ready /\ TRANSITION_PREPARED(t) /\ UNCHANGED disk /\ UNCHANGED <<control, bounds>>
  BY DEF Prepare
<1>2. LogKept /\ DiskTypeOK'
  BY <1>1, Asked, TransitionPrepared, DiskSame
<1> QED BY <1>1, <1>2, Answered, Assembled

\* The requests whose plan carries intents to their completion.
LEMMA IntentPlanned ==
    ASSUME ControlTypeOK, TodoPrepared, Kept, UNCHANGED <<up, todo, refusal, bounds>>,
           NEW kind \in Kinds, NEW t \in Txn \cup {None},
           Run(kind, t, <<"finishIntent">>, None, None)
    PROVE  ControlKept
<1> DEFINE Q == {"finishIntent"}
<1>1. op' = [kind |-> kind, txn |-> t, plan |-> <<"finishIntent">>, tree |-> None,
             decision |-> None]
  BY DEF Run
<1>2. <<"finishIntent">> \in Seq(Q) /\ None \in Dir
  BY DEF Dir
<1>3. /\ Q \subseteq Steps /\ Q \subseteq TxnFreeSteps /\ Q \cap {"clone", "authorize"} = {}
      /\ Q \cap {"reject", "examine"} = {} /\ Q \cap NextSteps = {}
      /\ "logRepair" \notin Q /\ "authorize" \notin Q
  BY DEF Steps, TxnFreeSteps, NextSteps, ApplySteps
<1> HIDE DEF Q
<1>4. op' \in Operation /\ PlanFits'
  BY <1>1, <1>2, <1>3, Planned
<1> QED BY <1>4, Replanned

LEMMA RecoverPendingWorkerIntentsKept ==
    ASSUME Inductive, RecoverPendingWorkerIntents
    PROVE  Inductive' /\ Kept
<1>1. /\ Ready /\ Run("intents", None, <<"finishIntent">>, None, None)
      /\ UNCHANGED <<logVars, disk, up, todo, refusal, bounds>>
  BY DEF RecoverPendingWorkerIntents
<1>2. LogKept /\ DiskTypeOK'
  BY <1>1, Asked, LogSame, DiskSame
<1>3. ControlKept
  BY <1>1, <1>2, Asked, IntentPlanned DEF LogKept, Kinds
<1> QED BY <1>2, <1>3, Assembled

LEMMA ExportProposalKept ==
    ASSUME Inductive, NEW t \in Txn, ExportProposal(t)
    PROVE  Inductive' /\ Kept
<1> DEFINE intent == [kind |-> "export", txn |-> t, clean |-> TRUE]
<1>1. /\ Ready /\ Run("export", t, <<"finishIntent">>, None, None)
      /\ INTENT_PREPARED(intent) /\ UNCHANGED <<disk, up, todo, refusal, bounds>>
  BY DEF ExportProposal
<1>2. intent \in Intent
  BY DEF Intent
<1>3. LogKept /\ DiskTypeOK'
  BY <1>1, <1>2, Asked, IntentPrepared, DiskSame
<1>4. ControlKept
  BY <1>1, <1>3, Asked, IntentPlanned DEF LogKept, Kinds
<1> QED BY <1>3, <1>4, Assembled

LEMMA ArchiveAgentKept ==
    ASSUME Inductive, ArchiveAgent
    PROVE  Inductive' /\ Kept
<1> DEFINE intent == [kind |-> "archive", view |-> head]
<1>1. /\ Ready /\ Run("archive", None, <<"finishIntent">>, None, None)
      /\ INTENT_PREPARED(intent) /\ UNCHANGED <<disk, up, todo, refusal, bounds>>
  BY DEF ArchiveAgent
<1>2. intent \in Intent
  BY <1>1, Asked DEF Intent
<1>3. LogKept /\ DiskTypeOK'
  BY <1>1, <1>2, Asked, IntentPrepared, DiskSame
<1>4. ControlKept
  BY <1>1, <1>3, Asked, IntentPlanned DEF LogKept, Kinds
<1> QED BY <1>3, <1>4, Assembled

LEMMA RegeneratePlatformStateKept ==
    ASSUME Inductive, NEW p \in Platform, RegeneratePlatformState(p)
    PROVE  Inductive' /\ Kept
<1> DEFINE tree == [workspace EXCEPT !.p = p]
           view == [ver |-> head.ver, gen |-> head.gen + 1, tree |-> tree,
                    epoch |-> head.epoch + 1, cfg |-> head.cfg + 1]
           intent == [kind |-> "platform", base |-> head, view |-> view]
<1>1. /\ Ready /\ CurrentCas(head) /\ staged' = tree /\ INTENT_PREPARED(intent)
      /\ Run("platform", None, <<"finishIntent">>, None, None)
      /\ UNCHANGED <<workspace, backup, snapshots, candidate, proposal, export,
                     retired, archive, up, todo, refusal, bounds>>
  BY DEF RegeneratePlatformState
<1>2. head \in View /\ head.tree \in Tree
  BY <1>1, Asked DEF View
<1>3. workspace = head.tree
  BY <1>1, <1>2, WorkerAssumption DEF CurrentCas, Materialized
<1>4. tree \in Tree
  BY <1>2, <1>3 DEF Tree
<1> HIDE DEF tree
<1>5. view \in View
  BY <1>2, <1>4 DEF View
<1> HIDE DEF view
<1>6. intent \in Intent
  BY <1>2, <1>5 DEF Intent
<1>7. LogKept
  BY <1>1, <1>6, Asked, IntentPrepared
<1>8. DiskTypeOK'
  BY <1>1, <1>4, Asked DEF DiskTypeOK, Dir
<1>9. ControlKept
  BY <1>1, <1>7, Asked, IntentPlanned DEF LogKept, Kinds
<1> QED BY <1>7, <1>8, <1>9, Assembled

LEMMA SealProposalKept ==
    ASSUME Inductive, NEW t \in Txn, SealProposal(t)
    PROVE  Inductive' /\ Kept
<1> DEFINE Q == {"importProposal", "logSeal", "logFlawed", "finishIntent"}
<1>1. PICK step \in {"logSeal", "logFlawed"} :
        op' = [kind |-> "seal", txn |-> t, plan |-> <<"importProposal", step, "finishIntent">>,
               tree |-> candidate[t], decision |-> None]
  BY DEF SealProposal, Run
<1>7. Ready /\ UNCHANGED <<logVars, disk, up, todo, refusal, bounds>>
  BY DEF SealProposal
<1>2. LogKept /\ DiskTypeOK'
  BY <1>7, Asked, LogSame, DiskSame
<1>3. candidate[t] \in Dir /\ "seal" \in Kinds
  BY <1>7, Asked DEF DiskTypeOK, Dir, Kinds
<1>4. <<"importProposal", step, "finishIntent">> \in Seq(Q)
  OBVIOUS
<1>5. /\ Q \subseteq Steps /\ Q \cap {"reject", "examine"} = {} /\ Q \cap NextSteps = {}
      /\ Q \cap {"clone", "authorize"} = {} /\ "logRepair" \notin Q /\ "authorize" \notin Q
  BY DEF Steps, NextSteps, ApplySteps
<1> HIDE DEF Q
<1>6. op' \in Operation /\ PlanFits'
  BY <1>1, <1>3, <1>4, <1>5, Planned
<1> QED BY <1>2, <1>6, <1>7, Asked, Replanned, Assembled DEF LogKept
LEMMA ApplyPromotionKept ==
    ASSUME Inductive, NEW t \in Txn, ApplyPromotion(t)
    PROVE  Inductive' /\ Kept
<1> DEFINE next == NextView(t, tx[t].artifact, 0)
<1>1. /\ Ready /\ HoldsPermit(t) /\ head.gen = tx[t].base.gen
      /\ PERMIT_CONSUMING(t, next) /\ Run("apply", t, SwapAndAcknowledge, None, None)
      /\ UNCHANGED <<disk, up, todo, refusal, bounds>>
  BY DEF ApplyPromotion
<1>2. tx[t] \in Transition /\ FactsFit(t, tx[t]) /\ head \in View
  BY <1>1, Asked, RecordAt
<1>3. tx[t].artifact \in Tree
  BY <1>1, <1>2 DEF HoldsPermit, FactsFit, Sealed
<1>4. /\ next \in View /\ next.tree = tx[t].artifact /\ next.gen = tx[t].base.gen + 1
  BY <1>1, <1>2, <1>3 DEF NextView, View
<1> HIDE DEF next
<1>5. LogKept /\ DiskTypeOK'
  BY <1>1, <1>4, Asked, PermitConsuming, DiskSame
<1>6. tx'[t].next \in View
  <2>1. tx' = [tx EXCEPT ![t] = [tx[t] EXCEPT !.state = "CONSUMING", !.permit = "CONSUMING",
                                              !.next = next]]
    BY <1>1 DEF PERMIT_CONSUMING, Fold, Update, HoldsPermit
  <2>2. tx'[t].next = next
    BY <1>1, <1>2, <2>1, Asked DEF Transition
  <2> QED BY <1>4, <2>2
<1>7. ControlKept
  BY <1>1, <1>5, <1>6, Asked, Applying DEF LogKept
<1> QED BY <1>5, <1>7, Assembled

\* The requests whose plan ends in a decision or the removal of the artifacts.
LEMMA DispositionPlanned ==
    ASSUME ControlTypeOK, TodoPrepared, Kept, UNCHANGED <<up, todo, refusal, bounds>>,
           NEW kind \in Kinds, NEW t \in Txn, NEW decision \in NonCommits \cup {None},
           NEW Q, Q \subseteq {"reject", "remove", "logDestroyed"}, NEW plan \in Seq(Q),
           "reject" \notin Q \/ decision \in NonCommits,
           Run(kind, t, plan, None, decision)
    PROVE  ControlKept
<1>1. op' = [kind |-> kind, txn |-> t, plan |-> plan, tree |-> None, decision |-> decision]
  BY DEF Run
<1>2. None \in Dir
  BY DEF Dir
<1>3. /\ Q \in SUBSET Steps /\ Q \cap {"clone", "authorize"} = {} /\ Q \cap NextSteps = {}
      /\ Q \cap {"reject", "examine"} = {} \/ decision \in NonCommits
      /\ "logRepair" \notin Q /\ "authorize" \notin Q
  BY DEF Steps, NextSteps, ApplySteps
<1>4. op' \in Operation /\ PlanFits'
  BY <1>1, <1>2, <1>3, Planned
<1> QED BY <1>4, Replanned

LEMMA PromotionCasConflictKept ==
    ASSUME Inductive, NEW t \in Txn, PromotionCasConflict(t)
    PROVE  Inductive' /\ Kept
<1> DEFINE Q == {"reject", "remove", "logDestroyed"}
           plan == <<"reject", "remove", "logDestroyed">>
<1>1. /\ Ready /\ Run("conflict", t, plan, None, "CONFLICTED")
      /\ UNCHANGED <<logVars, disk, up, todo, refusal, bounds>>
  BY DEF PromotionCasConflict
<1>2. LogKept /\ DiskTypeOK'
  BY <1>1, Asked, LogSame, DiskSame
<1>3. plan \in Seq(Q) /\ "CONFLICTED" \in NonCommits /\ "conflict" \in Kinds
  BY DEF NonCommits, Kinds
<1> HIDE DEF plan
<1>4. ControlKept
  BY <1>1, <1>2, <1>3, Asked, DispositionPlanned DEF LogKept
<1> QED BY <1>2, <1>4, Assembled

LEMMA DisposeRunKept ==
    ASSUME Inductive, NEW t \in Txn, NEW decision \in Dispositions, DisposeRun(t, decision)
    PROVE  Inductive' /\ Kept
<1> DEFINE Q == {"reject", "remove", "logDestroyed"}
           plan == <<"remove", "logDestroyed", "reject">>
<1>1. /\ Ready /\ Run("dispose", t, plan, None, decision)
      /\ UNCHANGED <<logVars, disk, up, todo, refusal, bounds>>
  BY DEF DisposeRun
<1>2. LogKept /\ DiskTypeOK'
  BY <1>1, Asked, LogSame, DiskSame
<1>3. plan \in Seq(Q) /\ decision \in NonCommits /\ "dispose" \in Kinds
  BY WorkerAssumption DEF Kinds
<1> HIDE DEF plan
<1>4. ControlKept
  BY <1>1, <1>2, <1>3, Asked, DispositionPlanned DEF LogKept
<1> QED BY <1>2, <1>4, Assembled

LEMMA DisposeReplayKept ==
    ASSUME Inductive, NEW t \in Txn, DisposeReplay(t)
    PROVE  Inductive' /\ Kept
<1> DEFINE Q == {"remove", "logDestroyed"}
           plan == <<"remove", "logDestroyed">>
<1>1. /\ Ready /\ Run("cleanup", t, plan, None, None)
      /\ UNCHANGED <<logVars, disk, up, todo, refusal, bounds>>
  BY DEF DisposeReplay
<1>2. LogKept /\ DiskTypeOK'
  BY <1>1, Asked, LogSame, DiskSame
<1>3. plan \in Seq(Q) /\ "cleanup" \in Kinds
  BY DEF Kinds
<1> HIDE DEF plan
<1>4. ControlKept
  BY <1>1, <1>2, <1>3, Asked, DispositionPlanned DEF LogKept
<1> QED BY <1>2, <1>4, Assembled

LEMMA ApplyRollbackKept ==
    ASSUME Inductive, NEW t \in Txn, NEW tree \in Tree, ApplyRollback(t, tree)
    PROVE  Inductive' /\ Kept
<1> DEFINE Q == {"authorize"}
           plan == <<"authorize", "authorize", "authorize", "authorize">>
<1>1. /\ Ready /\ ~IsRun(t) /\ tx[t].state = "PREPARED" /\ CurrentCas(tx[t].base)
      /\ op' = [kind |-> "rollback", txn |-> t, plan |-> plan, tree |-> tree, decision |-> None]
      /\ UNCHANGED <<logVars, disk, up, todo, refusal, bounds>>
  BY DEF ApplyRollback, Run
<1>2. LogKept /\ DiskTypeOK' /\ UNCHANGED <<tx, head>>
  BY <1>1, Asked, LogSame, DiskSame DEF logVars
<1>3. plan \in Seq(Q) /\ Q = {"authorize"}
  OBVIOUS
<1>4. tree \in Dir /\ "rollback" \in Kinds
  BY DEF Dir, Kinds
<1>5. /\ Q \subseteq Steps /\ Q \cap {"reject", "examine"} = {} /\ Q \cap NextSteps = {}
      /\ "logRepair" \notin Q
  BY DEF Steps, NextSteps, ApplySteps
<1>6. tx'[t].base = head' /\ tx'[t].state = "PREPARED"
  BY <1>1, <1>2 DEF CurrentCas
<1> HIDE DEF Q, plan
<1>7. op' \in Operation /\ PlanFits'
  BY <1>1, <1>3, <1>4, <1>5, <1>6, Planned
<1> QED BY <1>1, <1>2, <1>7, Asked, Replanned, Assembled DEF LogKept

\* RepairRollback and RepairForward.
LEMMA RepairKept ==
    ASSUME Inductive, NEW t \in Txn, RepairRequest(t), NEW plan \in Seq(RepairSteps),
           NEW decision \in NonCommits \cup {None},
           Run("repair", t, plan, Materialized, decision)
    PROVE  Inductive' /\ Kept
<1>1. /\ Ready /\ tx[t].state \in {"CONSUMING", "APPLIED"} /\ workspace' = Materialized
      /\ UNCHANGED <<logVars, backup, snapshots, candidate, proposal, export,
                     staged, retired, archive, up, todo, refusal, bounds>>
      /\ op' = [kind |-> "repair", txn |-> t, plan |-> plan, tree |-> Materialized,
                decision |-> decision]
  BY DEF RepairRequest, Run
<1>2. LogKept /\ UNCHANGED tx
  BY <1>1, Asked, LogSame
<1>3. Materialized \in Dir
  BY <1>1, Asked, MaterializedTyped
<1>4. DiskTypeOK'
  BY <1>1, <1>3, Asked DEF DiskTypeOK
<1>5. tx'[t].next \in View /\ tx'[t].state \in {"CONSUMING", "APPLIED"}
  BY <1>1, <1>2, Asked, RecordAt DEF FactsFit, Bound, CrossingStates
<1>6. /\ RepairSteps \in SUBSET Steps /\ RepairSteps \cap {"clone", "authorize"} = {}
      /\ RepairSteps \cap {"reject", "examine"} = {} /\ "authorize" \notin RepairSteps
      /\ "repair" \in Kinds
  BY DEF RepairSteps, Steps, ApplySteps, Kinds
<1>7. op' \in Operation /\ PlanFits'
  BY <1>1, <1>3, <1>5, <1>6, Planned
<1> QED BY <1>1, <1>2, <1>4, <1>7, Asked, Replanned, Assembled DEF LogKept

LEMMA RepairRollbackKept ==
    ASSUME Inductive, NEW t \in Txn, RepairRollback(t)
    PROVE  Inductive' /\ Kept
<1> DEFINE plan == <<"evict", "reinstate", "logRepair">>
<1>1. RepairRequest(t) /\ Run("repair", t, plan, Materialized, "ABORTED")
  BY DEF RepairRollback
<1>2. plan \in Seq(RepairSteps) /\ "ABORTED" \in NonCommits \cup {None}
  BY DEF RepairSteps, NonCommits
<1> HIDE DEF plan
<1> QED BY <1>1, <1>2, RepairKept

LEMMA RepairForwardKept ==
    ASSUME Inductive, NEW t \in Txn, RepairForward(t)
    PROVE  Inductive' /\ Kept
<1> DEFINE plan == IF Materialized = tx[t].next.tree
                   THEN <<"logRepair">> ELSE <<"backup", "logBackup", "swap", "logRepair">>
<1>1. RepairRequest(t) /\ Run("repair", t, plan, Materialized, None)
  BY DEF RepairForward
<1>2. <<"logRepair">> \in Seq(RepairSteps)
  BY DEF RepairSteps
<1>3. <<"backup", "logBackup", "swap", "logRepair">> \in Seq(RepairSteps)
  BY DEF RepairSteps
<1>4. plan \in Seq(RepairSteps)
  BY <1>2, <1>3
<1> HIDE DEF plan
<1> QED BY <1>1, <1>4, RepairKept

LEMMA ProbeWorkspaceKept ==
    ASSUME Inductive, ProbeWorkspace
    PROVE  Inductive' /\ Kept
<1>1. /\ Ready /\ workspace' = Materialized /\ UNCHANGED <<control, bounds>>
      /\ UNCHANGED <<logVars, backup, snapshots, candidate, proposal, export,
                     staged, retired, archive>>
  BY DEF ProbeWorkspace
<1>2. LogKept
  BY <1>1, Asked, LogSame
<1>3. DiskTypeOK'
  BY <1>1, Asked, MaterializedTyped DEF DiskTypeOK
<1> QED BY <1>1, <1>2, <1>3, Answered, Assembled

----------------------------------------------------------------------------
(* Recovery, crashes, I/O errors and drift. *)

LEMMA BeginRecoveryKept ==
    ASSUME Inductive, BeginRecovery, up' \in {"down", "starting", "sweeping", "serving"}
    PROVE  Inductive' /\ Kept
<1> DEFINE Q == {"finishIntent", "examine"}
           plan == <<"finishIntent", "examine">>
<1>1. /\ todo' = order /\ refusal' = "none" /\ UNCHANGED <<logVars, disk, bounds>>
      /\ op' = [kind |-> "recover", txn |-> None, plan |-> plan, tree |-> None,
                decision |-> "ABORTED"]
  BY DEF BeginRecovery, Run
<1>2. LogInv /\ DiskTypeOK /\ ControlTypeOK /\ order \in Seq(Txn) /\ OrderPrepared
  BY DEF Inductive, LogInv, LogTypeOK
<1>3. LogKept /\ DiskTypeOK' /\ UNCHANGED tx
  BY <1>1, <1>2, LogSame, DiskSame
<1>4. plan \in Seq(Q)
  OBVIOUS
<1>5. /\ Q \subseteq Steps /\ Q \subseteq TxnFreeSteps /\ Q \cap {"clone", "authorize"} = {}
      /\ Q \cap NextSteps = {} /\ "logRepair" \notin Q /\ "authorize" \notin Q
  BY DEF Steps, TxnFreeSteps, NextSteps, ApplySteps
<1>6. "recover" \in Kinds /\ None \in Dir /\ "ABORTED" \in NonCommits
  BY DEF Kinds, Dir, NonCommits
<1> HIDE DEF Q, plan
<1>7. op' \in Operation /\ PlanFits'
  BY <1>1, <1>4, <1>5, <1>6, Planned
<1>8. ControlTypeOK'
  BY <1>1, <1>2, <1>7 DEF ControlTypeOK, bounds
<1>9. TodoPrepared'
  BY <1>1, <1>2, <1>3 DEF TodoPrepared, OrderPrepared
<1> QED BY <1>3, <1>7, <1>8, <1>9, Assembled DEF ControlKept

LEMMA CrashKept ==
    ASSUME Inductive, Crash
    PROVE  Inductive' /\ Kept
<1>1. /\ crashes' = crashes + 1 /\ up' = "down" /\ op' = Idle /\ todo' = <<>>
      /\ UNCHANGED <<refusal, faults, drifts>> /\ UNCHANGED logVars /\ UNCHANGED disk
  BY DEF Crash
<1>2. LogInv /\ DiskTypeOK /\ ControlTypeOK
  BY DEF Inductive
<1>3. LogKept /\ DiskTypeOK'
  BY <1>1, <1>2, LogSame, DiskSame
<1>4. op' \in Operation /\ PlanFits'
  BY <1>1, IdlePlanFits
<1>5. ControlTypeOK' /\ TodoPrepared'
  BY <1>1, <1>2, <1>4, EmptySeq DEF ControlTypeOK, TodoPrepared
<1> QED BY <1>3, <1>4, <1>5, Assembled DEF ControlKept

LEMMA SweepKept ==
    ASSUME Inductive, Sweep
    PROVE  Inductive' /\ Kept
<1>1. /\ up' = up \/ up' = "serving"
      /\ UNCHANGED <<op, todo, refusal, bounds>> /\ UNCHANGED logVars
  BY DEF Sweep
<1>2. LogKept /\ UNCHANGED <<tx, head, corrupt>>
  BY <1>1, LogSame DEF Inductive, logVars
<1>3. DiskTypeOK'
  BY DEF Inductive, DiskTypeOK, Sweep
<1>4. ControlTypeOK' /\ TodoPrepared'
  BY <1>1, <1>2 DEF Inductive, ControlTypeOK, TodoPrepared, bounds
<1>5. (corrupt \/ PlanFits)'
  BY <1>1, <1>2 DEF Inductive, PlanFits, Avoids, Authorizing
<1> QED BY <1>2, <1>3, <1>4, <1>5 DEF LogKept, Inductive

LEMMA InitializeThrowsKept ==
    ASSUME Inductive, InitializeThrows
    PROVE  Inductive' /\ Kept
<1>1. /\ up' = "down" /\ UNCHANGED <<op, todo, refusal, bounds>>
      /\ UNCHANGED logVars /\ UNCHANGED disk
  BY DEF InitializeThrows
<1>2. LogKept /\ UNCHANGED <<tx, head, corrupt>>
  BY <1>1, LogSame DEF Inductive, logVars
<1>3. DiskTypeOK'
  BY <1>1, DiskSame DEF Inductive
<1>4. ControlTypeOK' /\ TodoPrepared'
  BY <1>1, <1>2 DEF Inductive, ControlTypeOK, TodoPrepared, bounds
<1>5. (corrupt \/ PlanFits)'
  BY <1>1, <1>2 DEF Inductive, PlanFits, Avoids, Authorizing
<1> QED BY <1>2, <1>3, <1>4, <1>5 DEF LogKept, Inductive

LEMMA DriftKept ==
    ASSUME Inductive, NEW tree \in Tree, Drift(tree)
    PROVE  Inductive' /\ Kept
<1>1. UNCHANGED <<logVars, control, crashes, faults>> /\ drifts' = drifts + 1
  BY DEF Drift
<1>2. LogKept /\ UNCHANGED <<tx, head, corrupt>>
  BY <1>1, LogSame DEF Inductive, logVars
<1>3. DiskTypeOK'
  BY DEF Inductive, DiskTypeOK, Drift, Dir
<1>4. ControlTypeOK' /\ TodoPrepared'
  BY <1>1, <1>2 DEF Inductive, ControlTypeOK, TodoPrepared, control
<1>5. (corrupt \/ PlanFits)'
  BY <1>1, <1>2 DEF Inductive, PlanFits, Avoids, Authorizing, control
<1> QED BY <1>2, <1>3, <1>4, <1>5 DEF LogKept, Inductive

LEMMA FaultKept ==
    ASSUME Inductive, Fault
    PROVE  Inductive' /\ Kept
<1> DEFINE skipped == [op EXCEPT !.plan = Tail(@)]
<1>1. /\ op.plan # <<>> /\ ~corrupt /\ faults' = faults + 1
      /\ UNCHANGED <<crashes, drifts>> /\ UNCHANGED logVars
      /\ UNCHANGED <<snapshots, candidate, proposal, export, staged, retired, archive>>
  BY DEF Fault
<1>2. LogInv /\ DiskTypeOK /\ ControlTypeOK /\ TodoPrepared /\ PlanFits
  BY <1>1 DEF Inductive
<1>3. LogKept /\ UNCHANGED <<tx, head>>
  BY <1>1, <1>2, LogSame DEF logVars
<1>4. DiskTypeOK'
  <2>1. CASE Head(op.plan) = "swap"
    <3>1. op.txn \in Txn
      BY <1>1, <1>2, <2>1, FirstStep DEF TxnFreeSteps
    <3>2. /\ workspace' = backup[op.txn]
          /\ backup' = [backup EXCEPT ![op.txn] = None]
      BY <2>1 DEF Fault
    <3> QED BY <1>1, <1>2, <3>1, <3>2 DEF DiskTypeOK, Dir
  <2>2. CASE Head(op.plan) # "swap"
    BY <1>1, <1>2, <2>2 DEF DiskTypeOK, Fault
  <2> QED BY <2>1, <2>2
<1>5. ControlTypeOK' /\ TodoPrepared' /\ PlanFits'
  <2>1. op' \in Operation /\ PlanFits'
    <3>1. CASE op' = Idle
      BY <3>1, IdlePlanFits
    <3>2. CASE Head(op.plan) = "dropBackup" /\ op' = skipped
      BY <1>1, <1>2, <1>3, <3>2, Skipped DEF LogKept, RepairSteps
    <3>3. CASE Undo /\ Head(op.plan) \in ApplySteps
      <4>1. op.txn \in Txn
        BY <1>1, <1>2, <3>3, FirstStep DEF ApplySteps, TxnFreeSteps
      <4> QED BY <1>2, <3>3, <4>1, Undone
    <3> QED BY <3>1, <3>2, <3>3 DEF Fault, Fail, Throw
  <2>2. \/ todo' = todo
        \/ todo' = <<>>
    BY DEF Fault, Fail, Throw
  <2>3. up' \in {"down", "starting", "sweeping", "serving"} /\ refusal' \in Reasons \cup {"none"}
    BY <1>2 DEF Fault, Fail, Throw, ControlTypeOK, Reasons
  <2>4. todo' \in Seq(Txn) /\ TodoPrepared'
    <3>1. CASE todo' = todo
      BY <1>2, <1>3, <3>1 DEF ControlTypeOK, TodoPrepared
    <3>2. CASE todo' = <<>>
      BY <3>2, EmptySeq DEF TodoPrepared
    <3> QED BY <2>2, <3>1, <3>2
  <2>5. ControlTypeOK'
    BY <1>1, <1>2, <2>1, <2>3, <2>4 DEF ControlTypeOK, Reasons
  <2> QED BY <2>1, <2>4, <2>5
<1> QED BY <1>3, <1>4, <1>5, Assembled DEF ControlKept

----------------------------------------------------------------------------
(* The invariant and what follows from it. *)

LEMMA InitInductive ==
    ASSUME Init
    PROVE  Inductive
<1>1. InitialView \in View /\ InitialTree \in Tree
  BY LogAssumption DEF InitialView, View, Tree
<1>2. Unprepared \in Transition
  BY DEF Unprepared, Transition, States, PermitStates
<1>3. tx \in [Txn -> Transition] /\ \A t \in Txn : tx[t] = Unprepared
  BY <1>2 DEF Init, LogInit
<1>4. LogTypeOK
  BY <1>1, <1>3, EmptySeq DEF Init, LogInit, LogTypeOK
<1>5. TransitionsFit
  <2>1. Unprepared.state = "NONE" /\ Unprepared.permit = "NONE"
    BY DEF Unprepared
  <2>2. \A t \in Txn : FactsFit(t, Unprepared)
    BY <2>1 DEF FactsFit, Sealed, Bound, CrossingStates
  <2>3. PermitFits(Unprepared)
    BY <2>1 DEF PermitFits, CrossingStates
  <2> QED BY <1>3, <2>2, <2>3 DEF TransitionsFit
<1>6. receipts = <<>> /\ order = <<>> /\ todo = <<>> /\ op = Idle
  BY DEF Init, LogInit
<1>7. ReceiptsFitState /\ OrderPrepared /\ TodoPrepared
  BY <1>3, <1>6 DEF ReceiptsFitState, OrderPrepared, TodoPrepared, Unprepared
<1>8. DiskTypeOK
  BY <1>1 DEF Init, DiskTypeOK, Dir
<1>9. op.plan = <<>> /\ op.plan \in Seq(TxnFreeSteps) /\ \A S : op.plan \in Seq(Steps \ S)
  BY <1>6, EmptySeq DEF Idle
<1>10. op \in Operation
  BY <1>6, EmptySeq DEF Idle, Operation, Kinds, Dir
<1>11. ControlTypeOK
  BY <1>10, EmptySeq DEF Init, ControlTypeOK
<1>12. PlanFits
  BY <1>9 DEF PlanFits, Avoids
<1> QED BY <1>4, <1>5, <1>7, <1>8, <1>11, <1>12 DEF Inductive, LogInv

LEMMA StepKept ==
    ASSUME Inductive, Step
    PROVE  Inductive' /\ Kept
<1>1. RejectStep => At(IF FALSE THEN "restore" ELSE "reject") /\ DisposeStep(FALSE)
  BY DEF RejectStep
<1>2. RestoreStep => At(IF TRUE THEN "restore" ELSE "reject") /\ DisposeStep(TRUE)
  BY DEF RestoreStep
<1>3. RejectStep \/ RestoreStep => Inductive' /\ Kept
  BY <1>1, <1>2, DisposeStepKept
<1> QED BY <1>3, CloneStepKept, PrepareStepKept, ImportProposalStepKept, LogSealStepKept, AuthorizeStepKept,
           BackupStepKept, LogBackupStepKept, SwapStepKept, SnapshotStepKept, ApplyStepKept,
           AckStepKept, DropBackupStepKept, RemoveStepKept, LogDestroyedStepKept,
           EvictStepKept, ReinstateStepKept, LogRepairStepKept, FinishIntentStepKept,
           ExamineStepKept, SettleStepKept DEF Step

LEMMA RequestKept ==
    ASSUME Inductive, NEW t \in Txn, Request(t)
    PROVE  Inductive' /\ Kept
BY PrepareRunKept, CancelRunKept, SealProposalKept, ExportProposalKept,
   RecordRuntimeTeardownKept, RecordEvidenceKept, IssuePermitKept, ApplyPromotionKept,
   PromotionCasConflictKept, PrepareKept, ApplyRollbackKept, DisposeRunKept,
   DisposeReplayKept, RepairRollbackKept, RepairForwardKept DEF Request

LEMMA NextInductive ==
    ASSUME Inductive, [Next]_vars
    PROVE  Inductive' /\ Kept
<1>1. CASE UNCHANGED vars
  <2>1. UNCHANGED <<logVars, disk, control, bounds>>
    BY <1>1 DEF vars
  <2>2. LogKept /\ UNCHANGED <<tx, head, corrupt>>
    BY <2>1, LogSame DEF Inductive, logVars
  <2>3. DiskTypeOK'
    BY <2>1, DiskSame DEF Inductive
  <2>4. ControlTypeOK' /\ TodoPrepared'
    BY <2>1, <2>2 DEF Inductive, ControlTypeOK, TodoPrepared, control, bounds
  <2>5. (corrupt \/ PlanFits)'
    BY <2>1, <2>2 DEF Inductive, PlanFits, Avoids, Authorizing, control
  <2> QED BY <2>2, <2>3, <2>4, <2>5 DEF LogKept, Inductive
<1>2. ASSUME NEW t \in Txn, Request(t) PROVE Inductive' /\ Kept
  BY <1>2, RequestKept
<1>3. RecoverAgent \/ Start => Inductive' /\ Kept
  <2>1. RecoverAgent \/ Start => BeginRecovery /\ up' \in {"down", "starting", "sweeping", "serving"}
    BY DEF RecoverAgent, Start, Inductive, ControlTypeOK
  <2> QED BY <2>1, BeginRecoveryKept
<1> QED BY <1>1, <1>2, <1>3, AgentEditsKept, RecoverPendingWorkerIntentsKept,
           RegeneratePlatformStateKept, ArchiveAgentKept, ProbeWorkspaceKept, StepKept,
           FaultKept, CrashKept, SweepKept, InitializeThrowsKept, DriftKept DEF Next

\* Inductive is an invariant of every behaviour, under no condition.
THEOREM Invariance == Spec => []Inductive
<1>1. Init => Inductive
  BY InitInductive
<1>2. Inductive /\ [Next]_vars => Inductive'
  BY NextInductive
<1> QED BY <1>1, <1>2, PTL DEF Spec

\* Every variable always holds a value of its kind.
THEOREM TypeCorrect == Spec => []TypeOK
<1>1. Inductive => TypeOK
  BY DEF Inductive, LogInv, TypeOK
<1> QED BY <1>1, Invariance, PTL

\* One-shot authority (projection.ts, the terminal-receipt and permit rules):
\* whatever is interrupted, a transition gets at most one receipt, and its
\* permit is consumed exactly by a commit.
THEOREM OneShotAuthority == Spec => []OneShot
<1>1. ASSUME Inductive PROVE OneShot
  <2>1. LogInv
    BY <1>1 DEF Inductive
  <2>2. \A i, j \in DOMAIN receipts : receipts[i].txn = receipts[j].txn => i = j
    BY <2>1 DEF LogInv, ReceiptsFitState
  <2>3. ASSUME NEW t \in Txn
        PROVE  tx[t].permit = "CONSUMED" <=> Committed(t)
    <3>1. tx[t].permit = "CONSUMED" <=> tx[t].state = "ACKNOWLEDGED"
      BY <2>1, RecordAt DEF PermitFits
    <3>2. tx[t].state = "ACKNOWLEDGED" <=> Committed(t)
      BY <2>1 DEF LogInv, ReceiptsFitState, Committed
    <3> QED BY <3>1, <3>2
  <2>4. ASSUME NEW t \in Txn, HasReceipt(t)
        PROVE  tx[t].permit \notin {"ISSUED", "CONSUMING"}
    <3>1. tx[t].state \in {"ACKNOWLEDGED", "ROLLED_BACK"}
      BY <2>1, <2>4 DEF LogInv, ReceiptsFitState, HasReceipt
    <3> QED BY <2>1, <3>1, RecordAt DEF PermitFits, CrossingStates
  <2> QED BY <2>2, <2>3, <2>4 DEF OneShot
<1>2. Inductive => OneShot
  BY <1>1
<1> QED BY <1>2, Invariance, PTL

\* A COMMITTED receipt binds the sealed artifact and the evidence the permit
\* was issued on (issuePermit, applyPromotion, applyRollback).
THEOREM CommitsBindSeals == Spec => []CommitBindsSeal
<1>1. ASSUME Inductive PROVE CommitBindsSeal
  <2>1. LogInv
    BY <1>1 DEF Inductive
  <2>2. SUFFICES ASSUME NEW i \in DOMAIN receipts, receipts[i].decision = "COMMITTED"
                 PROVE  LET t == receipts[i].txn IN
                        /\ receipts[i].view.tree = tx[t].artifact
                        /\ receipts[i].view.gen = tx[t].base.gen + 1
                        /\ IsRun(t) => tx[t].clean /\ tx[t].passed /\ TeardownRecorded(t, "ALL")
    BY DEF CommitBindsSeal
  <2> DEFINE t == receipts[i].txn
  <2>3. t \in Txn /\ FactsFit(t, tx[t])
    BY <2>1, ReceiptAt, RecordAt
  <2>4. tx[t].state = "ACKNOWLEDGED" /\ receipts[i].view = tx[t].next
    BY <2>1, <2>2 DEF LogInv, ReceiptsFitState
  <2> QED BY <2>3, <2>4 DEF FactsFit, Bound, TeardownRecorded
<1>2. Inductive => CommitBindsSeal
  BY <1>1
<1> QED BY <1>2, Invariance, PTL

\* A cancelled run is never promoted (cancelRun and the permit fence of the
\* fold), also across a crash, a recovery or a repair.
THEOREM CancellationIsFinal == Spec => CancelIsFinal
<1>1. ASSUME Inductive, Inductive', Kept, NEW t \in Txn, tx[t].state = "CANCELLED"
      PROVE  /\ tx'[t].state \in {"CANCELLED", "ROLLED_BACK"}
             /\ tx'[t].permit \notin {"ISSUED", "CONSUMING", "CONSUMED"}
  <2>1. tx'[t].state \in {"CANCELLED", "ROLLED_BACK"}
    BY <1>1 DEF Kept
  <2>2. PermitFits(tx[t])'
    BY <1>1 DEF Inductive, LogInv, TransitionsFit
  <2> QED BY <2>1, <2>2 DEF PermitFits, CrossingStates
<1>2. Inductive /\ Inductive' /\ [Next]_vars =>
        [\A t \in Txn : tx[t].state = "CANCELLED"
            => /\ tx'[t].state \in {"CANCELLED", "ROLLED_BACK"}
               /\ tx'[t].permit \notin {"ISSUED", "CONSUMING", "CONSUMED"}]_vars
  BY <1>1, NextInductive
<1> QED BY <1>2, Invariance, PTL DEF Spec, CancelIsFinal

----------------------------------------------------------------------------
(***************************************************************************)
(* Part II.  Through every kill, error and repair, versions keep their     *)
(* snapshots, the log can be folded, and what is recorded as destroyed is  *)
(* and stays so.                                                           *)
(***************************************************************************)

----------------------------------------------------------------------------
(* The order of the steps. *)

\* What comes after the step to be taken.
Second == IF Len(op.plan) = 1 THEN "end" ELSE op.plan[2]

LEMMA PlanLength ==
    ASSUME ControlTypeOK, op.plan # <<>>
    PROVE  /\ op \in Operation /\ op.plan \in Seq(Steps) /\ Len(op.plan) \in Nat /\ Len(op.plan) >= 1
           /\ Head(op.plan) = op.plan[1] /\ Head(op.plan) \in Steps
           /\ \A i \in 1..Len(op.plan) : op.plan[i] \in Steps
<1>1. op \in Operation /\ op.plan \in Seq(Steps)
  BY DEF ControlTypeOK, Operation
<1>2. Len(op.plan) \in Nat /\ Len(op.plan) >= 1 /\ Head(op.plan) = op.plan[1]
  BY <1>1, EmptySeq, LenProperties
<1> QED BY <1>1, <1>2, LenProperties

LEMMA Succession ==
    ASSUME OrderFits, ControlTypeOK, op.plan # <<>>
    PROVE  Follows(op.kind, Head(op.plan), Second)
<1>1. Len(op.plan) \in Nat /\ Len(op.plan) >= 1 /\ Head(op.plan) = op.plan[1]
  BY PlanLength
<1>2. 1 \in 1..Len(op.plan) /\ 1 + 1 = 2 /\ (Len(op.plan) = 1 <=> 1 = Len(op.plan))
  BY <1>1
<1>3. Follows(op.kind, op.plan[1], IF 1 = Len(op.plan) THEN "end" ELSE op.plan[1 + 1])
  BY <1>2 DEF OrderFits, Ordered
<1> QED BY <1>1, <1>2, <1>3 DEF Second

\* The step just taken is over: the operation goes on with the next, or ends.
Advanced ==
    \/ op' = Idle /\ Second = "end"
    \/ /\ op' = [op EXCEPT !.plan = Tail(@)]
       /\ op' = [kind |-> op.kind, txn |-> op.txn, plan |-> Tail(op.plan), tree |-> op.tree,
                 decision |-> op.decision]
       /\ Len(op.plan) > 1 /\ Second \in Steps
       /\ op'.plan # <<>> /\ Head(op'.plan) = Second
       /\ Len(op'.plan) = Len(op.plan) - 1
       /\ \A i \in 1..Len(op'.plan) : op'.plan[i] = op.plan[i + 1]

LEMMA Advances ==
    ASSUME ControlTypeOK, op.plan # <<>>,
           \/ Continue
           \/ op' = [op EXCEPT !.plan = Tail(@)] /\ Len(op.plan) # 1
    PROVE  Advanced
<1>1. /\ op \in Operation /\ op.plan \in Seq(Steps) /\ Len(op.plan) \in Nat /\ Len(op.plan) >= 1
      /\ \A i \in 1..Len(op.plan) : op.plan[i] \in Steps
  BY PlanLength
<1>2. CASE Len(op.plan) = 1
  BY <1>2 DEF Continue, Advanced, Second
<1>3. CASE Len(op.plan) # 1
  <2>1. /\ op' = [op EXCEPT !.plan = Tail(@)]
        /\ op' = [kind |-> op.kind, txn |-> op.txn, plan |-> Tail(op.plan), tree |-> op.tree,
                  decision |-> op.decision]
    BY <1>1, <1>3 DEF Continue, Operation
  <2>a. Len(op.plan) \in Nat /\ Len(op.plan) >= 1 /\ Len(op.plan) # 1
    BY <1>1, <1>3
  <2>d. \A n \in Nat : n >= 1 /\ n # 1 => n > 1 /\ 2 \in 1..n
    OBVIOUS
  <2>b. Len(op.plan) > 1 /\ 2 \in 1..Len(op.plan)
    BY <2>a, <2>d
  <2>2. Len(op.plan) > 1 /\ 2 \in 1..Len(op.plan) /\ Second = op.plan[2]
    BY <2>a, <2>b DEF Second
  <2>3. /\ Tail(op.plan) \in Seq(Steps) /\ Len(Tail(op.plan)) = Len(op.plan) - 1
        /\ \A i \in 1..Len(Tail(op.plan)) : Tail(op.plan)[i] = op.plan[i + 1]
    BY <1>1, HeadTailProperties
  <2>4. Len(Tail(op.plan)) >= 1 /\ 1 \in 1..Len(Tail(op.plan)) /\ 1 + 1 = 2
    BY <1>1, <2>2, <2>3
  <2>c. ASSUME NEW rest \in Seq(Steps), Len(rest) >= 1
        PROVE  rest # <<>> /\ Head(rest) = rest[1]
    BY <2>c, EmptySeq
  <2>5. Tail(op.plan) # <<>> /\ Head(Tail(op.plan)) = Tail(op.plan)[1]
    BY <2>3, <2>4, <2>c
  <2>6. Head(Tail(op.plan)) = op.plan[2]
    BY <2>3, <2>4, <2>5
  <2>7. op'.plan = Tail(op.plan)
    BY <2>1
  <2> QED BY <1>1, <2>1, <2>2, <2>3, <2>5, <2>6, <2>7 DEF Advanced
<1> QED BY <1>2, <1>3

LEMMA AdvanceOrdered ==
    ASSUME OrderFits, ControlTypeOK, op.plan # <<>>, Advanced
    PROVE  Ordered(op.kind, op.plan)'
<1>1. Len(op.plan) \in Nat
  BY PlanLength
<1>2. CASE op' = Idle
  BY <1>2 DEF Idle, Ordered
<1>3. CASE op' # Idle
  <2>1. /\ op'.kind = op.kind /\ Len(op'.plan) = Len(op.plan) - 1
        /\ \A i \in 1..Len(op'.plan) : op'.plan[i] = op.plan[i + 1]
    BY <1>3 DEF Advanced
  <2>2. SUFFICES ASSUME NEW i \in 1..Len(op'.plan)
                 PROVE  Follows(op.kind, op.plan[i + 1],
                                IF i = Len(op'.plan) THEN "end" ELSE op'.plan[i + 1])
    BY <2>1 DEF Ordered
  <2>3. i + 1 \in 1..Len(op.plan) /\ (i = Len(op'.plan) <=> i + 1 = Len(op.plan))
        /\ (i # Len(op'.plan) => i + 1 \in 1..Len(op'.plan))
    BY <1>1, <2>1
  <2>4. Follows(op.kind, op.plan[i + 1],
                IF i + 1 = Len(op.plan) THEN "end" ELSE op.plan[i + 1 + 1])
    BY <2>3 DEF OrderFits, Ordered
  <2> QED BY <2>1, <2>3, <2>4
<1> QED BY <1>2, <1>3

\* Two sequences, one after the other, written out as one.
LEMMA Joined ==
    ASSUME NEW p \in Seq(Steps), NEW q \in Seq(Steps), NEW whole \in Seq(Steps),
           Len(whole) = Len(p) + Len(q),
           \A i \in 1..Len(p) : whole[i] = p[i],
           \A i \in 1..Len(q) : whole[Len(p) + i] = q[i]
    PROVE  p \o q = whole
<1>1. p \o q \in Seq(Steps) /\ Len(p \o q) = Len(p) + Len(q)
  BY ConcatProperties
<1>2. Len(p) \in Nat /\ Len(q) \in Nat
  BY LenProperties
<1>3. \A i \in 1..(Len(p) + Len(q)) : (p \o q)[i] = IF i <= Len(p) THEN p[i] ELSE q[i - Len(p)]
  BY ConcatProperties
<1>4. \A i \in 1..(Len(p) + Len(q)) : (p \o q)[i] = whole[i]
  <2> TAKE i \in 1..(Len(p) + Len(q))
  <2>1. CASE i <= Len(p)
    BY <1>2, <1>3, <2>1
  <2>2. CASE ~(i <= Len(p))
    <3>1. i - Len(p) \in 1..Len(q) /\ Len(p) + (i - Len(p)) = i
      BY <1>2, <2>2
    <3>2. whole[Len(p) + (i - Len(p))] = q[i - Len(p)]
      BY <3>1
    <3> QED BY <1>3, <2>2, <3>1, <3>2
  <2> QED BY <2>1, <2>2
<1> QED BY <1>1, <1>4, SeqEqual

\* The plans the code puts together, written out.
Swap == <<"backup", "logBackup", "swap", "snapshot", "apply", "ack", "dropBackup", "remove",
          "logDestroyed">>
Pass == <<"dropBackup", "remove", "logDestroyed", "examine">>
Back(step) == <<"dropBackup", "remove", "logDestroyed", step, "examine">>
Applied == <<"snapshot", "ack", "dropBackup", "remove", "logDestroyed", "examine">>
Forward == <<"apply", "snapshot", "ack", "dropBackup", "remove", "logDestroyed", "examine">>

LEMMA SwapWritten == SwapAndAcknowledge = Swap
<1> DEFINE first == <<"backup", "logBackup", "swap", "snapshot", "apply", "ack">>
<1>1. first \in Seq(Steps) /\ Finished \in Seq(Steps) /\ Swap \in Seq(Steps)
  BY DEF Finished, Steps, ApplySteps, Swap
<1>2. /\ Len(Swap) = Len(first) + Len(Finished)
      /\ \A i \in 1..Len(first) : Swap[i] = first[i]
      /\ \A i \in 1..Len(Finished) : Swap[Len(first) + i] = Finished[i]
  BY DEF Swap, Finished
<1> HIDE DEF first
<1>3. first \o Finished = Swap
  BY <1>1, <1>2, Joined
<1> QED BY <1>3 DEF first, SwapAndAcknowledge

LEMMA PassWritten == Finished \o <<"examine">> = Pass
<1> DEFINE last == <<"examine">>
<1>1. Finished \in Seq(Steps) /\ last \in Seq(Steps) /\ Pass \in Seq(Steps)
  BY DEF Finished, Steps, ApplySteps, Pass
<1>2. /\ Len(Pass) = Len(Finished) + Len(last)
      /\ \A i \in 1..Len(Finished) : Pass[i] = Finished[i]
      /\ \A i \in 1..Len(last) : Pass[Len(Finished) + i] = last[i]
  BY DEF Pass, Finished
<1> HIDE DEF last
<1> QED BY <1>1, <1>2, Joined DEF last

LEMMA BackWritten ==
    ASSUME NEW step \in {"reject", "restore"}
    PROVE  (Finished \o <<step>>) \o <<"examine">> = Back(step)
<1> DEFINE half == <<"dropBackup", "remove", "logDestroyed", step>>
           one == <<step>>
           last == <<"examine">>
<1>1. /\ Finished \in Seq(Steps) /\ one \in Seq(Steps) /\ half \in Seq(Steps)
      /\ last \in Seq(Steps) /\ Back(step) \in Seq(Steps)
  BY DEF Finished, Steps, ApplySteps, Back
<1>2. /\ Len(half) = Len(Finished) + Len(one) /\ Len(Back(step)) = Len(half) + Len(last)
      /\ \A i \in 1..Len(Finished) : half[i] = Finished[i]
      /\ \A i \in 1..Len(one) : half[Len(Finished) + i] = one[i]
      /\ \A i \in 1..Len(half) : Back(step)[i] = half[i]
      /\ \A i \in 1..Len(last) : Back(step)[Len(half) + i] = last[i]
  BY DEF Back, Finished
<1> HIDE DEF half, one, last
<1>3. Finished \o one = half
  BY <1>1, <1>2, Joined
<1>4. half \o last = Back(step)
  BY <1>1, <1>2, Joined
<1> QED BY <1>3, <1>4 DEF one, last

\* What recoverAgent does with a transition it carries forward.
LEMMA ForwardWritten ==
    ASSUME NEW t \in Txn
    PROVE  ForwardPlan(t) \o <<"examine">> = IF tx[t].state = "APPLIED" THEN Applied ELSE Forward
<1> DEFINE none == <<>>
           one == <<"apply">>
           two == <<"snapshot", "ack">>
           three == <<"apply", "snapshot", "ack">>
           five == <<"snapshot", "ack", "dropBackup", "remove", "logDestroyed">>
           six == <<"apply", "snapshot", "ack", "dropBackup", "remove", "logDestroyed">>
           last == <<"examine">>
<1>1. ForwardPlan(t) \o last =
        (((IF tx[t].state = "APPLIED" THEN none ELSE one) \o two) \o Finished) \o last
  BY DEF ForwardPlan
<1>2. /\ none \in Seq(Steps) /\ two \in Seq(Steps) /\ two \in Seq(Steps)
      /\ Len(two) = Len(none) + Len(two)
      /\ \A i \in 1..Len(none) : two[i] = none[i]
      /\ \A i \in 1..Len(two) : two[Len(none) + i] = two[i]
  BY DEF Steps, ApplySteps
<1>3. /\ one \in Seq(Steps) /\ two \in Seq(Steps) /\ three \in Seq(Steps)
      /\ Len(three) = Len(one) + Len(two)
      /\ \A i \in 1..Len(one) : three[i] = one[i]
      /\ \A i \in 1..Len(two) : three[Len(one) + i] = two[i]
  BY DEF Steps, ApplySteps
<1>4. /\ two \in Seq(Steps) /\ Finished \in Seq(Steps) /\ five \in Seq(Steps)
      /\ Len(five) = Len(two) + Len(Finished)
      /\ \A i \in 1..Len(two) : five[i] = two[i]
      /\ \A i \in 1..Len(Finished) : five[Len(two) + i] = Finished[i]
  BY DEF Finished, Steps, ApplySteps
<1>5. /\ three \in Seq(Steps) /\ Finished \in Seq(Steps) /\ six \in Seq(Steps)
      /\ Len(six) = Len(three) + Len(Finished)
      /\ \A i \in 1..Len(three) : six[i] = three[i]
      /\ \A i \in 1..Len(Finished) : six[Len(three) + i] = Finished[i]
  BY DEF Finished, Steps, ApplySteps
<1>6. /\ five \in Seq(Steps) /\ last \in Seq(Steps) /\ Applied \in Seq(Steps)
      /\ Len(Applied) = Len(five) + Len(last)
      /\ \A i \in 1..Len(five) : Applied[i] = five[i]
      /\ \A i \in 1..Len(last) : Applied[Len(five) + i] = last[i]
  BY DEF Applied, Steps, ApplySteps
<1>7. /\ six \in Seq(Steps) /\ last \in Seq(Steps) /\ Forward \in Seq(Steps)
      /\ Len(Forward) = Len(six) + Len(last)
      /\ \A i \in 1..Len(six) : Forward[i] = six[i]
      /\ \A i \in 1..Len(last) : Forward[Len(six) + i] = last[i]
  BY DEF Forward, Steps, ApplySteps
<1> HIDE DEF none, one, two, three, five, six, last
<1>8. none \o two = two
  BY <1>2, Joined
<1>9. one \o two = three
  BY <1>3, Joined
<1>10. two \o Finished = five
  BY <1>4, Joined
<1>11. three \o Finished = six
  BY <1>5, Joined
<1>12. five \o last = Applied
  BY <1>6, Joined
<1>13. six \o last = Forward
  BY <1>7, Joined
<1> QED BY <1>1, <1>8, <1>9, <1>10, <1>11, <1>12, <1>13 DEF last

LEMMA PlansOrdered ==
    /\ Ordered("prepareRun", <<"clone", "prepare">>)
    /\ \A step \in {"logSeal", "logFlawed"} : Ordered("seal", <<"importProposal", step, "finishIntent">>)
    /\ Ordered("rollback", <<"authorize", "authorize", "authorize", "authorize">>)
    /\ Ordered("undo", <<"evict", "reinstate", "remove", "logDestroyed", "restore">>)
    /\ Ordered("conflict", <<"reject", "remove", "logDestroyed">>)
    /\ Ordered("dispose", <<"remove", "logDestroyed", "reject">>)
    /\ Ordered("cleanup", <<"remove", "logDestroyed">>)
    /\ Ordered("repair", <<"evict", "reinstate", "logRepair">>)
    /\ Ordered("repair", <<"logRepair">>)
    /\ Ordered("repair", <<"backup", "logBackup", "swap", "logRepair">>)
    /\ Ordered("repaired", <<"snapshot", "apply", "ack", "dropBackup">>)
    /\ Ordered("repaired", <<"remove", "logDestroyed", "restore">>)
    /\ Ordered("recover", <<"finishIntent", "examine">>)
    /\ Ordered("recover", <<"settle">>)
    /\ Ordered("recover", <<"reinstate", "examine">>)
    /\ \A kind \in {"export", "platform", "archive", "intents"} : Ordered(kind, <<"finishIntent">>)
    /\ Ordered("apply", Swap) /\ Ordered("recover", Pass)
    /\ Ordered("recover", Back("reject")) /\ Ordered("recover", Back("restore"))
    /\ Ordered("recover", Applied) /\ Ordered("recover", Forward)
<1>1. Ordered("prepareRun", <<"clone", "prepare">>)
  BY DEF Ordered, Follows
<1>2. \A step \in {"logSeal", "logFlawed"} : Ordered("seal", <<"importProposal", step, "finishIntent">>)
  BY DEF Ordered, Follows
<1>3. Ordered("rollback", <<"authorize", "authorize", "authorize", "authorize">>)
  BY DEF Ordered, Follows
<1>4. Ordered("undo", <<"evict", "reinstate", "remove", "logDestroyed", "restore">>)
  BY DEF Ordered, Follows
<1>5. Ordered("conflict", <<"reject", "remove", "logDestroyed">>)
  BY DEF Ordered, Follows
<1>6. Ordered("dispose", <<"remove", "logDestroyed", "reject">>)
  BY DEF Ordered, Follows
<1>7. Ordered("cleanup", <<"remove", "logDestroyed">>)
  BY DEF Ordered, Follows
<1>8. Ordered("repair", <<"evict", "reinstate", "logRepair">>)
  BY DEF Ordered, Follows
<1>9. Ordered("repair", <<"logRepair">>)
  BY DEF Ordered, Follows
<1>10. Ordered("repair", <<"backup", "logBackup", "swap", "logRepair">>)
  BY DEF Ordered, Follows
<1>11. Ordered("repaired", <<"snapshot", "apply", "ack", "dropBackup">>)
  BY DEF Ordered, Follows
<1>12. Ordered("repaired", <<"remove", "logDestroyed", "restore">>)
  BY DEF Ordered, Follows
<1>13. Ordered("recover", <<"finishIntent", "examine">>)
  BY DEF Ordered, Follows
<1>14. Ordered("recover", <<"settle">>)
  BY DEF Ordered, Follows
<1>15. Ordered("recover", <<"reinstate", "examine">>)
  BY DEF Ordered, Follows
<1>16. \A kind \in {"export", "platform", "archive", "intents"} : Ordered(kind, <<"finishIntent">>)
  BY DEF Ordered, Follows
<1>17. Ordered("apply", Swap)
  BY DEF Ordered, Follows, Swap
<1>18. Ordered("recover", Pass)
  BY DEF Ordered, Follows, Pass
<1>19. Ordered("recover", Back("reject"))
  BY DEF Ordered, Follows, Back
<1>20. Ordered("recover", Back("restore"))
  BY DEF Ordered, Follows, Back
<1>21. Ordered("recover", Applied)
  BY DEF Ordered, Follows, Applied
<1>22. Ordered("recover", Forward)
  BY DEF Ordered, Follows, Forward
<1> QED BY <1>1, <1>2, <1>3, <1>4, <1>5, <1>6, <1>7, <1>8, <1>9, <1>10, <1>11, <1>12, <1>13, <1>14, <1>15, <1>16, <1>17, <1>18, <1>19, <1>20, <1>21, <1>22


LEMMA RestOrdered ==
    ASSUME op' = Idle, up' # "starting"
    PROVE  OrderFits'
BY DEF OrderFits, Ordered, ProcessFits, Idle

LEMMA ThrowOrdered ==
    ASSUME NEW reason \in Reasons, Throw(reason)
    PROVE  OrderFits'
BY RestOrdered DEF Throw

LEMMA AdvancedOrdered ==
    ASSUME OrderFits, ControlTypeOK, op.plan # <<>>, Advanced, up' = up,
           Head(op.plan) \notin {"examine", "settle"}
    PROVE  OrderFits'
<1>1. Ordered(op.kind, op.plan)'
  BY AdvanceOrdered
<1>2. CASE op' = Idle /\ Second = "end"
  <2>1. Follows(op.kind, Head(op.plan), "end")
    BY <1>2, Succession
  <2>2. op.kind # "recover"
    BY <2>1 DEF Follows
  <2> QED BY <1>2, <2>2, RestOrdered DEF OrderFits, ProcessFits
<1>3. CASE op'.kind = op.kind /\ op'.plan # <<>>
  BY <1>1, <1>3 DEF OrderFits, ProcessFits, Idle
<1> QED BY <1>2, <1>3 DEF Advanced

LEMMA GoOrdered ==
    ASSUME OrderFits, ControlTypeOK, op.plan # <<>>, Go, Head(op.plan) \notin {"examine", "settle"}
    PROVE  OrderFits'
BY Advances, AdvancedOrdered DEF Go

\* The operation has a new plan.
LEMMA NewOrdered ==
    ASSUME NEW kind, NEW plan, Ordered(kind, plan), plan # <<>>, kind # "none",
           op'.kind = kind, op'.plan = plan, up' \notin {"down", "sweeping"},
           up' = "starting" => kind = "recover"
    PROVE  OrderFits'
BY DEF OrderFits, ProcessFits, Idle

LEMMA UndoOrdered ==
    ASSUME OrderFits, ControlTypeOK, op.kind = "apply", Undo, up' = up
    PROVE  OrderFits'
<1> DEFINE plan == <<"evict", "reinstate", "remove", "logDestroyed", "restore">>
<1>1. op'.kind = "undo" /\ op'.plan = plan
  BY DEF Undo, ControlTypeOK, Operation
<1>2. Ordered("undo", plan) /\ plan # <<>>
  BY PlansOrdered
<1>3. up' \notin {"down", "starting", "sweeping"}
  BY DEF OrderFits, ProcessFits, Idle
<1> HIDE DEF plan
<1> QED BY <1>1, <1>2, <1>3, NewOrdered

LEMMA FailOrdered ==
    ASSUME OrderFits, ControlTypeOK, NEW reason \in Reasons, Fail(reason)
    PROVE  OrderFits'
BY UndoOrdered, ThrowOrdered DEF Fail

LEMMA SameOrdered ==
    ASSUME OrderFits, op' = op, up' = up
    PROVE  OrderFits'
BY DEF OrderFits, ProcessFits

LEMMA RequestOrdered ==
    ASSUME Inductive, OrderFits, NEW t \in Txn, Request(t)
    PROVE  OrderFits'
<1> USE DEF Run
<1>1. PrepareRun(t) => OrderFits'
  BY PlansOrdered, NewOrdered DEF PrepareRun, Ready
<1>2. SealProposal(t) => OrderFits'
  BY PlansOrdered, NewOrdered DEF SealProposal, Ready
<1>3. ExportProposal(t) => OrderFits'
  BY PlansOrdered, NewOrdered DEF ExportProposal, Ready
<1>4. ApplyPromotion(t) => OrderFits'
  <2> HAVE ApplyPromotion(t)
  <2>1. op'.kind = "apply" /\ op'.plan = Swap /\ up' = "serving"
    BY SwapWritten DEF ApplyPromotion, Ready
  <2>2. Swap # <<>>
    BY DEF Swap
  <2> QED BY <2>1, <2>2, PlansOrdered, NewOrdered
<1>5. PromotionCasConflict(t) => OrderFits'
  BY PlansOrdered, NewOrdered DEF PromotionCasConflict, Ready
<1>6. ASSUME NEW tree \in Tree, ApplyRollback(t, tree) PROVE OrderFits'
  BY <1>6, PlansOrdered, NewOrdered DEF ApplyRollback, Ready
<1>7. ASSUME NEW decision \in Dispositions, DisposeRun(t, decision) PROVE OrderFits'
  BY <1>7, PlansOrdered, NewOrdered DEF DisposeRun, Ready
<1>8. DisposeReplay(t) => OrderFits'
  BY PlansOrdered, NewOrdered DEF DisposeReplay, Ready
<1>9. RepairRollback(t) => OrderFits'
  BY PlansOrdered, NewOrdered DEF RepairRollback, RepairRequest, Ready
<1>10. RepairForward(t) => OrderFits'
  <2> HAVE RepairForward(t)
  <2>1. /\ op'.kind = "repair" /\ up' = "serving"
        /\ op'.plan \in {<<"logRepair">>, <<"backup", "logBackup", "swap", "logRepair">>}
    BY DEF RepairForward, RepairRequest, Ready
  <2>2. CASE op'.plan = <<"logRepair">>
    BY <2>1, <2>2, PlansOrdered, NewOrdered
  <2>3. CASE op'.plan = <<"backup", "logBackup", "swap", "logRepair">>
    BY <2>1, <2>3, PlansOrdered, NewOrdered
  <2> QED BY <2>1, <2>2, <2>3
<1>11. Prepare(t) \/ CancelRun(t) \/ IssuePermit(t) => OrderFits'
  BY SameOrdered DEF Prepare, CancelRun, IssuePermit, control
<1>12. ASSUME NEW scope \in {"AGENT", "ALL"}, RecordRuntimeTeardown(t, scope) PROVE OrderFits'
  BY <1>12, SameOrdered DEF RecordRuntimeTeardown, control
<1>13. ASSUME NEW passed \in BOOLEAN, RecordEvidence(t, passed) PROVE OrderFits'
  BY <1>13, SameOrdered DEF RecordEvidence, control
<1> QED BY <1>1, <1>2, <1>3, <1>4, <1>5, <1>6, <1>7, <1>8, <1>9, <1>10, <1>11, <1>12, <1>13
        DEF Request


LEMMA PlanStepOrdered ==
    ASSUME Inductive, OrderFits, op.plan # <<>>, Head(op.plan) \notin {"examine", "settle"},
           Go \/ Await \/ \E reason \in Reasons : Throw(reason) \/ Fail(reason)
    PROVE  OrderFits'
BY GoOrdered, SameOrdered, ThrowOrdered, FailOrdered DEF Await, Inductive

LEMMA AuthorizeOrdered ==
    ASSUME Inductive, OrderFits, AuthorizeStep
    PROVE  OrderFits'
<1>1. /\ op.plan # <<>> /\ Head(op.plan) = "authorize" /\ up' = up
      /\ Continue \/ Run("apply", op.txn, SwapAndAcknowledge, None, None)
  BY DEF AuthorizeStep, At
<1>2. ControlTypeOK
  BY DEF Inductive
<1>3. CASE Continue
  BY <1>1, <1>2, <1>3, Advances, AdvancedOrdered
<1>4. CASE Run("apply", op.txn, SwapAndAcknowledge, None, None)
  <2>1. Follows(op.kind, "authorize", Second)
    BY <1>1, <1>2, Succession
  <2>2. op.kind = "rollback"
    BY <2>1 DEF Follows
  <2>3. up' \notin {"down", "starting", "sweeping"}
    BY <1>1, <2>2 DEF OrderFits, ProcessFits, Idle
  <2>4. op'.kind = "apply" /\ op'.plan = Swap
    BY <1>4, SwapWritten DEF Run
  <2>5. Swap # <<>>
    BY DEF Swap
  <2> QED BY <2>3, <2>4, <2>5, PlansOrdered, NewOrdered
<1> QED BY <1>1, <1>3, <1>4

LEMMA LogRepairOrdered ==
    ASSUME Inductive, OrderFits, LogRepairStep
    PROVE  OrderFits'
<1>1. /\ op.plan # <<>> /\ Head(op.plan) = "logRepair" /\ up' = up /\ op'.kind = "repaired"
      /\ op'.plan \in {<<"snapshot", "apply", "ack", "dropBackup">>,
                       <<"remove", "logDestroyed", "restore">>}
  BY DEF LogRepairStep, At, Run
<1>2. ControlTypeOK
  BY DEF Inductive
<1>3. Follows(op.kind, "logRepair", Second)
  BY <1>1, <1>2, Succession
<1>4. op.kind = "repair"
  BY <1>3 DEF Follows
<1>5. up' \notin {"down", "starting", "sweeping"}
  BY <1>1, <1>4 DEF OrderFits, ProcessFits, Idle
<1>6. CASE op'.plan = <<"snapshot", "apply", "ack", "dropBackup">>
  BY <1>1, <1>5, <1>6, PlansOrdered, NewOrdered
<1>7. CASE op'.plan = <<"remove", "logDestroyed", "restore">>
  BY <1>1, <1>5, <1>7, PlansOrdered, NewOrdered
<1> QED BY <1>1, <1>6, <1>7

\* What recoverAgent does next with the first of the transitions left.
LEMMA ExaminePlanned ==
    ASSUME Inductive, OrderFits, ExamineStep
    PROVE  /\ op.plan # <<>> /\ op.kind = "recover" /\ ~corrupt
           /\ \/ /\ todo = <<>> /\ op'.plan = <<"settle">> /\ op'.txn = op.txn
                 /\ UNCHANGED <<disk, up, todo, refusal>> /\ op'.kind = op.kind
              \/ /\ todo # <<>> /\ SwapInterrupted(Head(todo)) /\ op'.kind = op.kind
                 /\ op'.plan = <<"reinstate", "examine">> /\ op'.txn = Head(todo)
                 /\ UNCHANGED <<disk, up, todo, refusal>>
              \/ /\ todo # <<>> /\ ~SwapInterrupted(Head(todo))
                 /\ RecoveryPlan(Head(todo)) = <<>> /\ Throw("RECOVERY_REQUIRED")
              \/ /\ todo # <<>> /\ ~SwapInterrupted(Head(todo)) /\ RecoveryPlan(Head(todo)) # <<>>
                 /\ op'.kind = op.kind /\ op'.txn = Head(todo)
                 /\ op'.plan = RecoveryPlan(Head(todo)) \o <<"examine">>
                 /\ todo' = Tail(todo) /\ UNCHANGED <<up, refusal>>
<1>1. op.plan # <<>> /\ Head(op.plan) = "examine" /\ ~corrupt
  BY DEF ExamineStep, At
<1>2. ControlTypeOK /\ op \in Operation
  BY DEF Inductive, ControlTypeOK
<1>3. Follows(op.kind, "examine", Second)
  BY <1>1, <1>2, Succession
<1>4. op.kind = "recover"
  BY <1>3 DEF Follows
<1>5. CASE todo = <<>>
  BY <1>1, <1>2, <1>4, <1>5 DEF ExamineStep, Operation
<1>6. CASE todo # <<>> /\ SwapInterrupted(Head(todo))
  BY <1>1, <1>2, <1>4, <1>6 DEF ExamineStep, Operation
<1>7. CASE todo # <<>> /\ ~SwapInterrupted(Head(todo)) /\ RecoveryPlan(Head(todo)) = <<>>
  BY <1>1, <1>4, <1>7 DEF ExamineStep
<1>8. CASE todo # <<>> /\ ~SwapInterrupted(Head(todo)) /\ RecoveryPlan(Head(todo)) # <<>>
  <2>1. /\ op' = [op EXCEPT !.txn = Head(todo), !.plan = RecoveryPlan(Head(todo)) \o <<"examine">>]
        /\ todo' = Tail(todo) /\ UNCHANGED <<up, refusal>>
    BY <1>8 DEF ExamineStep
  <2>2. /\ op'.kind = op.kind /\ op'.txn = Head(todo)
        /\ op'.plan = RecoveryPlan(Head(todo)) \o <<"examine">>
    BY <1>2, <2>1 DEF Operation
  <2> QED BY <1>1, <1>4, <1>8, <2>1, <2>2
<1> QED BY <1>5, <1>6, <1>7, <1>8

\* The four ways recovery can deal with a transition.
LEMMA Recovering ==
    ASSUME NEW t \in Txn, RecoveryPlan(t) # <<>>
    PROVE  \/ /\ HasReceipt(t) \/ tx[t].state = "ACKNOWLEDGED"
              /\ RecoveryPlan(t) = Finished /\ RecoveryPlan(t) \o <<"examine">> = Pass
           \/ /\ ~HasReceipt(t) /\ tx[t].state \in OpenStates \cup {"ROLLED_BACK"}
              /\ Materialized = head.tree
              /\ RecoveryPlan(t) \o <<"examine">> = Back("reject")
           \/ /\ ~HasReceipt(t) /\ tx[t].state \notin OpenStates \cup {"ROLLED_BACK", "ACKNOWLEDGED"}
              /\ Materialized = tx[t].next.tree
              /\ RecoveryPlan(t) \o <<"examine">> =
                   IF tx[t].state = "APPLIED" THEN Applied ELSE Forward
           \/ /\ ~HasReceipt(t) /\ tx[t].state \notin OpenStates \cup {"ROLLED_BACK", "ACKNOWLEDGED"}
              /\ Materialized # tx[t].next.tree /\ Materialized = tx[t].base.tree
              /\ RecoveryPlan(t) \o <<"examine">> = Back("restore")
<1>1. \/ RecoveryPlan(t) = Finished /\ (HasReceipt(t) \/ tx[t].state = "ACKNOWLEDGED")
      \/ /\ ~HasReceipt(t) /\ tx[t].state \in OpenStates \cup {"ROLLED_BACK"}
         /\ Materialized = head.tree /\ RecoveryPlan(t) = Finished \o <<"reject">>
      \/ /\ ~HasReceipt(t) /\ tx[t].state \notin OpenStates \cup {"ROLLED_BACK", "ACKNOWLEDGED"}
         /\ Materialized = tx[t].next.tree /\ RecoveryPlan(t) = ForwardPlan(t)
      \/ /\ ~HasReceipt(t) /\ tx[t].state \notin OpenStates \cup {"ROLLED_BACK", "ACKNOWLEDGED"}
         /\ Materialized # tx[t].next.tree /\ Materialized = tx[t].base.tree
         /\ RecoveryPlan(t) = Finished \o <<"restore">>
  BY DEF RecoveryPlan
<1>2. /\ (Finished \o <<"reject">>) \o <<"examine">> = Back("reject")
      /\ (Finished \o <<"restore">>) \o <<"examine">> = Back("restore")
  BY BackWritten
<1> QED BY <1>1, <1>2, PassWritten, ForwardWritten

LEMMA ExamineOrdered ==
    ASSUME Inductive, OrderFits, ExamineStep
    PROVE  OrderFits'
<1>1. up \notin {"down", "sweeping"}
  BY ExaminePlanned DEF OrderFits, ProcessFits, Idle
<1>2. ControlTypeOK
  BY DEF Inductive
<1>3. CASE Throw("RECOVERY_REQUIRED")
  BY <1>3, ThrowOrdered DEF Reasons
<1>4. CASE up' = up /\ op'.kind = "recover" /\ op'.plan = <<"settle">>
  BY <1>1, <1>4, PlansOrdered, NewOrdered
<1>5. CASE up' = up /\ op'.kind = "recover" /\ op'.plan = <<"reinstate", "examine">>
  BY <1>1, <1>5, PlansOrdered, NewOrdered
<1>6. CASE /\ up' = up /\ op'.kind = "recover" /\ todo # <<>> /\ RecoveryPlan(Head(todo)) # <<>>
           /\ op'.plan = RecoveryPlan(Head(todo)) \o <<"examine">>
  <2>1. Head(todo) \in Txn
    BY <1>2, <1>6, HeadTailProperties DEF ControlTypeOK
  <2>2. op'.plan \in {Pass, Back("reject"), Back("restore"), Applied, Forward}
    BY <1>6, <2>1, Recovering
  <2>3. op'.plan # <<>> /\ Ordered("recover", op'.plan)
    <3>1. Pass # <<>> /\ Applied # <<>> /\ Forward # <<>> /\ \A s : Back(s) # <<>>
      BY DEF Pass, Applied, Forward, Back
    <3> QED BY <2>2, <3>1, PlansOrdered
  <2> QED BY <1>1, <1>6, <2>3, NewOrdered
<1> QED BY <1>3, <1>4, <1>5, <1>6, ExaminePlanned

LEMMA StepOrdered ==
    ASSUME Inductive, OrderFits, Step
    PROVE  OrderFits'
<1>1. CloneStep \/ PrepareStep \/ ImportProposalStep \/ LogSealStep => OrderFits'
  BY PlanStepOrdered DEF CloneStep, PrepareStep, ImportProposalStep, LogSealStep, At, Reasons
<1>2. BackupStep \/ LogBackupStep \/ SwapStep \/ SnapshotStep => OrderFits'
  BY PlanStepOrdered DEF BackupStep, LogBackupStep, SwapStep, SnapshotStep, At, Reasons
<1>3. ApplyStep \/ AckStep \/ DropBackupStep \/ RemoveStep \/ LogDestroyedStep => OrderFits'
  BY PlanStepOrdered DEF ApplyStep, AckStep, DropBackupStep, RemoveStep, LogDestroyedStep, At, Reasons
<1>4. RejectStep \/ RestoreStep => OrderFits'
  BY PlanStepOrdered DEF RejectStep, RestoreStep, DisposeStep, At, Reasons
<1>5. EvictStep \/ ReinstateStep => OrderFits'
  BY PlanStepOrdered DEF EvictStep, ReinstateStep, At, Reasons
<1>6. FinishIntentStep => OrderFits'
  <2> HAVE FinishIntentStep
  <2>1. op.plan # <<>> /\ Head(op.plan) = "finishIntent"
    BY DEF FinishIntentStep, At
  <2>2. Go \/ Throw("RECOVERY_REQUIRED") \/ Await
    BY DEF FinishIntentStep, FinishSeal, FinishExport, FinishPlatformRegeneration, FinishArchive
  <2> QED BY <2>1, <2>2, PlanStepOrdered DEF Reasons
<1>7. SettleStep => OrderFits'
  BY RestOrdered, ThrowOrdered DEF SettleStep, Reasons
<1> QED BY <1>1, <1>2, <1>3, <1>4, <1>5, <1>6, <1>7, AuthorizeOrdered, LogRepairOrdered,
           ExamineOrdered DEF Step

LEMMA OrderKept ==
    ASSUME Inductive, OrderFits, [Next]_vars
    PROVE  OrderFits'
<1>1. CASE UNCHANGED vars
  BY <1>1, SameOrdered DEF vars, control
<1>2. ASSUME NEW t \in Txn, Request(t) PROVE OrderFits'
  BY <1>2, RequestOrdered
<1>3. ASSUME NEW t \in Txn, NEW tree \in Tree, AgentEdits(t, tree) PROVE OrderFits'
  BY <1>3, SameOrdered DEF AgentEdits, control
<1>4. RecoverPendingWorkerIntents \/ ArchiveAgent => OrderFits'
  BY PlansOrdered, NewOrdered DEF RecoverPendingWorkerIntents, ArchiveAgent, Run, Ready
<1>5. ASSUME NEW p \in Platform, RegeneratePlatformState(p) PROVE OrderFits'
  BY <1>5, PlansOrdered, NewOrdered DEF RegeneratePlatformState, Run, Ready
<1>6. RecoverAgent \/ Start => OrderFits'
  BY PlansOrdered, NewOrdered DEF RecoverAgent, Start, BeginRecovery, Run, Ready
<1>7. ProbeWorkspace => OrderFits'
  BY SameOrdered DEF ProbeWorkspace, control
<1>8. Fault => OrderFits'
  <2> HAVE Fault
  <2>1. op.plan # <<>> /\ ControlTypeOK
    BY DEF Fault, Inductive
  <2>2. CASE ~BestEffort
    <3>1. Fail("IO") \/ Fail("RECOVERY_REQUIRED")
      BY <2>2 DEF Fault
    <3> QED BY <2>1, <3>1, FailOrdered DEF Reasons
  <2>3. CASE BestEffort /\ Head(op.plan) = "dropBackup"
    <3>1. Follows(op.kind, "dropBackup", Second) /\ op.kind \in {"apply", "conflict"}
      BY <2>1, <2>3, Succession DEF BestEffort
    <3>2. Follows(op.kind, "dropBackup", Second)
      BY <2>1, <2>3, Succession
    <3>3. Second # "end"
      BY <3>1, <3>2 DEF Follows
    <3>4. op' = [op EXCEPT !.plan = Tail(@)] /\ up' = up
      BY <2>3 DEF Fault
    <3>5. Advanced
      BY <2>1, <3>3, <3>4, Advances DEF Second
    <3> QED BY <2>1, <2>3, <3>4, <3>5, AdvancedOrdered
  <2>4. CASE BestEffort /\ Head(op.plan) # "dropBackup"
    <3>1. op' = Idle /\ up' = up /\ up # "starting"
      BY <2>4 DEF Fault, BestEffort, OrderFits, ProcessFits
    <3> QED BY <3>1, RestOrdered
  <2> QED BY <2>2, <2>3, <2>4
<1>9. Crash \/ Sweep \/ InitializeThrows => OrderFits'
  BY RestOrdered DEF Crash, Sweep, InitializeThrows, OrderFits, ProcessFits
<1>10. ASSUME NEW tree \in Tree, Drift(tree) PROVE OrderFits'
  BY <1>10, SameOrdered DEF Drift, control
<1> QED BY <1>1, <1>2, <1>3, <1>4, <1>5, <1>6, <1>7, <1>8, <1>9, <1>10, StepOrdered DEF Next

----------------------------------------------------------------------------
(* Versions keep their snapshots. *)

\* A step of a plan that is not the last of it.
LEMMA AdvancedTo ==
    ASSUME OrderFits, ControlTypeOK, op.plan # <<>>, Advanced
    PROVE  \/ op' = Idle
           \/ /\ op'.kind = op.kind /\ op'.txn = op.txn /\ op'.tree = op.tree
              /\ op'.decision = op.decision /\ op'.plan # <<>>
              /\ Follows(op.kind, Head(op.plan), Head(op'.plan))
BY Succession DEF Advanced

Storing(kind, step) == step = "ack" \/ (step = "apply" /\ kind # "recover")

NextStored == op.plan # <<>> /\ Storing(op.kind, Head(op.plan)) => tx[op.txn].next.tree \in snapshots

\* Only an acknowledgement adds a version.
LEMMA VersionsKept ==
    ASSUME Inductive, VersionTrees \subseteq snapshots, snapshots \subseteq snapshots',
           \/ UNCHANGED receipts
           \/ \E rcpt \in Receipt : /\ receipts' = Append(receipts, rcpt)
                                    /\ rcpt.decision = "COMMITTED" => rcpt.view.tree \in snapshots
    PROVE  VersionTrees' \subseteq snapshots'
<1>1. CASE UNCHANGED receipts
  BY <1>1 DEF VersionTrees
<1>2. ASSUME NEW rcpt \in Receipt, receipts' = Append(receipts, rcpt),
             rcpt.decision = "COMMITTED" => rcpt.view.tree \in snapshots
      PROVE  VersionTrees' \subseteq snapshots'
  <2>1. receipts \in Seq(Receipt)
    BY DEF Inductive, LogInv, LogTypeOK
  <2>2. /\ DOMAIN receipts' = 1..(Len(receipts) + 1) /\ DOMAIN receipts = 1..Len(receipts)
        /\ Len(receipts) \in Nat /\ receipts'[Len(receipts) + 1] = rcpt
        /\ \A i \in DOMAIN receipts : receipts'[i] = receipts[i]
    BY <1>2, <2>1
  <2>3. ASSUME NEW i \in DOMAIN receipts', receipts'[i].decision = "COMMITTED"
        PROVE  receipts'[i].view.tree \in snapshots
    <3>1. CASE i \in DOMAIN receipts
      BY <2>2, <2>3, <3>1 DEF VersionTrees
    <3>2. CASE i = Len(receipts) + 1
      BY <1>2, <2>2, <2>3, <3>2
    <3> QED BY <2>2, <3>1, <3>2
  <2>4. InitialTree \in snapshots
    BY DEF VersionTrees
  <2> QED BY <2>3, <2>4 DEF VersionTrees
<1> QED BY <1>1, <1>2

\* A new plan begins with neither.
LEMMA NotStoring ==
    ASSUME op'.plan = <<>> \/ ~Storing(op'.kind, Head(op'.plan))
    PROVE  NextStored'
BY DEF NextStored, Storing

LEMMA AdvancedStored ==
    ASSUME Inductive, OrderFits, NextStored, op.plan # <<>>, Advanced, snapshots \subseteq snapshots',
           Head(op.plan) = "snapshot" => tx[op.txn].next.tree \in snapshots',
           Head(op.plan) \in {"snapshot", "apply"} => tx'[op.txn].next = tx[op.txn].next
    PROVE  NextStored'
<1>1. ControlTypeOK
  BY DEF Inductive
<1>2. CASE op' = Idle
  BY <1>2, NotStoring DEF Idle
<1>3. CASE /\ op'.kind = op.kind /\ op'.txn = op.txn /\ op'.plan # <<>>
           /\ Follows(op.kind, Head(op.plan), Head(op'.plan))
           /\ Storing(op'.kind, Head(op'.plan))
  <2>1. \/ Head(op.plan) = "snapshot"
        \/ Head(op.plan) = "apply" /\ op.kind # "recover"
    BY <1>3 DEF Follows, Storing
  <2> QED BY <1>3, <2>1 DEF NextStored, Storing
<1> QED BY <1>1, <1>2, <1>3, AdvancedTo, NotStoring

LEMMA GoStored ==
    ASSUME Inductive, OrderFits, NextStored, op.plan # <<>>, snapshots \subseteq snapshots',
           \/ Go \/ (Await /\ Head(op.plan) \notin {"ack", "apply"})
           \/ (\E reason \in Reasons : Throw(reason) \/ Fail(reason)),
           Head(op.plan) = "snapshot" /\ Go => tx[op.txn].next.tree \in snapshots',
           Head(op.plan) \in {"snapshot", "apply"} /\ Go => tx'[op.txn].next = tx[op.txn].next
    PROVE  NextStored'
<1>1. ControlTypeOK
  BY DEF Inductive
<1>2. CASE Go
  BY <1>1, <1>2, Advances, AdvancedStored DEF Go
<1>3. ASSUME NEW reason \in Reasons, Throw(reason) PROVE NextStored'
  BY <1>3, NotStoring DEF Throw, Idle
<1>4. CASE Undo
  <2>1. op'.plan = <<"evict", "reinstate", "remove", "logDestroyed", "restore">>
    BY <1>1, <1>4 DEF Undo, ControlTypeOK, Operation
  <2> QED BY <2>1, NotStoring DEF Storing
<1> QED BY <1>2, <1>3, <1>4, NotStoring DEF Fail, Await, Storing

LEMMA RequestStored ==
    ASSUME Inductive, NextStored, NEW t \in Txn, Request(t)
    PROVE  NextStored'
<1>1. op = Idle
  BY DEF Request, PrepareRun, CancelRun, SealProposal, ExportProposal, RecordRuntimeTeardown,
         RecordEvidence, IssuePermit, ApplyPromotion, PromotionCasConflict, Prepare,
         ApplyRollback, DisposeRun, DisposeReplay, RepairRollback, RepairForward, RepairRequest,
         Ready
<1>2. CASE op' = op
  BY <1>1, <1>2, NotStoring DEF Idle
<1>3. CASE op' # op
  <2>1. PICK first \in Steps \ {"ack", "apply"} : op'.plan # <<>> /\ Head(op'.plan) = first
    <3>1. PrepareRun(t) => op'.plan = <<"clone", "prepare">>
      BY DEF PrepareRun, Run
    <3>2. SealProposal(t) => \E step \in {"logSeal", "logFlawed"} :
                               op'.plan = <<"importProposal", step, "finishIntent">>
      BY DEF SealProposal, Run
    <3>3. ExportProposal(t) => op'.plan = <<"finishIntent">>
      BY DEF ExportProposal, Run
    <3>4. ApplyPromotion(t) => op'.plan = Swap
      BY SwapWritten DEF ApplyPromotion, Run
    <3>5. PromotionCasConflict(t) => op'.plan = <<"reject", "remove", "logDestroyed">>
      BY DEF PromotionCasConflict, Run
    <3>6. ASSUME NEW tree \in Tree, ApplyRollback(t, tree)
          PROVE  op'.plan = <<"authorize", "authorize", "authorize", "authorize">>
      BY <3>6 DEF ApplyRollback, Run
    <3>7. ASSUME NEW decision \in Dispositions, DisposeRun(t, decision)
          PROVE  op'.plan = <<"remove", "logDestroyed", "reject">>
      BY <3>7 DEF DisposeRun, Run
    <3>8. DisposeReplay(t) => op'.plan = <<"remove", "logDestroyed">>
      BY DEF DisposeReplay, Run
    <3>9. RepairRollback(t) => op'.plan = <<"evict", "reinstate", "logRepair">>
      BY DEF RepairRollback, Run
    <3>10. RepairForward(t) => \/ op'.plan = <<"logRepair">>
                               \/ op'.plan = <<"backup", "logBackup", "swap", "logRepair">>
      BY DEF RepairForward, Run
    <3>11. Prepare(t) \/ CancelRun(t) \/ IssuePermit(t) => op' = op
      BY DEF Prepare, CancelRun, IssuePermit, control
    <3>12. /\ \A scope \in {"AGENT", "ALL"} : RecordRuntimeTeardown(t, scope) => op' = op
           /\ \A passed \in BOOLEAN : RecordEvidence(t, passed) => op' = op
      BY DEF RecordRuntimeTeardown, RecordEvidence, control
    <3> DEFINE Begins(plan) == plan # <<>> /\ Head(plan) \in Steps \ {"ack", "apply"}
    <3>13. /\ Begins(<<"clone", "prepare">>)
           /\ \A step \in {"logSeal", "logFlawed"} : Begins(<<"importProposal", step, "finishIntent">>)
           /\ Begins(<<"finishIntent">>) /\ Begins(Swap)
           /\ Begins(<<"reject", "remove", "logDestroyed">>)
           /\ Begins(<<"authorize", "authorize", "authorize", "authorize">>)
           /\ Begins(<<"remove", "logDestroyed", "reject">>) /\ Begins(<<"remove", "logDestroyed">>)
           /\ Begins(<<"evict", "reinstate", "logRepair">>) /\ Begins(<<"logRepair">>)
           /\ Begins(<<"backup", "logBackup", "swap", "logRepair">>)
      BY DEF Swap, Steps, ApplySteps
    <3> HIDE DEF Begins
    <3>14. Begins(op'.plan)
      BY <1>3, <3>1, <3>2, <3>3, <3>4, <3>5, <3>6, <3>7, <3>8, <3>9, <3>10, <3>11, <3>12, <3>13
         DEF Request
    <3> QED BY <3>14 DEF Begins
  <2> QED BY <2>1, NotStoring DEF Storing
<1> QED BY <1>2, <1>3

\* The record of a transition after its own update.
LEMMA UpdatedAt ==
    ASSUME LogInv, NEW t \in Txn, NEW x, Update(t, x)
    PROVE  tx'[t] = x /\ \A u \in Txn : u # t => tx'[u] = tx[u]
BY DEF Update, LogInv, LogTypeOK

LEMMA StepStored ==
    ASSUME Inductive, OrderFits, SnapshotsFit, Step
    PROVE  SnapshotsFit'
<1>1. VersionTrees \subseteq snapshots /\ NextStored /\ ControlTypeOK /\ LogInv
  BY DEF SnapshotsFit, NextStored, Storing, First, Inductive
<1>2. VersionTrees' \subseteq snapshots' /\ NextStored' => SnapshotsFit'
  BY DEF SnapshotsFit, NextStored, Storing, First
<1>3. snapshots' = snapshots /\ UNCHANGED receipts => VersionTrees' \subseteq snapshots'
  BY <1>1, VersionsKept
<1>4. CloneStep \/ PrepareStep \/ ImportProposalStep \/ LogSealStep => SnapshotsFit'
  <2> HAVE CloneStep \/ PrepareStep \/ ImportProposalStep \/ LogSealStep
  <2>1. /\ op.plan # <<>> /\ Head(op.plan) \in {"clone", "prepare"} \cup SealSteps
        /\ Go \/ Await \/ (\E reason \in Reasons : Throw(reason))
        /\ snapshots' = snapshots
    BY DEF CloneStep, PrepareStep, ImportProposalStep, LogSealStep, SealSteps, At, disk, Reasons
  <2>2. UNCHANGED receipts
    BY DEF CloneStep, PrepareStep, ImportProposalStep, LogSealStep, TRANSITION_PREPARED, INTENT_PREPARED, Fold,
           projected, logVars
  <2> QED BY <1>1, <1>2, <1>3, <2>1, <2>2, GoStored DEF SealSteps
<1>5. BackupStep \/ LogBackupStep \/ SwapStep \/ DropBackupStep \/ EvictStep \/ ReinstateStep => SnapshotsFit'
  <2> HAVE BackupStep \/ LogBackupStep \/ SwapStep \/ DropBackupStep \/ EvictStep \/ ReinstateStep
  <2>1. /\ op.plan # <<>>
        /\ Head(op.plan) \in {"backup", "logBackup", "swap", "dropBackup", "evict", "reinstate"}
        /\ Go \/ (\E reason \in Reasons : Throw(reason) \/ Fail(reason))
        /\ snapshots' = snapshots
    BY DEF BackupStep, LogBackupStep, SwapStep, DropBackupStep, EvictStep, ReinstateStep, At, disk,
           Reasons
  <2>2. UNCHANGED receipts
    BY DEF BackupStep, LogBackupStep, SwapStep, DropBackupStep, EvictStep, ReinstateStep,
           BACKUP_CREATED, Fold, projected, logVars
  <2> QED BY <1>1, <1>2, <1>3, <2>1, <2>2, GoStored
<1>6. SnapshotStep => SnapshotsFit'
  <2> HAVE SnapshotStep
  <2>1. /\ op.plan # <<>> /\ Head(op.plan) = "snapshot" /\ UNCHANGED logVars
        /\ \/ Go /\ snapshots' = snapshots \cup {tx[op.txn].next.tree}
           \/ Fail("IO") /\ snapshots' = snapshots
    BY DEF SnapshotStep, At
  <2>2. VersionTrees' \subseteq snapshots'
    BY <1>1, <2>1, VersionsKept DEF logVars
  <2>3. CASE Go /\ snapshots' = snapshots \cup {tx[op.txn].next.tree}
    <3>1. tx'[op.txn].next = tx[op.txn].next
      BY <2>1 DEF logVars
    <3> QED BY <1>1, <1>2, <2>1, <2>2, <2>3, <3>1, GoStored
  <2>4. CASE Fail("IO") /\ snapshots' = snapshots
    <3>1. CASE Undo
      <4>1. op'.plan = <<"evict", "reinstate", "remove", "logDestroyed", "restore">>
        BY <1>1, <3>1 DEF Undo, ControlTypeOK, Operation
      <4> QED BY <1>2, <2>2, <4>1, NotStoring DEF Storing
    <3>2. CASE Throw("IO")
      BY <1>2, <2>2, <3>2, NotStoring DEF Throw, Idle
    <3> QED BY <2>4, <3>1, <3>2 DEF Fail
  <2> QED BY <2>1, <2>3, <2>4
<1>7. ApplyStep => SnapshotsFit'
  <2> HAVE ApplyStep
  <2>1. /\ op.plan # <<>> /\ Head(op.plan) = "apply" /\ Go /\ WORKSPACE_APPLIED(op.txn)
        /\ snapshots' = snapshots /\ ~corrupt
    BY DEF ApplyStep, At, disk
  <2>2. op.txn \in Txn
    BY <1>1, <2>1, FirstStep DEF Inductive, TxnFreeSteps
  <2>3. UNCHANGED receipts /\ tx'[op.txn].next = tx[op.txn].next
    <3>1. CASE UNCHANGED projected
      BY <3>1 DEF projected
    <3>2. CASE Update(op.txn, [tx[op.txn] EXCEPT !.state = "APPLIED"]) /\ UNCHANGED receipts
      BY <1>1, <2>2, <3>2, UpdatedAt, RecordAt DEF Transition
    <3> QED BY <2>1, <3>1, <3>2 DEF WORKSPACE_APPLIED, Fold
  <2> QED BY <1>1, <1>2, <1>3, <2>1, <2>3, GoStored
<1>8. AckStep => SnapshotsFit'
  <2> HAVE AckStep
  <2>1. /\ op.plan # <<>> /\ Head(op.plan) = "ack" /\ Go /\ TRANSITION_ACKNOWLEDGED(op.txn)
        /\ snapshots' = snapshots /\ ~corrupt
    BY DEF AckStep, At, disk
  <2>2. op.txn \in Txn /\ tx[op.txn].next.tree \in snapshots /\ tx[op.txn].next \in View
    BY <1>1, <2>1, FirstStep DEF Inductive, TxnFreeSteps, NextSteps, ApplySteps, NextStored, Storing
  <2>3. VersionTrees' \subseteq snapshots'
    <3> DEFINE rcpt == [txn |-> op.txn, decision |-> "COMMITTED", view |-> tx[op.txn].next,
                        prior |-> tx[op.txn].base]
    <3>1. CASE UNCHANGED projected
      BY <1>3, <2>1, <3>1 DEF projected
    <3>2. CASE receipts' = Append(receipts, rcpt) /\ tx[op.txn].state = "APPLIED"
      <4>1. tx[op.txn].base \in View
        BY <1>1, <2>2, <3>2, RecordAt DEF FactsFit
      <4>2. rcpt \in Receipt /\ rcpt.view.tree \in snapshots
        BY <2>2, <4>1 DEF Receipt
      <4> HIDE DEF rcpt
      <4> QED BY <1>1, <2>1, <3>2, <4>2, VersionsKept
    <3> QED BY <2>1, <3>1, <3>2 DEF TRANSITION_ACKNOWLEDGED, Fold
  <2> QED BY <1>1, <1>2, <2>1, <2>3, GoStored
<1>9. RemoveStep \/ LogDestroyedStep => SnapshotsFit'
  <2> HAVE RemoveStep \/ LogDestroyedStep
  <2>1. /\ op.plan # <<>> /\ Head(op.plan) \in {"remove", "logDestroyed"}
        /\ Go \/ Await \/ (\E reason \in Reasons : Throw(reason))
        /\ snapshots' = snapshots
    BY DEF RemoveStep, LogDestroyedStep, At, disk, Reasons
  <2>2. UNCHANGED receipts /\ snapshots' = snapshots
    BY DEF RemoveStep, LogDestroyedStep, RUN_ARTIFACTS_DESTROYED, Fold, projected, logVars, disk
  <2> QED BY <1>1, <1>2, <1>3, <2>1, <2>2, GoStored
<1>10. ASSUME NEW restored \in BOOLEAN, At(IF restored THEN "restore" ELSE "reject"),
              DisposeStep(restored)
       PROVE  SnapshotsFit'
  <2> DEFINE decision == IF restored THEN "ABORTED" ELSE op.decision
             authority == IF restored THEN tx[op.txn].base ELSE head
             view == [authority EXCEPT !.epoch = @ + 1]
             rcpt == [txn |-> op.txn, decision |-> decision, view |-> view, prior |-> authority]
  <2>1. /\ op.plan # <<>> /\ Head(op.plan) \in {"reject", "restore"} /\ ~corrupt
        /\ ~restored => Head(op.plan) = "reject"
        /\ Go \/ Throw("RECOVERY_REQUIRED")
        /\ UNCHANGED logVars \/ NON_COMMIT_DISPOSITIONED(op.txn, decision, restored)
        /\ snapshots' = snapshots
    BY <1>10 DEF DisposeStep, At
  <2>2. op.txn \in Txn /\ decision \in NonCommits
    BY <1>1, <2>1, FirstStep DEF Inductive, TxnFreeSteps, NonCommits
  <2>3. VersionTrees' \subseteq snapshots'
    <3>1. CASE UNCHANGED receipts
      BY <1>3, <2>1, <3>1
    <3>2. CASE receipts' = Append(receipts, rcpt) /\ tx[op.txn].state # "NONE"
      <4>1. authority \in View
        BY <1>1, <2>2, <3>2, RecordAt DEF FactsFit, LogInv, LogTypeOK
      <4>2. view \in View
        BY <4>1 DEF View
      <4>3. rcpt \in Receipt /\ rcpt.decision # "COMMITTED"
        BY <2>2, <4>1, <4>2 DEF Receipt, NonCommits
      <4> HIDE DEF rcpt
      <4> QED BY <1>1, <2>1, <3>2, <4>3, VersionsKept
    <3> QED BY <2>1, <3>1, <3>2 DEF NON_COMMIT_DISPOSITIONED, DispositionBase, Fold, projected, logVars
  <2> QED BY <1>1, <1>2, <2>1, <2>3, GoStored DEF Reasons
<1>11. RejectStep \/ RestoreStep => SnapshotsFit'
  <2>1. RejectStep => At(IF FALSE THEN "restore" ELSE "reject") /\ DisposeStep(FALSE)
    BY DEF RejectStep
  <2>2. RestoreStep => At(IF TRUE THEN "restore" ELSE "reject") /\ DisposeStep(TRUE)
    BY DEF RestoreStep
  <2> QED BY <1>10, <2>1, <2>2
<1>12. AuthorizeStep => SnapshotsFit'
  <2> HAVE AuthorizeStep
  <2>1. /\ op.plan # <<>> /\ Head(op.plan) = "authorize" /\ snapshots' = snapshots
        /\ Continue \/ Run("apply", op.txn, SwapAndAcknowledge, None, None)
        /\ UNCHANGED <<up, todo, refusal>>
    BY DEF AuthorizeStep, At, disk
  <2>2. UNCHANGED receipts
    BY DEF AuthorizeStep, PROPOSAL_SEALED, EVIDENCE_RECORDED, PERMIT_ISSUED, PERMIT_CONSUMING, Fold,
           projected
  <2>3. CASE Continue
    BY <1>1, <1>2, <1>3, <2>1, <2>2, <2>3, GoStored DEF Go
  <2>4. CASE Run("apply", op.txn, SwapAndAcknowledge, None, None)
    <3>1. op'.plan = Swap
      BY <2>4, SwapWritten DEF Run
    <3> QED BY <1>2, <1>3, <2>1, <2>2, <3>1, NotStoring DEF Swap, Storing
  <2> QED BY <2>1, <2>3, <2>4
<1>13. LogRepairStep => SnapshotsFit'
  <2> HAVE LogRepairStep
  <2>1. /\ snapshots' = snapshots
        /\ op'.plan \in {<<"snapshot", "apply", "ack", "dropBackup">>,
                         <<"remove", "logDestroyed", "restore">>}
    BY DEF LogRepairStep, Run, disk
  <2>2. UNCHANGED receipts
    BY DEF LogRepairStep, REPAIR_APPLIED, Fold, projected
  <2> QED BY <1>2, <1>3, <2>1, <2>2, NotStoring DEF Storing
<1>14. FinishIntentStep => SnapshotsFit'
  <2> HAVE FinishIntentStep
  <2>1. op.plan # <<>> /\ Head(op.plan) = "finishIntent"
    BY DEF FinishIntentStep, At
  <2>2. /\ snapshots' = snapshots
        /\ Go \/ Throw("RECOVERY_REQUIRED") \/ op' = op
    BY DEF FinishIntentStep, FinishSeal, FinishExport, FinishPlatformRegeneration, FinishArchive,
           disk, Await
  <2>3. UNCHANGED receipts
    BY DEF FinishIntentStep, FinishSeal, FinishExport, FinishPlatformRegeneration, FinishArchive,
           PROPOSAL_SEALED, PROPOSAL_EXPORTED, PLATFORM_STATE_REGENERATED, AGENT_ARCHIVED, Fold,
           projected, logVars
  <2>4. CASE op' = op
    BY <1>2, <1>3, <2>1, <2>2, <2>3, <2>4, NotStoring DEF Storing
  <2> QED BY <1>1, <1>2, <1>3, <2>1, <2>2, <2>3, <2>4, GoStored DEF Reasons
<1>15. ExamineStep => SnapshotsFit'
  <2> HAVE ExamineStep
  <2>1. snapshots' = snapshots /\ UNCHANGED receipts
    BY DEF ExamineStep, logVars, disk
  <2>2. NextStored'
    <3>1. CASE Throw("RECOVERY_REQUIRED")
      BY <3>1, NotStoring DEF Throw, Idle
    <3>2. CASE op'.plan \in {<<"settle">>, <<"reinstate", "examine">>}
      BY <3>2, NotStoring DEF Storing
    <3>3. CASE /\ op'.kind = "recover" /\ todo # <<>> /\ RecoveryPlan(Head(todo)) # <<>>
               /\ op'.plan = RecoveryPlan(Head(todo)) \o <<"examine">>
      <4>1. Head(todo) \in Txn
        BY <1>1, <3>3, HeadTailProperties DEF ControlTypeOK
      <4>2. op'.plan \in {Pass, Back("reject"), Back("restore"), Applied, Forward}
        BY <3>3, <4>1, Recovering
      <4>3. Head(op'.plan) \in {"dropBackup", "snapshot", "apply"}
        BY <4>2 DEF Pass, Back, Applied, Forward
      <4> QED BY <3>3, <4>3, NotStoring DEF Storing
    <3> QED BY <3>1, <3>2, <3>3, ExaminePlanned
  <2> QED BY <1>2, <1>3, <2>1, <2>2
<1>16. SettleStep => SnapshotsFit'
  <2> HAVE SettleStep
  <2>1. snapshots' = snapshots /\ UNCHANGED receipts /\ op' = Idle
    BY DEF SettleStep, logVars, disk, Throw
  <2> QED BY <1>2, <1>3, <2>1, NotStoring DEF Idle
<1> QED BY <1>4, <1>5, <1>6, <1>7, <1>8, <1>9, <1>11, <1>12, <1>13, <1>14, <1>15, <1>16 DEF Step

LEMMA SnapshotsKept ==
    ASSUME Inductive, OrderFits, SnapshotsFit, [Next]_vars
    PROVE  SnapshotsFit'
<1>1. VersionTrees \subseteq snapshots /\ NextStored /\ ControlTypeOK /\ LogInv
  BY DEF SnapshotsFit, NextStored, Storing, First, Inductive
<1>2. snapshots' = snapshots /\ UNCHANGED receipts /\ NextStored' => SnapshotsFit'
  BY <1>1, VersionsKept DEF SnapshotsFit, NextStored, Storing, First
<1>3. CASE /\ snapshots' = snapshots /\ UNCHANGED <<receipts, tx>>
           /\ op' = op \/ op'.plan = <<>> \/ ~Storing(op'.kind, Head(op'.plan))
  BY <1>1, <1>2, <1>3, NotStoring DEF NextStored
<1>4. ASSUME NEW t \in Txn, Request(t) PROVE SnapshotsFit'
  <2>1. NextStored'
    BY <1>1, <1>4, RequestStored
  <2>2. snapshots' = snapshots
    BY <1>4 DEF Request, PrepareRun, CancelRun, SealProposal, ExportProposal, RecordRuntimeTeardown,
         RecordEvidence, IssuePermit, ApplyPromotion, PromotionCasConflict, Prepare,
         ApplyRollback, DisposeRun, DisposeReplay, RepairRollback, RepairForward, RepairRequest, disk
  <2>3. UNCHANGED receipts
    BY <1>4 DEF Request, PrepareRun, CancelRun, SealProposal, ExportProposal, RecordRuntimeTeardown,
         RecordEvidence, IssuePermit, ApplyPromotion, PromotionCasConflict, Prepare,
         ApplyRollback, DisposeRun, DisposeReplay, RepairRollback, RepairForward, RepairRequest,
         RUN_CANCELLED, INTENT_PREPARED, RUNTIME_TEARDOWN_RECORDED, EVIDENCE_RECORDED, PERMIT_ISSUED,
         PERMIT_CONSUMING, TRANSITION_PREPARED, Fold, projected, logVars
  <2> QED BY <1>2, <2>1, <2>2, <2>3
<1>5. UNCHANGED vars => SnapshotsFit'
  BY <1>3 DEF vars, logVars, disk, control
<1>6. ASSUME NEW t \in Txn, NEW tree \in Tree, AgentEdits(t, tree) PROVE SnapshotsFit'
  BY <1>3, <1>6 DEF AgentEdits, logVars, control
<1>7. ASSUME NEW tree \in Tree, Drift(tree) PROVE SnapshotsFit'
  BY <1>3, <1>7 DEF Drift, logVars, control
<1>8. RecoverPendingWorkerIntents \/ ArchiveAgent \/ ProbeWorkspace => SnapshotsFit'
  BY <1>3 DEF RecoverPendingWorkerIntents, ArchiveAgent, ProbeWorkspace, INTENT_PREPARED, Run, Storing,
              logVars, disk, control
<1>9. ASSUME NEW p \in Platform, RegeneratePlatformState(p) PROVE SnapshotsFit'
  BY <1>3, <1>9 DEF RegeneratePlatformState, INTENT_PREPARED, Run, Storing
<1>10. RecoverAgent \/ Start => SnapshotsFit'
  BY <1>3 DEF RecoverAgent, Start, BeginRecovery, Run, Storing, logVars, disk
<1>11. Crash \/ Sweep \/ InitializeThrows => SnapshotsFit'
  BY <1>3 DEF Crash, Sweep, InitializeThrows, Idle, logVars, disk
<1>12. Fault => SnapshotsFit'
  <2> HAVE Fault
  <2>1. op.plan # <<>> /\ snapshots' = snapshots /\ UNCHANGED <<receipts, tx>>
    BY DEF Fault, logVars
  <2>2. CASE op' = Idle
    BY <1>3, <2>1, <2>2 DEF Idle
  <2>3. CASE Undo
    <3>1. op'.plan = <<"evict", "reinstate", "remove", "logDestroyed", "restore">>
      BY <1>1, <2>3 DEF Undo, ControlTypeOK, Operation
    <3> QED BY <1>3, <2>1, <3>1 DEF Storing
  <2>4. CASE BestEffort /\ Head(op.plan) = "dropBackup" /\ op' = [op EXCEPT !.plan = Tail(@)]
    <3>1. Follows(op.kind, "dropBackup", Second)
      BY <1>1, <2>1, <2>4, Succession
    <3>2. Second # "end"
      BY <2>4, <3>1 DEF Follows, BestEffort
    <3>3. Advanced
      BY <1>1, <2>1, <2>4, <3>2, Advances DEF Second
    <3> QED BY <1>1, <1>2, <2>1, <2>4, <3>3, AdvancedStored
  <2> QED BY <2>2, <2>3, <2>4 DEF Fault, Fail, Throw
<1> QED BY <1>4, <1>5, <1>6, <1>7, <1>8, <1>9, <1>10, <1>11, <1>12, StepStored DEF Next

LEMMA InitFits == Init => OrderFits /\ SnapshotsFit
<1>1. Init => OrderFits
  BY DEF Init, OrderFits, Ordered, ProcessFits, Idle
<1>2. Init => VersionTrees = {InitialTree}
  BY DEF Init, LogInit, VersionTrees
<1>3. Init => SnapshotsFit
  BY <1>2 DEF Init, SnapshotsFit, First, Idle
<1> QED BY <1>1, <1>3

\* The order of a handler's steps and the snapshots it relies on are invariants
\* of every behaviour, under no condition.
THEOREM VersionsInvariance == Spec => [](Inductive /\ OrderFits /\ SnapshotsFit)
<1>1. Init => Inductive /\ OrderFits /\ SnapshotsFit
  BY InitInductive, InitFits
<1>2. Inductive /\ OrderFits /\ SnapshotsFit /\ [Next]_vars => (Inductive /\ OrderFits /\ SnapshotsFit)'
  BY NextInductive, OrderKept, SnapshotsKept
<1> QED BY <1>1, <1>2, PTL DEF Spec

\* Every version can be rolled back to (applyTreeAndAcknowledge, applyRollback,
\* recoverAgent): whatever is interrupted, fails, drifts or is repaired, the
\* snapshot of a commit is on disk before its acknowledgement is durable.
THEOREM VersionsStayRestorable == Spec => []VersionsRestorable
<1>1. SnapshotsFit => VersionsRestorable
  BY DEF SnapshotsFit, VersionsRestorable
<1> QED BY <1>1, VersionsInvariance, PTL

----------------------------------------------------------------------------
(* The log stays replayable. *)

\* After examine or settle a plan is over.
LEMMA LastStep ==
    ASSUME OrderFits', ControlTypeOK', op'.plan # <<>>, Head(op'.plan) \in {"examine", "settle"}
    PROVE  Len(op'.plan) = 1 /\ op'.plan[1] = Head(op'.plan)
<1>1. op'.plan \in Seq(Steps)
  BY DEF ControlTypeOK, Operation
<1>2. Len(op'.plan) \in Nat /\ Len(op'.plan) >= 1 /\ Head(op'.plan) = op'.plan[1]
  BY <1>1, EmptySeq, LenProperties
<1>3. 1 \in 1..Len(op'.plan)
  BY <1>2
<1>4. Follows(op'.kind, op'.plan[1], IF 1 = Len(op'.plan) THEN "end" ELSE op'.plan[1 + 1])
  BY <1>3 DEF OrderFits, Ordered
<1>5. 1 # Len(op'.plan) => op'.plan[1 + 1] \in Steps
  <2>1. \A n \in Nat : n >= 1 /\ 1 # n => 1 + 1 \in 1..n
    OBVIOUS
  <2>2. 1 # Len(op'.plan) => 1 + 1 \in 1..Len(op'.plan)
    BY <1>2, <2>1
  <2> QED BY <1>1, <2>2, LenProperties
<1>6. 1 # Len(op'.plan) => op'.plan[1 + 1] = "end"
  BY <1>2, <1>4 DEF Follows
<1>7. "end" \notin Steps
  BY DEF Steps, ApplySteps
<1> QED BY <1>2, <1>5, <1>6, <1>7

\* What is still to come was to come before.
LEMMA AdvancedSome ==
    ASSUME ControlTypeOK, op.plan # <<>>, Advanced, NEW s \in Steps,
           \E i \in 1..Len(op'.plan) : op'.plan[i] = s
    PROVE  \E i \in 1..Len(op.plan) : op.plan[i] = s
<1>1. PICK i \in 1..Len(op'.plan) : op'.plan[i] = s
  OBVIOUS
<1>2. Len(op.plan) \in Nat
  BY PlanLength
<1>3. CASE op' = Idle
  <2>1. Len(op'.plan) = 0
    BY <1>3 DEF Idle
  <2> QED BY <1>1, <2>1
<1>4. CASE /\ Len(op'.plan) = Len(op.plan) - 1
           /\ \A j \in 1..Len(op'.plan) : op'.plan[j] = op.plan[j + 1]
  <2>1. i + 1 \in 1..Len(op.plan) /\ op.plan[i + 1] = s
    BY <1>1, <1>2, <1>4
  <2> QED BY <2>1
<1> QED BY <1>3, <1>4 DEF Advanced

\* The state a step leaves the transition in.
StateAfter(step, from, to) ==
    \/ step \in {"prepare", "authorize"}
    \/ step = "apply" /\ to = "APPLIED"
    \/ step = "ack" /\ to = "ACKNOWLEDGED"
    \/ step \in {"reject", "restore"} /\ to = "ROLLED_BACK"
    \/ step \notin {"prepare", "authorize", "apply", "ack", "reject", "restore"} /\ to = from

\* What a plan that begins with this step and has these still to come asks of
\* the state of its transition.
Fitting(kind, first, rejecting, restoring, state) ==
    /\ kind = "prepareRun" => state = "NONE"
    /\ kind = "apply" /\ first \in ApplySteps \ {"ack"} => state = "CONSUMING"
    /\ kind = "recover" /\ first = "apply" => state = "CONSUMING"
    /\ first = "ack" => state = "APPLIED"
    /\ kind = "recover" /\ first = "snapshot" => state = "APPLIED"
    /\ kind = "undo" => state \in {"CONSUMING", "APPLIED"}
    /\ kind = "conflict" /\ first = "reject" => state = "PERMITTED"
    /\ kind = "dispose" => state \in OpenStates
    /\ first \in Cleaning => state # "NONE"
    /\ kind = "recover" /\ rejecting => state \in OpenStates
    /\ kind = "recover" /\ restoring =>
         state \in {"CONSUMING", "APPLIED"} /\ first \notin {"apply", "snapshot", "ack"}

LEMMA FittingSame ==
    ASSUME op.plan # <<>>
    PROVE  StateFits <=> Fitting(op.kind, Head(op.plan), Some({"reject"}), Some({"restore"}),
                                 tx[op.txn].state)
BY DEF StateFits, Fitting, First

LEMMA FittingNext ==
    ASSUME op'.plan # <<>>
    PROVE  StateFits' <=> Fitting(op'.kind, Head(op'.plan),
                                  (\E i \in 1..Len(op'.plan) : op'.plan[i] = "reject"),
                                  (\E i \in 1..Len(op'.plan) : op'.plan[i] = "restore"),
                                  tx'[op'.txn].state)
BY DEF StateFits, Fitting, First, Some

LEMMA FittingIdle ==
    ASSUME op' = Idle
    PROVE  StateFits'
BY DEF StateFits, First, Some, Idle

LEMMA FittingAdvanced ==
    ASSUME NEW kind, NEW a \in Steps, NEW b \in Steps, NEW r1 \in BOOLEAN, NEW r2 \in BOOLEAN,
           NEW s1 \in BOOLEAN, NEW s2 \in BOOLEAN, NEW from, NEW to,
           Fitting(kind, a, r1, r2, from), Follows(kind, a, b), StateAfter(a, from, to),
           b # "end", s1 => r1, s2 => r2, b = "examine" => ~s1 /\ ~s2, a = "reject" => r1, a = "restore" => r2,
           kind \notin {"repair", "repaired"}
    PROVE  Fitting(kind, b, s1, s2, to)
<1> USE DEF Fitting, Follows, StateAfter, Cleaning, ApplySteps
<1>1. kind = "prepareRun" => to = "NONE"
  OBVIOUS
<1>2. kind = "apply" /\ b \in ApplySteps \ {"ack"} => to = "CONSUMING"
  OBVIOUS
<1>3. kind = "recover" /\ b = "apply" => to = "CONSUMING"
  OBVIOUS
<1>4. b = "ack" => to = "APPLIED"
  OBVIOUS
<1>5. kind = "recover" /\ b = "snapshot" => to = "APPLIED"
  OBVIOUS
<1>6. kind = "undo" => to \in {"CONSUMING", "APPLIED"}
  OBVIOUS
<1>7. kind = "conflict" /\ b = "reject" => to = "PERMITTED"
  OBVIOUS
<1>8. kind = "dispose" => to \in OpenStates
  OBVIOUS
<1>9. b \in Cleaning => to # "NONE"
  BY DEF OpenStates
<1>10. kind = "recover" /\ s1 => to \in OpenStates
  BY DEF OpenStates
<1>11. kind = "recover" /\ s2 =>
         to \in {"CONSUMING", "APPLIED"} /\ b \notin {"apply", "snapshot", "ack"}
  BY DEF OpenStates
<1> QED BY <1>1, <1>2, <1>3, <1>4, <1>5, <1>6, <1>7, <1>8, <1>9, <1>10, <1>11

LEMMA AdvancedFits ==
    ASSUME OrderFits, ControlTypeOK, OrderFits', ControlTypeOK', StateFits, op.plan # <<>>, Advanced,
           op.kind \notin {"repair", "repaired"},
           StateAfter(Head(op.plan), tx[op.txn].state, tx'[op.txn].state)
    PROVE  StateFits'
<1>1. CASE op' = Idle
  BY <1>1, FittingIdle
<1>2. CASE /\ op'.kind = op.kind /\ op'.txn = op.txn /\ op'.plan # <<>>
           /\ Follows(op.kind, Head(op.plan), Head(op'.plan))
  <2> DEFINE s1 == \E i \in 1..Len(op'.plan) : op'.plan[i] = "reject"
             s2 == \E i \in 1..Len(op'.plan) : op'.plan[i] = "restore"
             b == Head(op'.plan)
  <2>1. Fitting(op.kind, Head(op.plan), Some({"reject"}), Some({"restore"}), tx[op.txn].state)
    BY FittingSame
  <2>2. "reject" \in Steps /\ "restore" \in Steps
    BY DEF Steps
  <2>3. s1 => Some({"reject"})
    BY <2>2, AdvancedSome DEF Some
  <2>4. s2 => Some({"restore"})
    BY <2>2, AdvancedSome DEF Some
  <2>5. b = "examine" => ~s1 /\ ~s2
    <3> HAVE b = "examine"
    <3>1. Len(op'.plan) = 1 /\ op'.plan[1] = "examine"
      BY <1>2, LastStep
    <3> QED BY <3>1
  <2>6. /\ Head(op.plan) = "reject" => Some({"reject"})
        /\ Head(op.plan) = "restore" => Some({"restore"})
    <3>1. 1 \in 1..Len(op.plan) /\ Head(op.plan) = op.plan[1]
      BY PlanLength
    <3> QED BY <3>1 DEF Some
  <2>7. Head(op.plan) \in Steps /\ b \in Steps /\ b # "end"
    <3>1. op'.plan \in Seq(Steps)
      BY DEF ControlTypeOK, Operation
    <3>2. "end" \notin Steps
      BY DEF Steps, ApplySteps
    <3> QED BY <1>2, <3>1, <3>2, PlanLength, HeadTailProperties
  <2>8. Some({"reject"}) \in BOOLEAN /\ Some({"restore"}) \in BOOLEAN
    BY DEF Some
  <2> HIDE DEF b
  <2>9. Fitting(op.kind, b, s1, s2, tx'[op.txn].state)
    <3>1. s1 \in BOOLEAN /\ s2 \in BOOLEAN
      OBVIOUS
    <3> HIDE DEF s1, s2
    <3> QED BY <1>2, <2>1, <2>3, <2>4, <2>5, <2>6, <2>7, <2>8, <3>1, FittingAdvanced DEF b
  <2> QED BY <1>2, <2>9, FittingNext DEF b
<1> QED BY <1>1, <1>2, AdvancedTo

\* A step from a state that is replayable, with what is known of it already.
Replaying == Inductive /\ Inductive' /\ OrderFits /\ OrderFits' /\ Replayable

LEMMA Unaltered ==
    ASSUME Replaying, UNCHANGED <<tx, corrupt>>
    PROVE  ~corrupt' /\ \A u \in Txn : tx'[u].state # "REPAIRED"
BY DEF Replaying, Replayable

LEMMA Altered ==
    ASSUME Replaying, UNCHANGED corrupt, NEW t \in Txn, NEW x, Update(t, x), x.state # "REPAIRED"
    PROVE  /\ ~corrupt' /\ \A u \in Txn : tx'[u].state # "REPAIRED"
           /\ tx'[t] = x /\ \A u \in Txn \ {t} : tx'[u] = tx[u]
BY DEF Replaying, Replayable, Update, Inductive, LogInv, LogTypeOK

\* The step is taken, or the handler throws.
LEMMA WentOnReplays ==
    ASSUME Replaying, op.plan # <<>>, ~corrupt', \A u \in Txn : tx'[u].state # "REPAIRED",
           \/ op' = Idle
           \/ Continue /\ StateAfter(Head(op.plan), tx[op.txn].state, tx'[op.txn].state)
    PROVE  Replayable'
<1>1. ControlTypeOK /\ ControlTypeOK'
  BY DEF Replaying, Inductive
<1>2. CASE op' = Idle
  BY <1>2, FittingIdle DEF Replayable, Idle
<1>3. CASE Continue /\ StateAfter(Head(op.plan), tx[op.txn].state, tx'[op.txn].state)
  <2>1. Advanced
    BY <1>1, <1>3, Advances
  <2>2. StateFits'
    BY <1>1, <1>3, <2>1, AdvancedFits DEF Replaying, Replayable
  <2>3. op'.kind \notin {"repair", "repaired"}
    BY <2>1 DEF Replaying, Replayable, Advanced, Idle
  <2> QED BY <2>2, <2>3 DEF Replayable
<1> QED BY <1>2, <1>3

\* A step that leaves the log alone.
LEMMA DiskReplays ==
    ASSUME Replaying, op.plan # <<>>, UNCHANGED <<tx, corrupt>>,
           Continue \/ op' = Idle \/ op' = op,
           Head(op.plan) \notin {"prepare", "authorize", "apply", "ack", "reject", "restore"}
    PROVE  Replayable'
<1>1. op' = op => Replayable'
  BY DEF Replaying, Replayable, StateFits, First, Some
<1> QED BY <1>1, Unaltered, WentOnReplays DEF StateAfter

\* Another plan.
LEMMA PlannedReplays ==
    ASSUME Replaying, ~corrupt', \A u \in Txn : tx'[u].state # "REPAIRED", op'.plan # <<>>,
           op'.kind \notin {"repair", "repaired"},
           Fitting(op'.kind, Head(op'.plan), \E i \in 1..Len(op'.plan) : op'.plan[i] = "reject",
                   \E i \in 1..Len(op'.plan) : op'.plan[i] = "restore", tx'[op'.txn].state)
    PROVE  Replayable'
BY FittingNext DEF Replayable

\* A plan of no recovery.
LEMMA RequestPlanned ==
    ASSUME Replaying, ~corrupt', \A u \in Txn : tx'[u].state # "REPAIRED", op'.plan # <<>>,
           op'.kind \notin {"repair", "repaired", "recover"},
           Fitting(op'.kind, Head(op'.plan), FALSE, FALSE, tx'[op'.txn].state)
    PROVE  Replayable'
<1>1. ASSUME NEW r, NEW s PROVE Fitting(op'.kind, Head(op'.plan), r, s, tx'[op'.txn].state)
  BY DEF Fitting
<1> QED BY <1>1, PlannedReplays

\* The swap is undone.
LEMMA UndoReplays ==
    ASSUME Replaying, Undo, UNCHANGED <<tx, corrupt>>, op.kind = "apply", op.plan # <<>>,
           Head(op.plan) \in ApplySteps
    PROVE  Replayable'
<1>1. op'.kind = "undo" /\ op'.txn = op.txn
      /\ op'.plan = <<"evict", "reinstate", "remove", "logDestroyed", "restore">>
  BY DEF Undo, Replaying, Inductive, ControlTypeOK, Operation
<1>2. tx[op.txn].state \in {"CONSUMING", "APPLIED"}
  BY DEF Replaying, Replayable, StateFits, First, ApplySteps
<1>3. Fitting("undo", "evict", FALSE, FALSE, tx'[op'.txn].state)
  BY <1>1, <1>2 DEF Fitting, Cleaning
<1> QED BY <1>1, <1>3, Unaltered, RequestPlanned

LEMMA FailReplays ==
    ASSUME Replaying, op.plan # <<>>, NEW reason, Fail(reason), UNCHANGED <<tx, corrupt>>
    PROVE  Replayable'
<1>1. CASE op' = Idle
  BY <1>1, Unaltered, WentOnReplays
<1> QED BY <1>1, UndoReplays DEF Fail, Throw

\* Steps that append no event.
LEMMA QuietStepReplays ==
    ASSUME Replaying,
           \/ CloneStep \/ ImportProposalStep \/ LogSealStep \/ BackupStep \/ SwapStep \/ SnapshotStep
           \/ DropBackupStep \/ RemoveStep \/ EvictStep \/ ReinstateStep \/ SettleStep
    PROVE  Replayable'
<1>1. CloneStep => Replayable'
  BY DiskReplays DEF CloneStep, At, Go, Throw, logVars
<1>2. ImportProposalStep => Replayable'
  BY DiskReplays DEF ImportProposalStep, At, Go, Await, Throw, logVars
<1>11. LogSealStep => Replayable'
  BY DiskReplays DEF LogSealStep, INTENT_PREPARED, At, Go
<1>3. BackupStep => Replayable'
  <2> HAVE BackupStep
  <2>1. op.plan # <<>> /\ Head(op.plan) = "backup" /\ UNCHANGED <<tx, corrupt>> /\ (Go \/ Fail("IO"))
    BY DEF BackupStep, At, logVars
  <2> QED BY <2>1, DiskReplays, FailReplays DEF Go
<1>4. SwapStep => Replayable'
  BY DiskReplays DEF SwapStep, At, Go, logVars
<1>5. SnapshotStep => Replayable'
  <2> HAVE SnapshotStep
  <2>1. op.plan # <<>> /\ Head(op.plan) = "snapshot" /\ UNCHANGED <<tx, corrupt>> /\ (Go \/ Fail("IO"))
    BY DEF SnapshotStep, At, logVars
  <2> QED BY <2>1, DiskReplays, FailReplays DEF Go
<1>6. DropBackupStep => Replayable'
  BY DiskReplays DEF DropBackupStep, At, Go, logVars
<1>7. RemoveStep => Replayable'
  BY DiskReplays DEF RemoveStep, At, Go, Await, Throw, logVars
<1>8. EvictStep => Replayable'
  BY DiskReplays DEF EvictStep, At, Go, Throw, logVars
<1>9. ReinstateStep => Replayable'
  BY DiskReplays DEF ReinstateStep, At, Go, Throw, logVars
<1>10. SettleStep => Replayable'
  BY DiskReplays DEF SettleStep, At, Throw, logVars
<1> QED BY <1>1, <1>2, <1>3, <1>4, <1>5, <1>6, <1>7, <1>8, <1>9, <1>10, <1>11

\* What holds when the first step of a plan is about op.txn.
LEMMA Facing ==
    ASSUME Replaying, NEW s \in Steps \ TxnFreeSteps, At(s)
    PROVE  /\ op.plan # <<>> /\ Head(op.plan) = s /\ op.txn \in Txn
           /\ tx[op.txn] \in Transition /\ PermitFits(tx[op.txn])
           /\ Follows(op.kind, s, Second) /\ op.kind \notin {"repair", "repaired"}
           /\ Fitting(op.kind, s, Some({"reject"}), Some({"restore"}), tx[op.txn].state)
           /\ s = "reject" => Some({"reject"})
           /\ s = "restore" => Some({"restore"})
<1>1. ControlTypeOK /\ PlanFits /\ op.plan # <<>> /\ Head(op.plan) = s /\ LogInv
  BY DEF At, Replaying, Inductive
<1>2. op.txn \in Txn
  BY <1>1, FirstStep
<1>3. tx[op.txn] \in Transition /\ PermitFits(tx[op.txn])
  BY <1>1, <1>2, RecordAt
<1>4. Follows(op.kind, s, Second)
  BY <1>1, Succession DEF Replaying
<1>5. Fitting(op.kind, s, Some({"reject"}), Some({"restore"}), tx[op.txn].state)
  BY <1>1, FittingSame DEF Replaying, Replayable
<1>6. 1 \in 1..Len(op.plan) /\ op.plan[1] = s
  BY <1>1, PlanLength
<1> QED BY <1>1, <1>2, <1>3, <1>4, <1>5, <1>6 DEF Some, Replaying, Replayable

LEMMA PrepareStepReplays ==
    ASSUME Replaying, PrepareStep
    PROVE  Replayable'
<1>1. At("prepare") /\ "prepare" \in Steps \ TxnFreeSteps
  BY DEF PrepareStep, Steps, TxnFreeSteps
<1>2. tx[op.txn].state = "NONE" /\ op.txn \in Txn
  BY <1>1, Facing DEF Fitting, Follows
<1>3. UNCHANGED corrupt /\ Update(op.txn, [Unprepared EXCEPT !.state = "PREPARED", !.base = head])
  BY <1>2 DEF PrepareStep, TRANSITION_PREPARED, Fold
<1>4. [Unprepared EXCEPT !.state = "PREPARED", !.base = head].state = "PREPARED"
  BY DEF Unprepared
<1>5. ~corrupt' /\ \A u \in Txn : tx'[u].state # "REPAIRED"
  BY <1>2, <1>3, <1>4, Altered
<1> QED BY <1>1, <1>5, Facing, WentOnReplays DEF PrepareStep, Go, StateAfter

LEMMA AuthorizeStepReplays ==
    ASSUME Replaying, AuthorizeStep
    PROVE  Replayable'
<1> DEFINE t == op.txn
<1>1. At("authorize") /\ "authorize" \in Steps \ TxnFreeSteps
  BY DEF AuthorizeStep, Steps, TxnFreeSteps
<1>2. t \in Txn /\ tx[t] \in Transition /\ PermitFits(tx[t]) /\ op.plan # <<>> /\ Head(op.plan) = "authorize"
  BY <1>1, Facing
<1>3. ASSUME NEW x, UNCHANGED corrupt, Update(t, x), x.state # "REPAIRED", Continue
      PROVE  Replayable'
  BY <1>2, <1>3, Altered, WentOnReplays DEF StateAfter
<1>4. CASE tx[t].state = "PREPARED" /\ PROPOSAL_SEALED(t, op.tree, TRUE) /\ Continue
  <2> DEFINE x == [tx[t] EXCEPT !.state = "SEALED", !.artifact = op.tree, !.clean = TRUE]
  <2>1. UNCHANGED corrupt /\ Update(t, x)
    BY <1>4 DEF PROPOSAL_SEALED, Fold
  <2>2. x.state = "SEALED"
    BY <1>2 DEF Transition
  <2> QED BY <1>3, <1>4, <2>1, <2>2
<1>5. CASE tx[t].state = "SEALED" /\ EVIDENCE_RECORDED(t, TRUE) /\ Continue
  <2> DEFINE x == [tx[t] EXCEPT !.state = "EVIDENCED", !.passed = TRUE]
  <2>1. UNCHANGED corrupt /\ Update(t, x)
    BY <1>5 DEF EVIDENCE_RECORDED, Fold
  <2>2. x.state = "EVIDENCED"
    BY <1>2 DEF Transition
  <2> QED BY <1>3, <1>5, <2>1, <2>2
<1>6. CASE tx[t].state = "EVIDENCED" /\ PERMIT_ISSUED(t) /\ Continue
  <2> DEFINE x == [tx[t] EXCEPT !.state = "PERMITTED", !.permit = "ISSUED"]
  <2>1. tx[t].permit = "NONE"
    BY <1>2, <1>6 DEF PermitFits, Transition, PermitStates, CrossingStates
  <2>2. UNCHANGED corrupt /\ Update(t, x)
    BY <1>6, <2>1 DEF PERMIT_ISSUED, Fold
  <2>3. x.state = "PERMITTED"
    BY <1>2 DEF Transition
  <2> QED BY <1>3, <1>6, <2>2, <2>3
<1>7. CASE /\ tx[t].state = "PERMITTED" /\ PERMIT_CONSUMING(t, NextView(t, op.tree, 1))
           /\ Run("apply", t, SwapAndAcknowledge, None, None)
  <2> DEFINE x == [tx[t] EXCEPT !.state = "CONSUMING", !.permit = "CONSUMING",
                                !.next = NextView(t, op.tree, 1)]
  <2>1. tx[t].permit = "ISSUED"
    BY <1>2, <1>7 DEF PermitFits
  <2>2. UNCHANGED corrupt /\ Update(t, x)
    BY <1>7, <2>1 DEF PERMIT_CONSUMING, Fold
  <2>3. x.state = "CONSUMING"
    BY <1>2 DEF Transition
  <2>4. op'.kind = "apply" /\ op'.txn = t /\ op'.plan = Swap
    BY <1>7, SwapWritten DEF Run
  <2>5. op'.plan # <<>> /\ Head(op'.plan) = "backup"
    BY <2>4 DEF Swap
  <2>6. ~corrupt' /\ (\A u \in Txn : tx'[u].state # "REPAIRED") /\ tx'[t] = x
    BY <1>2, <2>2, <2>3, Altered
  <2>7. Fitting("apply", "backup", FALSE, FALSE, tx'[t].state)
    BY <2>3, <2>6 DEF Fitting, Cleaning
  <2> QED BY <2>4, <2>5, <2>6, <2>7, RequestPlanned
<1> QED BY <1>4, <1>5, <1>6, <1>7 DEF AuthorizeStep

LEMMA LogBackupStepReplays ==
    ASSUME Replaying, LogBackupStep
    PROVE  Replayable'
<1>1. At("logBackup") /\ "logBackup" \in Steps \ TxnFreeSteps
  BY DEF LogBackupStep, Steps, ApplySteps, TxnFreeSteps
<1>2. op.kind = "apply" /\ tx[op.txn].state = "CONSUMING"
  BY <1>1, Facing DEF Fitting, Follows, ApplySteps
<1>3. UNCHANGED <<tx, corrupt>>
  BY <1>2 DEF LogBackupStep, BACKUP_CREATED, ExpectedBase, Fold, projected
<1> QED BY <1>1, <1>3, Facing, DiskReplays DEF LogBackupStep, Go

LEMMA ApplyStepReplays ==
    ASSUME Replaying, ApplyStep
    PROVE  Replayable'
<1> DEFINE t == op.txn
           x == [tx[t] EXCEPT !.state = "APPLIED"]
<1>1. At("apply") /\ "apply" \in Steps \ TxnFreeSteps
  BY DEF ApplyStep, Steps, ApplySteps, TxnFreeSteps
<1>2. /\ tx[t].state = "CONSUMING" /\ t \in Txn /\ tx[t] \in Transition
      /\ op.plan # <<>> /\ Head(op.plan) = "apply"
  BY <1>1, Facing DEF Fitting, Follows, ApplySteps
<1>3. UNCHANGED corrupt /\ Update(t, x)
  BY <1>2 DEF ApplyStep, WORKSPACE_APPLIED, Fold
<1>4. x.state = "APPLIED"
  BY <1>2 DEF Transition
<1>5. ~corrupt' /\ (\A u \in Txn : tx'[u].state # "REPAIRED") /\ tx'[t] = x
  BY <1>2, <1>3, <1>4, Altered
<1> QED BY <1>2, <1>4, <1>5, WentOnReplays DEF ApplyStep, Go, StateAfter

LEMMA AckStepReplays ==
    ASSUME Replaying, AckStep
    PROVE  Replayable'
<1> DEFINE t == op.txn
           x == [tx[t] EXCEPT !.state = "ACKNOWLEDGED",
                              !.permit = IF @ = "NONE" THEN @ ELSE "CONSUMED"]
<1>1. At("ack") /\ "ack" \in Steps \ TxnFreeSteps
  BY DEF AckStep, Steps, ApplySteps, TxnFreeSteps
<1>2. /\ tx[t].state = "APPLIED" /\ t \in Txn /\ tx[t] \in Transition
      /\ op.plan # <<>> /\ Head(op.plan) = "ack"
  BY <1>1, Facing DEF Fitting
<1>3. UNCHANGED corrupt /\ Update(t, x)
  BY <1>2 DEF AckStep, TRANSITION_ACKNOWLEDGED, Fold
<1>4. x.state = "ACKNOWLEDGED"
  BY <1>2 DEF Transition
<1>5. ~corrupt' /\ (\A u \in Txn : tx'[u].state # "REPAIRED") /\ tx'[t] = x
  BY <1>2, <1>3, <1>4, Altered
<1> QED BY <1>2, <1>4, <1>5, WentOnReplays DEF AckStep, Go, StateAfter

LEMMA LogDestroyedStepReplays ==
    ASSUME Replaying, LogDestroyedStep
    PROVE  Replayable'
<1> DEFINE t == op.txn
           x == [tx[t] EXCEPT !.destroyed = TRUE]
<1>1. At("logDestroyed") /\ "logDestroyed" \in Steps \ TxnFreeSteps
  BY DEF LogDestroyedStep, Steps, TxnFreeSteps
<1>2. /\ tx[t].state # "NONE" /\ t \in Txn /\ tx[t] \in Transition
      /\ op.plan # <<>> /\ Head(op.plan) = "logDestroyed"
  BY <1>1, Facing DEF Fitting, Cleaning
<1>3. CASE tx[t].destroyed
  BY <1>2, <1>3, DiskReplays DEF LogDestroyedStep, Go, logVars
<1>4. CASE ~tx[t].destroyed
  <2>1. UNCHANGED corrupt /\ Update(t, x)
    BY <1>2, <1>4 DEF LogDestroyedStep, RUN_ARTIFACTS_DESTROYED, Fold
  <2>2. x.state = tx[t].state /\ x.state # "REPAIRED"
    BY <1>2 DEF Transition, Replaying, Replayable
  <2>3. ~corrupt' /\ (\A u \in Txn : tx'[u].state # "REPAIRED") /\ tx'[t] = x
    BY <1>2, <2>1, <2>2, Altered
  <2> QED BY <1>2, <2>2, <2>3, WentOnReplays DEF LogDestroyedStep, Go, StateAfter
<1> QED BY <1>3, <1>4

LEMMA DisposeStepReplays ==
    ASSUME Replaying, NEW restored \in BOOLEAN, At(IF restored THEN "restore" ELSE "reject"),
           DisposeStep(restored)
    PROVE  Replayable'
<1> DEFINE t == op.txn
           s == IF restored THEN "restore" ELSE "reject"
           x == [tx[t] EXCEPT !.state = "ROLLED_BACK",
                              !.permit = IF @ = "NONE" THEN @ ELSE "REVOKED"]
           decision == IF restored THEN "ABORTED" ELSE op.decision
<1>1. s \in Steps \ TxnFreeSteps /\ s \in {"reject", "restore"} /\ At(s)
  BY DEF Steps, TxnFreeSteps
<1>2. /\ t \in Txn /\ tx[t] \in Transition /\ PermitFits(tx[t]) /\ op.plan # <<>> /\ Head(op.plan) = s
      /\ Follows(op.kind, s, Second) /\ op.kind \notin {"repair", "repaired"}
      /\ Fitting(op.kind, s, Some({"reject"}), Some({"restore"}), tx[t].state)
      /\ s = "reject" => Some({"reject"})
      /\ s = "restore" => Some({"restore"})
  BY <1>1, Facing
<1>3. tx[t].state \in OpenStates \cup {"CONSUMING", "APPLIED"}
  <2>1. CASE s = "reject"
    <3>1. op.kind \in {"conflict", "dispose", "recover"}
      BY <1>2, <2>1 DEF Follows
    <3> QED BY <1>2, <2>1, <3>1 DEF Fitting, OpenStates
  <2>2. CASE s = "restore"
    <3>1. op.kind \in {"undo", "recover"}
      BY <1>2, <2>2 DEF Follows
    <3> QED BY <1>2, <2>2, <3>1 DEF Fitting
  <2> QED BY <1>1, <2>1, <2>2
<1>4. tx[t].state \notin {"NONE", "ACKNOWLEDGED", "REPAIRED"} /\ tx[t].permit # "CONSUMED"
  BY <1>2, <1>3 DEF OpenStates, PermitFits
<1> HIDE DEF s
<1>5. CASE Throw("RECOVERY_REQUIRED") /\ UNCHANGED logVars
  BY <1>2, <1>5, Unaltered, WentOnReplays DEF Throw, logVars
<1>6. CASE ~HasReceipt(t) /\ NON_COMMIT_DISPOSITIONED(t, decision, restored) /\ Go
  <2>1. UNCHANGED corrupt /\ Update(t, x)
    BY <1>4, <1>6 DEF NON_COMMIT_DISPOSITIONED, Fold
  <2>2. x.state = "ROLLED_BACK"
    BY <1>2 DEF Transition
  <2> HIDE DEF x
  <2>3. ~corrupt' /\ (\A u \in Txn : tx'[u].state # "REPAIRED") /\ tx'[t] = x
    BY <1>2, <2>1, <2>2, Altered
  <2>4. StateAfter(Head(op.plan), tx[t].state, tx'[t].state)
    BY <1>1, <1>2, <2>2, <2>3 DEF StateAfter
  <2> QED BY <1>2, <1>6, <2>3, <2>4, WentOnReplays DEF Go
<1> QED BY <1>5, <1>6 DEF DisposeStep

LEMMA LogRepairStepReplays ==
    ASSUME Replaying, LogRepairStep
    PROVE  Replayable'
<1>1. At("logRepair") /\ "logRepair" \in Steps \ TxnFreeSteps
  BY DEF LogRepairStep, Steps, TxnFreeSteps
<1> QED BY <1>1, Facing DEF Follows

\* While an intent is being finished the running operation has recorded nothing
\* about a transition that it could upset.
LEMMA AwaitReplays ==
    ASSUME Replaying, At("finishIntent"), op' = op, ~corrupt',
           \A u \in Txn : tx'[u] = tx[u] \/ (tx[u].state \in OpenStates /\ tx'[u].state \in OpenStates)
                           \/ tx'[u].state = tx[u].state
    PROVE  Replayable'
<1>1. op.plan # <<>> /\ Head(op.plan) = "finishIntent" /\ PlanFits /\ ControlTypeOK
  BY DEF At, Replaying, Inductive
<1>2. Follows(op.kind, "finishIntent", Second)
  BY <1>1, Succession DEF Replaying
<1>3. op.kind \in {"seal", "export", "platform", "archive", "intents", "recover"}
  BY <1>2 DEF Follows
<1>4. \A u \in Txn : tx'[u].state # "REPAIRED"
  BY DEF Replaying, Replayable, OpenStates
<1>5. Fitting(op.kind, "finishIntent", Some({"reject"}), Some({"restore"}), tx[op.txn].state)
  BY <1>1, FittingSame DEF Replaying, Replayable
<1>6. op.txn \notin Txn => ~Some({"reject"}) /\ ~Some({"restore"})
  <2>1. op.txn \notin Txn => op.plan \in Seq(TxnFreeSteps)
    BY <1>1 DEF PlanFits
  <2>2. op.plan \in Seq(TxnFreeSteps) => \A i \in 1..Len(op.plan) : op.plan[i] \in TxnFreeSteps
    BY LenProperties
  <2> QED BY <2>1, <2>2 DEF Some, TxnFreeSteps
<1>7. Fitting(op.kind, "finishIntent", Some({"reject"}), Some({"restore"}), tx'[op.txn].state)
  <2>1. CASE op.txn \in Txn
    BY <1>3, <1>5, <2>1 DEF Fitting, OpenStates, ApplySteps, Cleaning
  <2>2. CASE op.txn \notin Txn
    BY <1>3, <1>6, <2>2 DEF Fitting, ApplySteps, Cleaning
  <2> QED BY <2>1, <2>2
<1> QED BY <1>1, <1>3, <1>4, <1>7, PlannedReplays DEF Some

LEMMA FinishIntentStepReplays ==
    ASSUME Replaying, FinishIntentStep
    PROVE  Replayable'
<1>1. At("finishIntent") /\ op.plan # <<>> /\ Head(op.plan) = "finishIntent" /\ LogInv
  BY DEF FinishIntentStep, At, Replaying, Inductive
<1>2. CASE pending = {}
  <2>1. UNCHANGED <<tx, corrupt>> /\ (Go \/ Throw("RECOVERY_REQUIRED"))
    BY <1>2 DEF FinishIntentStep, logVars
  <2> QED BY <1>1, <2>1, DiskReplays DEF Go, Throw
<1>3. CASE Throw("RECOVERY_REQUIRED") /\ UNCHANGED logVars
  BY <1>1, <1>3, DiskReplays DEF Throw, logVars
<1>4. CASE Await /\ UNCHANGED <<tx, corrupt>>
  BY <1>1, <1>4, AwaitReplays, Unaltered DEF Await
<1>5. ASSUME NEW intent \in pending, intent.kind = "seal", FinishSeal(intent)
      PROVE  Replayable'
  <2> DEFINE t == intent.txn
             x == [tx[t] EXCEPT !.state = "SEALED", !.artifact = proposal[t], !.clean = intent.clean]
  <2>1. t \in Txn
    BY <1>1, <1>5, IntentParts DEF LogInv, LogTypeOK
  <2>2. tx[t] \in Transition
    BY <1>1, <2>1, RecordAt
  <2>3. CASE /\ tx[t].state = "PREPARED" /\ PROPOSAL_SEALED(t, proposal[t], intent.clean) /\ Await
    <3>1. UNCHANGED corrupt /\ Update(t, x)
      BY <2>3 DEF PROPOSAL_SEALED, Fold
    <3>2. x.state = "SEALED"
      BY <2>2 DEF Transition
    <3>3. ~corrupt' /\ tx'[t] = x /\ \A u \in Txn \ {t} : tx'[u] = tx[u]
      BY <2>1, <3>1, <3>2, Altered
    <3>4. \A u \in Txn : tx'[u] = tx[u] \/ (tx[u].state \in OpenStates /\ tx'[u].state \in OpenStates)
      BY <2>3, <3>2, <3>3 DEF OpenStates
    <3> QED BY <1>1, <2>3, <3>3, <3>4, AwaitReplays DEF Await
  <2> QED BY <1>3, <1>4, <1>5, <2>3 DEF FinishSeal, logVars
<1>6. ASSUME NEW intent \in pending, intent.kind = "export", FinishExport(intent)
      PROVE  Replayable'
  <2> DEFINE t == intent.txn
             x == [tx[t] EXCEPT !.exported = TRUE]
  <2>1. t \in Txn
    BY <1>1, <1>6, IntentParts DEF LogInv, LogTypeOK
  <2>2. tx[t] \in Transition
    BY <1>1, <2>1, RecordAt
  <2>3. CASE ProposalSealedState(t) /\ PROPOSAL_EXPORTED(t) /\ Await
    <3>1. UNCHANGED corrupt /\ Update(t, x)
      BY <2>3 DEF PROPOSAL_EXPORTED, Fold
    <3>2. x.state = tx[t].state /\ x.state # "REPAIRED"
      BY <2>1, <2>2 DEF Transition, Replaying, Replayable
    <3>3. ~corrupt' /\ tx'[t] = x /\ \A u \in Txn \ {t} : tx'[u] = tx[u]
      BY <2>1, <3>1, <3>2, Altered
    <3>4. \A u \in Txn : tx'[u] = tx[u] \/ tx'[u].state = tx[u].state
      BY <3>2, <3>3
    <3> QED BY <1>1, <2>3, <3>3, <3>4, AwaitReplays DEF Await
  <2> QED BY <1>3, <1>4, <1>6, <2>3 DEF FinishExport, logVars
<1>7. ASSUME NEW intent \in pending, FinishPlatformRegeneration(intent) PROVE Replayable'
  BY <1>3, <1>4, <1>7 DEF FinishPlatformRegeneration, PLATFORM_STATE_REGENERATED, logVars
<1>8. ASSUME NEW intent \in pending, FinishArchive(intent) PROVE Replayable'
  BY <1>3, <1>4, <1>8 DEF FinishArchive, AGENT_ARCHIVED, logVars
<1> QED BY <1>2, <1>5, <1>6, <1>7, <1>8 DEF FinishIntentStep

LEMMA ExamineStepReplays ==
    ASSUME Replaying, ExamineStep
    PROVE  Replayable'
<1>1. op.kind = "recover" /\ UNCHANGED <<tx, corrupt>> /\ LogInv /\ ControlTypeOK /\ op.plan # <<>>
  BY ExaminePlanned DEF ExamineStep, logVars, Replaying, Inductive
<1>2. ~corrupt' /\ \A u \in Txn : tx'[u].state # "REPAIRED"
  BY <1>1, Unaltered
<1>3. CASE Throw("RECOVERY_REQUIRED")
  BY <1>1, <1>2, <1>3, WentOnReplays DEF Throw
<1>4. ASSUME NEW p, NEW r \in BOOLEAN, NEW s \in BOOLEAN, op'.kind = "recover", op'.plan = p, p # <<>>,
             r = (\E i \in 1..Len(p) : p[i] = "reject"), s = (\E i \in 1..Len(p) : p[i] = "restore"),
             Fitting("recover", Head(p), r, s, tx'[op'.txn].state)
      PROVE  Replayable'
  BY <1>2, <1>4, PlannedReplays
<1>5. CASE op'.kind = "recover" /\ op'.plan = <<"settle">>
  <2>1. \A i \in 1..Len(<<"settle">>) : <<"settle">>[i] = "settle"
    OBVIOUS
  <2>2. Fitting("recover", Head(<<"settle">>), FALSE, FALSE, tx'[op'.txn].state)
    BY DEF Fitting, Cleaning
  <2> QED BY <1>4, <1>5, <2>1, <2>2
<1>6. CASE op'.kind = "recover" /\ op'.plan = <<"reinstate", "examine">>
  <2> DEFINE p == <<"reinstate", "examine">>
  <2>1. \A i \in 1..Len(p) : p[i] \in {"reinstate", "examine"}
    OBVIOUS
  <2>2. Fitting("recover", Head(p), FALSE, FALSE, tx'[op'.txn].state) /\ p # <<>>
    BY DEF Fitting, Cleaning
  <2> HIDE DEF p
  <2>3. ~(\E i \in 1..Len(p) : p[i] = "reject") /\ ~(\E i \in 1..Len(p) : p[i] = "restore")
    BY <2>1
  <2>4. op'.plan = p
    BY <1>6 DEF p
  <2> QED BY <1>4, <1>6, <2>2, <2>3, <2>4
<1>7. ASSUME todo # <<>>, RecoveryPlan(Head(todo)) # <<>>, op'.kind = "recover", op'.txn = Head(todo),
             op'.plan = RecoveryPlan(Head(todo)) \o <<"examine">>
      PROVE  Replayable'
  <2> DEFINE t == Head(todo)
  <2>1. t \in Txn /\ tx[t].state # "NONE"
    <3>1. todo \in Seq(Txn) /\ 1 \in DOMAIN todo /\ Head(todo) = todo[1]
      BY <1>1, <1>7, EmptySeq, LenProperties DEF ControlTypeOK
    <3> QED BY <3>1, LenProperties DEF Replaying, Inductive, TodoPrepared
  <2>2. tx[t] \in Transition /\ tx[t].state # "REPAIRED" /\ (tx[t].state = "ROLLED_BACK" => HasReceipt(t))
    BY <1>1, <2>1, RecordAt DEF Replaying, Replayable, LogInv, ReceiptsFitState
  <2>3. tx[t].state \in States
    BY <2>2 DEF Transition
  <2>4. \A i \in 1..Len(Pass) : Pass[i] \notin {"reject", "restore"}
    BY DEF Pass
  <2>5. \A i \in 1..Len(Applied) : Applied[i] \notin {"reject", "restore"}
    BY DEF Applied
  <2>6. \A i \in 1..Len(Forward) : Forward[i] \notin {"reject", "restore"}
    BY DEF Forward
  <2>7. /\ \A i \in 1..Len(Back("reject")) : Back("reject")[i] # "restore"
        /\ \A i \in 1..Len(Back("restore")) : Back("restore")[i] # "reject"
        /\ \E i \in 1..Len(Back("reject")) : Back("reject")[i] = "reject"
        /\ \E i \in 1..Len(Back("restore")) : Back("restore")[i] = "restore"
    <3>1. \A i \in 1..Len(Back("reject")) : Back("reject")[i] # "restore"
      BY DEF Back
    <3>2. \A i \in 1..Len(Back("restore")) : Back("restore")[i] # "reject"
      BY DEF Back
    <3>3. 4 \in 1..Len(Back("reject")) /\ Back("reject")[4] = "reject"
      BY DEF Back
    <3>4. 4 \in 1..Len(Back("restore")) /\ Back("restore")[4] = "restore"
      BY DEF Back
    <3> QED BY <3>1, <3>2, <3>3, <3>4
  <2>8. /\ Head(Pass) = "dropBackup" /\ Head(Applied) = "snapshot" /\ Head(Forward) = "apply"
        /\ Head(Back("reject")) = "dropBackup" /\ Head(Back("restore")) = "dropBackup"
        /\ <<>> \notin {Pass, Applied, Forward, Back("reject"), Back("restore")}
    BY DEF Pass, Applied, Forward, Back
  <2>9. tx'[op'.txn].state = tx[t].state
    BY <1>1, <1>7
  <2>10. CASE op'.plan = Pass
    <3>1. Fitting("recover", Head(Pass), FALSE, FALSE, tx[t].state)
      BY <2>1, <2>8 DEF Fitting, Cleaning, ApplySteps
    <3> QED BY <1>4, <1>7, <2>4, <2>8, <2>9, <2>10, <3>1
  <2>11. CASE op'.plan = Back("reject") /\ tx[t].state \in OpenStates
    <3>1. Fitting("recover", Head(Back("reject")), TRUE, FALSE, tx[t].state)
      BY <2>1, <2>8, <2>11 DEF Fitting, Cleaning, ApplySteps
    <3> QED BY <1>4, <1>7, <2>7, <2>8, <2>9, <2>11, <3>1
  <2>12. CASE op'.plan = Back("restore") /\ tx[t].state \in {"CONSUMING", "APPLIED"}
    <3>1. Fitting("recover", Head(Back("restore")), FALSE, TRUE, tx[t].state)
      BY <2>1, <2>8, <2>12 DEF Fitting, Cleaning, ApplySteps
    <3> QED BY <1>4, <1>7, <2>7, <2>8, <2>9, <2>12, <3>1
  <2>13. CASE op'.plan = Applied /\ tx[t].state = "APPLIED"
    <3>1. Fitting("recover", Head(Applied), FALSE, FALSE, tx[t].state)
      BY <2>8, <2>13 DEF Fitting, Cleaning, ApplySteps
    <3> QED BY <1>4, <1>7, <2>5, <2>8, <2>9, <2>13, <3>1
  <2>14. CASE op'.plan = Forward /\ tx[t].state = "CONSUMING"
    <3>1. Fitting("recover", Head(Forward), FALSE, FALSE, tx[t].state)
      BY <2>8, <2>14 DEF Fitting, Cleaning, ApplySteps
    <3> QED BY <1>4, <1>7, <2>6, <2>8, <2>9, <2>14, <3>1
  <2>15. \/ op'.plan = Pass
         \/ op'.plan = Back("reject") /\ tx[t].state \in OpenStates
         \/ op'.plan = Back("restore") /\ tx[t].state \in {"CONSUMING", "APPLIED"}
         \/ op'.plan = Applied /\ tx[t].state = "APPLIED"
         \/ op'.plan = Forward /\ tx[t].state = "CONSUMING"
    <3>1. tx[t].state \notin OpenStates \cup {"ROLLED_BACK", "ACKNOWLEDGED"} =>
            tx[t].state \in {"CONSUMING", "APPLIED"}
      BY <2>1, <2>2, <2>3 DEF States, CrossingStates
    <3> QED BY <1>7, <2>1, <2>2, <3>1, Recovering
  <2> QED BY <2>10, <2>11, <2>12, <2>13, <2>14, <2>15
<1> QED BY <1>1, <1>3, <1>5, <1>6, <1>7, ExaminePlanned DEF Replaying

LEMMA StepReplays ==
    ASSUME Replaying, Step
    PROVE  Replayable'
<1>1. RejectStep => At(IF FALSE THEN "restore" ELSE "reject") /\ DisposeStep(FALSE)
  BY DEF RejectStep
<1>2. RestoreStep => At(IF TRUE THEN "restore" ELSE "reject") /\ DisposeStep(TRUE)
  BY DEF RestoreStep
<1>3. RejectStep \/ RestoreStep => Replayable'
  BY <1>1, <1>2, DisposeStepReplays
<1> QED BY <1>3, QuietStepReplays, PrepareStepReplays, AuthorizeStepReplays, LogBackupStepReplays,
           ApplyStepReplays, AckStepReplays, LogDestroyedStepReplays, LogRepairStepReplays,
           FinishIntentStepReplays, ExamineStepReplays DEF Step

\* A request answered at once.
LEMMA AnswerReplays ==
    ASSUME Replaying, Ready, UNCHANGED control, ~corrupt', \A u \in Txn : tx'[u].state # "REPAIRED"
    PROVE  Replayable'
<1>1. op' = Idle
  BY DEF Ready, control
<1> QED BY <1>1, FittingIdle DEF Replayable, Idle

\* A request that begins an operation, the log as it is.
LEMMA BeginReplays ==
    ASSUME Replaying, UNCHANGED <<tx, corrupt>>, NEW kind \in Kinds \ {"repair", "repaired", "recover"},
           NEW first, op'.kind = kind, op'.plan # <<>>, Head(op'.plan) = first,
           Fitting(kind, first, FALSE, FALSE, tx[op'.txn].state)
    PROVE  Replayable'
BY Unaltered, RequestPlanned

LEMMA RequestReplays ==
    ASSUME Replaying, RepairFree, NEW t \in Txn, Request(t)
    PROVE  Replayable'
<1>1. LogInv /\ tx[t] \in Transition /\ PermitFits(tx[t]) /\ tx[t].state # "REPAIRED"
      /\ (tx[t].state = "ROLLED_BACK" => HasReceipt(t))
  <2>1. LogInv
    BY DEF Replaying, Inductive
  <2> QED BY <2>1, RecordAt DEF Replaying, Replayable, LogInv, ReceiptsFitState
<1>2. ASSUME NEW x, UNCHANGED corrupt, Update(t, x), x.state # "REPAIRED", Ready, UNCHANGED control
      PROVE  Replayable'
  BY <1>2, Altered, AnswerReplays
<1>3. PrepareRun(t) => Replayable'
  <2> HAVE PrepareRun(t)
  <2>1. Fitting("prepareRun", "clone", FALSE, FALSE, tx[t].state)
    BY DEF PrepareRun, Fitting, Cleaning
  <2>2. /\ UNCHANGED <<tx, corrupt>> /\ op'.kind = "prepareRun" /\ op'.txn = t
        /\ op'.plan # <<>> /\ Head(op'.plan) = "clone"
    BY DEF PrepareRun, Run, logVars
  <2> QED BY <2>1, <2>2, BeginReplays DEF Kinds
<1>4. CancelRun(t) => Replayable'
  <2> HAVE CancelRun(t)
  <2> DEFINE x == [tx[t] EXCEPT !.state = "CANCELLED",
                                !.permit = IF @ = "ISSUED" THEN "REVOKED" ELSE @]
  <2>1. UNCHANGED <<corrupt, control>> /\ Ready /\ Update(t, x)
    BY DEF CancelRun, RUN_CANCELLED, Fold
  <2>2. x.state = "CANCELLED"
    BY <1>1 DEF Transition
  <2> QED BY <1>2, <2>1, <2>2
<1>5. SealProposal(t) => Replayable'
  <2> HAVE SealProposal(t)
  <2>1. Fitting("seal", "importProposal", FALSE, FALSE, tx[t].state)
    BY DEF Fitting, Cleaning
  <2>2. /\ UNCHANGED <<tx, corrupt>> /\ op'.kind = "seal" /\ op'.txn = t
        /\ op'.plan # <<>> /\ Head(op'.plan) = "importProposal"
    BY DEF SealProposal, Run, logVars
  <2> QED BY <2>1, <2>2, BeginReplays DEF Kinds
<1>6. ExportProposal(t) => Replayable'
  <2> HAVE ExportProposal(t)
  <2>1. Fitting("export", "finishIntent", FALSE, FALSE, tx[t].state)
    BY DEF Fitting, Cleaning, ApplySteps
  <2>2. /\ UNCHANGED <<tx, corrupt>> /\ op'.kind = "export" /\ op'.txn = t
        /\ op'.plan # <<>> /\ Head(op'.plan) = "finishIntent"
    BY DEF ExportProposal, INTENT_PREPARED, Run
  <2> QED BY <2>1, <2>2, BeginReplays DEF Kinds
<1>7. ASSUME NEW scope \in {"AGENT", "ALL"}, RecordRuntimeTeardown(t, scope) PROVE Replayable'
  <2> DEFINE x == [tx[t] EXCEPT !.teardown = @ \cup {scope}]
  <2>1. UNCHANGED <<corrupt, control>> /\ Ready /\ Update(t, x)
    BY <1>7 DEF RecordRuntimeTeardown, RUNTIME_TEARDOWN_RECORDED, Fold
  <2>2. x.state = tx[t].state
    BY <1>1 DEF Transition
  <2> QED BY <1>1, <1>2, <2>1, <2>2
<1>8. ASSUME NEW passed \in BOOLEAN, RecordEvidence(t, passed) PROVE Replayable'
  <2> DEFINE x == [tx[t] EXCEPT !.state = "EVIDENCED", !.passed = passed]
  <2>1. UNCHANGED <<corrupt, control>> /\ Ready /\ Update(t, x)
    BY <1>8 DEF RecordEvidence, EVIDENCE_RECORDED, Fold
  <2>2. x.state = "EVIDENCED"
    BY <1>1 DEF Transition
  <2> QED BY <1>2, <2>1, <2>2
<1>9. IssuePermit(t) => Replayable'
  <2> HAVE IssuePermit(t)
  <2> DEFINE x == [tx[t] EXCEPT !.state = "PERMITTED", !.permit = "ISSUED"]
  <2>1. tx[t].permit = "NONE"
    BY <1>1 DEF IssuePermit, PermitFits, Transition, PermitStates, CrossingStates
  <2>2. UNCHANGED <<corrupt, control>> /\ Ready /\ Update(t, x)
    BY <2>1 DEF IssuePermit, PERMIT_ISSUED, Fold
  <2>3. x.state = "PERMITTED"
    BY <1>1 DEF Transition
  <2> QED BY <1>2, <2>2, <2>3
<1>10. ApplyPromotion(t) => Replayable'
  <2> HAVE ApplyPromotion(t)
  <2> DEFINE next == NextView(t, tx[t].artifact, 0)
             x == [tx[t] EXCEPT !.state = "CONSUMING", !.permit = "CONSUMING", !.next = next]
  <2>1. UNCHANGED corrupt /\ Update(t, x)
    BY DEF ApplyPromotion, HoldsPermit, PERMIT_CONSUMING, Fold
  <2>2. x.state = "CONSUMING"
    BY <1>1 DEF Transition
  <2> HIDE DEF x
  <2>3. op'.kind = "apply" /\ op'.txn = t /\ op'.plan = Swap
    BY SwapWritten DEF ApplyPromotion, Run
  <2>4. op'.plan # <<>> /\ Head(op'.plan) = "backup"
    BY <2>3 DEF Swap
  <2>5. ~corrupt' /\ (\A u \in Txn : tx'[u].state # "REPAIRED") /\ tx'[t] = x
    BY <2>1, <2>2, Altered
  <2>6. Fitting("apply", "backup", FALSE, FALSE, tx'[t].state)
    BY <2>2, <2>5 DEF Fitting, Cleaning
  <2> QED BY <2>3, <2>4, <2>5, <2>6, RequestPlanned
<1>11. PromotionCasConflict(t) => Replayable'
  <2> HAVE PromotionCasConflict(t)
  <2>1. Fitting("conflict", "reject", FALSE, FALSE, tx[t].state)
    BY DEF PromotionCasConflict, HoldsPermit, Fitting, Cleaning
  <2>2. /\ UNCHANGED <<tx, corrupt>> /\ op'.kind = "conflict" /\ op'.txn = t
        /\ op'.plan # <<>> /\ Head(op'.plan) = "reject"
    BY DEF PromotionCasConflict, Run, logVars
  <2> QED BY <2>1, <2>2, BeginReplays DEF Kinds
<1>12. Prepare(t) => Replayable'
  <2> HAVE Prepare(t)
  <2> DEFINE x == [Unprepared EXCEPT !.state = "PREPARED", !.base = head]
  <2>1. UNCHANGED <<corrupt, control>> /\ Ready /\ Update(t, x)
    BY DEF Prepare, TRANSITION_PREPARED, Fold
  <2>2. x.state = "PREPARED"
    BY DEF Unprepared
  <2> QED BY <1>2, <2>1, <2>2
<1>13. ASSUME NEW tree \in Tree, ApplyRollback(t, tree) PROVE Replayable'
  <2>1. Fitting("rollback", "authorize", FALSE, FALSE, tx[t].state)
    BY DEF Fitting, Cleaning, ApplySteps
  <2>2. /\ UNCHANGED <<tx, corrupt>> /\ op'.kind = "rollback" /\ op'.txn = t
        /\ op'.plan # <<>> /\ Head(op'.plan) = "authorize"
    BY <1>13 DEF ApplyRollback, Run, logVars
  <2> QED BY <2>1, <2>2, BeginReplays DEF Kinds
<1>14. ASSUME NEW decision \in Dispositions, DisposeRun(t, decision) PROVE Replayable'
  <2>1. tx[t].state \in OpenStates
    BY <1>1, <1>14 DEF DisposeRun
  <2>2. Fitting("dispose", "remove", FALSE, FALSE, tx[t].state)
    BY <2>1 DEF Fitting, Cleaning, ApplySteps, OpenStates
  <2>3. /\ UNCHANGED <<tx, corrupt>> /\ op'.kind = "dispose" /\ op'.txn = t
        /\ op'.plan # <<>> /\ Head(op'.plan) = "remove"
    BY <1>14 DEF DisposeRun, Run, logVars
  <2> QED BY <2>2, <2>3, BeginReplays DEF Kinds
<1>15. DisposeReplay(t) => Replayable'
  <2> HAVE DisposeReplay(t)
  <2>1. Fitting("cleanup", "remove", FALSE, FALSE, tx[t].state)
    BY DEF DisposeReplay, Fitting, Cleaning, ApplySteps
  <2>2. /\ UNCHANGED <<tx, corrupt>> /\ op'.kind = "cleanup" /\ op'.txn = t
        /\ op'.plan # <<>> /\ Head(op'.plan) = "remove"
    BY DEF DisposeReplay, Run, logVars
  <2> QED BY <2>1, <2>2, BeginReplays DEF Kinds
<1>16. ~RepairRollback(t) /\ ~RepairForward(t)
  BY DEF RepairFree, RepairRollback, RepairForward, RepairRequest
<1> QED BY <1>3, <1>4, <1>5, <1>6, <1>7, <1>8, <1>9, <1>10, <1>11, <1>12, <1>13, <1>14, <1>15, <1>16
        DEF Request

LEMMA FaultReplays ==
    ASSUME Replaying, Fault
    PROVE  Replayable'
<1>1. op.plan # <<>> /\ UNCHANGED <<tx, corrupt>> /\ ControlTypeOK
  BY DEF Fault, logVars, Replaying, Inductive
<1>2. CASE ~BestEffort
  <2>1. Fail("IO") \/ Fail("RECOVERY_REQUIRED")
    BY <1>2 DEF Fault
  <2> QED BY <1>1, <2>1, FailReplays
<1>3. CASE BestEffort /\ op' = Idle
  BY <1>1, <1>3, Unaltered, WentOnReplays
<1>4. CASE BestEffort /\ Head(op.plan) = "dropBackup" /\ op' = [op EXCEPT !.plan = Tail(@)]
  <2>1. Follows(op.kind, "dropBackup", Second)
    BY <1>1, <1>4, Succession DEF Replaying
  <2>2. Second # "end"
    BY <1>4, <2>1 DEF Follows, BestEffort
  <2>3. Continue
    BY <1>4, <2>2 DEF Continue, Second
  <2> QED BY <1>1, <1>4, <2>3, DiskReplays
<1> QED BY <1>2, <1>3, <1>4 DEF Fault

LEMMA ReplayKept ==
    ASSUME Replaying, RepairFree, [Next]_vars
    PROVE  Replayable'
<1>1. CASE UNCHANGED <<tx, corrupt, op>>
  <2>1. op.plan # <<>> => StateFits'
    BY <1>1, FittingSame, FittingNext DEF Replaying, Replayable, Some
  <2>2. op.plan = <<>> => op' = Idle
    BY <1>1 DEF Replaying, OrderFits, ProcessFits
  <2> QED BY <1>1, <2>1, <2>2, FittingIdle DEF Replaying, Replayable
<1>2. CASE UNCHANGED <<tx, corrupt>> /\ op' = Idle
  BY <1>2, Unaltered, FittingIdle DEF Replayable, Idle
<1>3. UNCHANGED vars => Replayable'
  BY <1>1 DEF vars, logVars, control
<1>4. ASSUME NEW t \in Txn, Request(t) PROVE Replayable'
  BY <1>4, RequestReplays
<1>5. ASSUME NEW t \in Txn, NEW tree \in Tree, AgentEdits(t, tree) PROVE Replayable'
  BY <1>1, <1>5 DEF AgentEdits, logVars, control
<1>6. ASSUME NEW kind \in {"intents", "platform", "archive"}, UNCHANGED <<tx, corrupt>>,
             Run(kind, None, <<"finishIntent">>, None, None)
      PROVE  Replayable'
  <2>1. Fitting(kind, "finishIntent", FALSE, FALSE, tx[None].state)
    BY DEF Fitting, Cleaning, ApplySteps
  <2>2. op'.kind = kind /\ op'.txn = None /\ op'.plan # <<>> /\ Head(op'.plan) = "finishIntent"
    BY <1>6 DEF Run
  <2> QED BY <1>6, <2>1, <2>2, BeginReplays DEF Kinds
<1>7. RecoverPendingWorkerIntents => Replayable'
  BY <1>6 DEF RecoverPendingWorkerIntents, logVars
<1>8. ArchiveAgent => Replayable'
  BY <1>6 DEF ArchiveAgent, INTENT_PREPARED
<1>9. ASSUME NEW p \in Platform, RegeneratePlatformState(p) PROVE Replayable'
  BY <1>6, <1>9 DEF RegeneratePlatformState, INTENT_PREPARED
<1>10. RecoverAgent \/ Start => Replayable'
  <2> HAVE RecoverAgent \/ Start
  <2> DEFINE p == <<"finishIntent", "examine">>
  <2>1. UNCHANGED <<tx, corrupt>> /\ op'.kind = "recover" /\ op'.plan = p
    BY DEF RecoverAgent, Start, BeginRecovery, Run, logVars
  <2>2. \A i \in 1..Len(p) : p[i] \in {"finishIntent", "examine"}
    OBVIOUS
  <2>3. p # <<>> /\ Head(p) = "finishIntent"
    OBVIOUS
  <2> HIDE DEF p
  <2>4. ~(\E i \in 1..Len(p) : p[i] = "reject") /\ ~(\E i \in 1..Len(p) : p[i] = "restore")
    BY <2>2
  <2>5. Fitting("recover", "finishIntent", FALSE, FALSE, tx'[op'.txn].state)
    BY DEF Fitting, Cleaning
  <2> QED BY <2>1, <2>3, <2>4, <2>5, Unaltered, PlannedReplays
<1>11. ProbeWorkspace => Replayable'
  BY <1>1 DEF ProbeWorkspace, logVars, control
<1>12. Crash \/ Sweep \/ InitializeThrows => Replayable'
  BY <1>1, <1>2 DEF Crash, Sweep, InitializeThrows, logVars
<1>13. ASSUME NEW tree \in Tree, Drift(tree) PROVE Replayable'
  BY <1>1, <1>13 DEF Drift, logVars, control
<1> QED BY <1>3, <1>4, <1>5, <1>7, <1>8, <1>9, <1>10, <1>11, <1>12, <1>13, StepReplays, FaultReplays
        DEF Next

LEMMA InitReplayable == Init => Replayable
<1>1. Init => StateFits
  BY DEF Init, StateFits, First, Some, Idle
<1>2. Init => ~corrupt /\ \A t \in Txn : tx[t].state # "REPAIRED"
  BY DEF Init, LogInit, Unprepared
<1> QED BY <1>1, <1>2 DEF Init, Idle, Replayable

\* No handler appends an event the fold rejects (rebuildWorkerProjection), as
\* long as no operator asks for a repair: whatever is interrupted or fails, each
\* event finds its transition in the state the fold asks for.
THEOREM LogStaysReplayable == RepairFree => (Spec => []LogReplayable)
<1> SUFFICES ASSUME RepairFree PROVE Spec => []LogReplayable
  OBVIOUS
<1> DEFINE Inv == Inductive /\ OrderFits /\ Replayable
<1>1. Init => Inv
  BY InitInductive, InitFits, InitReplayable
<1>2. Inv /\ [Next]_vars => Inv'
  BY NextInductive, OrderKept, ReplayKept DEF Replaying
<1>3. Inv => LogReplayable
  BY DEF Replayable, LogReplayable
<1> HIDE DEF Inv
<1> QED BY <1>1, <1>2, <1>3, PTL DEF Spec

----------------------------------------------------------------------------
(* What is destroyed stays so. *)

\* An event that destroys nothing and forgets no sealed proposal.
Steady ==
    \A u \in Txn : /\ tx'[u].destroyed = tx[u].destroyed
                   /\ tx[u].artifact # None => tx'[u].artifact # None
                   /\ tx[u].destroyed /\ proposal'[u] # None =>
                        tx'[u].artifact = tx[u].artifact

LEMMA UpdateSteady ==
    ASSUME LogInv, NEW t \in Txn, NEW x, Update(t, x), x.destroyed = tx[t].destroyed,
           tx[t].artifact # None => x.artifact # None,
           tx[t].destroyed /\ proposal'[t] # None => x.artifact = tx[t].artifact
    PROVE  Steady
BY DEF Update, Steady, LogInv, LogTypeOK

LEMMA EventSteady ==
    ASSUME LogInv, NEW t \in Txn,
           \/ TRANSITION_PREPARED(t) \/ RUN_CANCELLED(t) \/ PERMIT_ISSUED(t) \/ BACKUP_CREATED(t, ExpectedBase)
           \/ (\E scope : RUNTIME_TEARDOWN_RECORDED(t, scope))
           \/ (\E passed : EVIDENCE_RECORDED(t, passed))
           \/ (\E next : PERMIT_CONSUMING(t, next))
           \/ WORKSPACE_APPLIED(t) \/ TRANSITION_ACKNOWLEDGED(t) \/ REPAIR_APPLIED(t)
    PROVE  Steady
<1>1. tx[t] \in Transition /\ (tx[t].state = "NONE" => tx[t] = Unprepared)
  BY RecordAt DEF FactsFit
<1>2. UNCHANGED projected => Steady
  BY DEF projected, Steady
<1>3. TRANSITION_PREPARED(t) => Steady
  <2> DEFINE x == [Unprepared EXCEPT !.state = "PREPARED", !.base = head]
  <2>1. x.destroyed = FALSE /\ Unprepared.destroyed = FALSE /\ Unprepared.artifact = None
    BY DEF Unprepared
  <2> QED BY <1>1, <1>2, <2>1, UpdateSteady DEF TRANSITION_PREPARED, Fold
<1>4. RUN_CANCELLED(t) => Steady
  <2> DEFINE x == [tx[t] EXCEPT !.state = "CANCELLED",
                                !.permit = IF @ = "ISSUED" THEN "REVOKED" ELSE @]
  <2>1. x.destroyed = tx[t].destroyed /\ x.artifact = tx[t].artifact
    BY <1>1 DEF Transition
  <2> QED BY <1>2, <2>1, UpdateSteady DEF RUN_CANCELLED, Fold
<1>5. PERMIT_ISSUED(t) => Steady
  <2> DEFINE x == [tx[t] EXCEPT !.state = "PERMITTED", !.permit = "ISSUED"]
  <2>1. x.destroyed = tx[t].destroyed /\ x.artifact = tx[t].artifact
    BY <1>1 DEF Transition
  <2> QED BY <1>2, <2>1, UpdateSteady DEF PERMIT_ISSUED, Fold
<1>6. BACKUP_CREATED(t, ExpectedBase) => Steady
  BY <1>2 DEF BACKUP_CREATED, Fold
<1>7. ASSUME NEW scope, RUNTIME_TEARDOWN_RECORDED(t, scope) PROVE Steady
  <2> DEFINE x == [tx[t] EXCEPT !.teardown = @ \cup {scope}]
  <2>1. x.destroyed = tx[t].destroyed /\ x.artifact = tx[t].artifact
    BY <1>1 DEF Transition
  <2> QED BY <1>2, <1>7, <2>1, UpdateSteady DEF RUNTIME_TEARDOWN_RECORDED, Fold
<1>8. ASSUME NEW passed, EVIDENCE_RECORDED(t, passed) PROVE Steady
  <2> DEFINE x == [tx[t] EXCEPT !.state = "EVIDENCED", !.passed = passed]
  <2>1. x.destroyed = tx[t].destroyed /\ x.artifact = tx[t].artifact
    BY <1>1 DEF Transition
  <2> QED BY <1>2, <1>8, <2>1, UpdateSteady DEF EVIDENCE_RECORDED, Fold
<1>9. ASSUME NEW next, PERMIT_CONSUMING(t, next) PROVE Steady
  <2> DEFINE x == [tx[t] EXCEPT !.state = "CONSUMING", !.permit = "CONSUMING", !.next = next]
  <2>1. x.destroyed = tx[t].destroyed /\ x.artifact = tx[t].artifact
    BY <1>1 DEF Transition
  <2> QED BY <1>2, <1>9, <2>1, UpdateSteady DEF PERMIT_CONSUMING, Fold
<1>10. WORKSPACE_APPLIED(t) => Steady
  <2> DEFINE x == [tx[t] EXCEPT !.state = "APPLIED"]
  <2>1. x.destroyed = tx[t].destroyed /\ x.artifact = tx[t].artifact
    BY <1>1 DEF Transition
  <2> QED BY <1>2, <2>1, UpdateSteady DEF WORKSPACE_APPLIED, Fold
<1>11. TRANSITION_ACKNOWLEDGED(t) => Steady
  <2> DEFINE x == [tx[t] EXCEPT !.state = "ACKNOWLEDGED",
                                !.permit = IF @ = "NONE" THEN @ ELSE "CONSUMED"]
  <2>1. x.destroyed = tx[t].destroyed /\ x.artifact = tx[t].artifact
    BY <1>1 DEF Transition
  <2> QED BY <1>2, <2>1, UpdateSteady DEF TRANSITION_ACKNOWLEDGED, Fold
<1>12. REPAIR_APPLIED(t) => Steady
  <2> DEFINE x == [tx[t] EXCEPT !.state = "REPAIRED"]
  <2>1. x.destroyed = tx[t].destroyed /\ x.artifact = tx[t].artifact
    BY <1>1 DEF Transition
  <2> QED BY <1>2, <2>1, UpdateSteady DEF REPAIR_APPLIED, Fold
<1> QED BY <1>3, <1>4, <1>5, <1>6, <1>7, <1>8, <1>9, <1>10, <1>11, <1>12

\* The copies of a run: none is made of what is destroyed, and no sealed copy at
\* all.
Cared ==
    \A u \in Txn :
        /\ tx[u].destroyed => /\ candidate'[u] \in {candidate[u], None}
                              /\ proposal'[u] \in {proposal[u], None}
                              /\ export'[u] \in {export[u], None}
        /\ proposal'[u] # None => proposal[u] # None

LEMMA Uncopied ==
    ASSUME UNCHANGED <<candidate, proposal, export>>
    PROVE  Cared
BY DEF Cared

LEMMA ClaimsKept ==
    ASSUME Inductive, ClaimsHold, Steady, Cared, receipts' = receipts
    PROVE  ClaimsHold'
<1>1. \A i \in DOMAIN receipts : receipts[i].txn \in Txn
  BY ReceiptAt DEF Inductive
<1>2. \A u \in Txn : tx'[u].destroyed => Cleared(u)'
  BY DEF ClaimsHold, Steady, Cared, Cleared
<1> QED BY <1>1, <1>2 DEF ClaimsHold, Steady

LEMMA CopiesKept ==
    ASSUME CopiesFit, SealIntents = {}, ~First(SealSteps), Cared,
           up' = "serving" => up = "serving",
           \A u \in Txn : tx[u].artifact # None => tx'[u].artifact # None
    PROVE  CopiesFit'
<1>1. \A u \in Txn : ~Sealing(u)
  BY DEF Sealing
<1> QED BY <1>1 DEF CopiesFit, Cared, IsRun

LEMMA SealingKept ==
    ASSUME SealIntents' = {}
    PROVE  SealingFits'
BY DEF SealingFits

LEMMA RemovalIdle ==
    ASSUME op' = Idle
    PROVE  RemovalFits'
BY DEF RemovalFits, First, Idle

LEMMA RemovalBegun ==
    ASSUME Head(op'.plan) \notin SealSteps \cup {"logDestroyed", "restore", "reject"},
           op'.kind \notin {"prepareRun", "conflict"}
    PROVE  RemovalFits'
BY DEF RemovalFits, First, SealSteps

LEMMA RemovalAdvanced ==
    ASSUME OrderFits, ControlTypeOK, op.plan # <<>>, Continue, RemovalFits,
           Head(op.plan) # "importProposal",
           Head(op.plan) = "remove" => Cleared(op.txn)',
           Head(op.plan) = "logDestroyed" => tx'[op.txn].destroyed,
           Head(op.plan) = "clone" => tx'[op.txn].state = tx[op.txn].state
    PROVE  RemovalFits'
<1>1. Advanced
  BY Advances
<1>2. CASE op' = Idle
  BY <1>2, RemovalIdle
<1>3. CASE /\ op'.kind = op.kind /\ op'.txn = op.txn /\ op'.decision = op.decision /\ op'.plan # <<>>
           /\ Follows(op.kind, Head(op.plan), Head(op'.plan))
  <2> DEFINE a == Head(op.plan)
             b == Head(op'.plan)
  <2>1. op.kind = "prepareRun" => a = "clone" \/ b = "end"
    BY <1>3 DEF Follows
  <2>2. b # "end"
    <3>1. b = Second /\ Second \in Steps
      BY <1>1, <1>3 DEF Advanced, Idle
    <3> QED BY <3>1 DEF Steps, ApplySteps
  <2>3. b \notin SealSteps
    BY <1>3 DEF Follows, SealSteps
  <2>4. b = "logDestroyed" => a = "remove"
    BY <1>3 DEF Follows
  <2>5. b = "restore" \/ (b = "reject" /\ op.kind # "conflict") => a = "logDestroyed"
    BY <1>3 DEF Follows
  <2> HIDE DEF a, b
  <2> QED BY <1>3, <2>1, <2>2, <2>3, <2>4, <2>5 DEF RemovalFits, First, SealSteps, Cleared, a, b
<1> QED BY <1>1, <1>2, <1>3, AdvancedTo

\* A step, other than the end of the sweep, from a state in which the claims hold
\* and what the steps rely on.
Destroying ==
    /\ Inductive /\ OrderFits /\ DestructionFits /\ ~corrupt
    /\ up' = "serving" => up = "serving"

LEMMA SealFree ==
    ASSUME Destroying, Ready \/ (op.plan # <<>> /\ Head(op.plan) # "finishIntent")
    PROVE  SealIntents = {}
<1>1. up # "down" /\ ~First({"finishIntent"})
  BY DEF Destroying, OrderFits, ProcessFits, Ready, First, Idle
<1> QED BY <1>1 DEF Destroying, DestructionFits, SealingFits

LEMMA FewerIntents ==
    ASSUME pending' \subseteq pending, SealIntents = {}
    PROVE  SealIntents' = {}
BY DEF SealIntents

\* A step that is careful of the copies.
LEMMA CarefulStep ==
    ASSUME Destroying, Ready \/ (op.plan # <<>> /\ Head(op.plan) \notin SealSteps \cup {"finishIntent"}),
           Cared, Steady, SealIntents' = {}, receipts' = receipts, RemovalFits'
    PROVE  DestructionFits'
<1>1. ClaimsHold'
  BY ClaimsKept DEF Destroying, DestructionFits
<1>2. SealingFits'
  BY SealingKept
<1>3. ~First(SealSteps)
  BY DEF Ready, Idle, First
<1>4. CopiesFit'
  BY <1>3, SealFree, CopiesKept DEF Destroying, DestructionFits, Steady
<1> QED BY <1>1, <1>2, <1>4 DEF DestructionFits

LEMMA SteadyLog ==
    ASSUME UNCHANGED tx
    PROVE  Steady
BY DEF Steady

LEMMA Undoing ==
    ASSUME Destroying, Undo
    PROVE  RemovalFits'
<1>1. op'.kind = "undo" /\ op'.plan = <<"evict", "reinstate", "remove", "logDestroyed", "restore">>
  BY DEF Undo, Destroying, Inductive, ControlTypeOK, Operation
<1> QED BY <1>1, RemovalBegun DEF SealSteps

\* A step that touches no copy and destroys nothing.
LEMMA PlainStep ==
    ASSUME Destroying, op.plan # <<>>, Head(op.plan) \notin SealSteps \cup {"finishIntent", "remove", "logDestroyed"},
           UNCHANGED <<candidate, proposal, export>>, pending' \subseteq pending, Steady,
           receipts' = receipts, Continue \/ op' = Idle \/ Undo,
           Head(op.plan) = "clone" => UNCHANGED tx
    PROVE  DestructionFits'
<1>1. RemovalFits'
  <2>1. Continue => RemovalFits'
    BY RemovalAdvanced DEF Destroying, Inductive, DestructionFits, SealSteps
  <2> QED BY <2>1, RemovalIdle, Undoing
<1> QED BY <1>1, SealFree, FewerIntents, Uncopied, CarefulStep

LEMMA PlainSteps ==
    ASSUME Destroying,
           \/ PrepareStep \/ BackupStep \/ LogBackupStep \/ SwapStep \/ SnapshotStep
           \/ ApplyStep \/ DropBackupStep \/ EvictStep \/ ReinstateStep \/ SettleStep
    PROVE  DestructionFits'
<1>1. LogInv
  BY DEF Destroying, Inductive
<1>2. ASSUME NEW s \in Steps \ TxnFreeSteps, At(s) PROVE op.txn \in Txn
  BY <1>2, FirstStep DEF At, Destroying, Inductive
<1> USE DEF At, Go, disk, logVars, SealSteps
<1>3. PrepareStep => DestructionFits'
  <2> HAVE PrepareStep
  <2>1. Steady
    BY <1>1, <1>2, EventSteady DEF PrepareStep, Steps, TxnFreeSteps
  <2>2. UNCHANGED <<receipts, pending>>
    BY DEF PrepareStep, TRANSITION_PREPARED, Fold, projected
  <2> QED BY <2>1, <2>2, PlainStep DEF PrepareStep
<1>4. BackupStep => DestructionFits'
  BY SteadyLog, PlainStep DEF BackupStep, Fail, Throw
<1>5. LogBackupStep => DestructionFits'
  <2> HAVE LogBackupStep
  <2>1. Steady
    BY <1>1, <1>2, EventSteady DEF LogBackupStep, Steps, ApplySteps, TxnFreeSteps
  <2>2. UNCHANGED <<receipts, pending>>
    BY DEF LogBackupStep, BACKUP_CREATED, Fold, projected
  <2> QED BY <2>1, <2>2, PlainStep DEF LogBackupStep
<1>6. SwapStep => DestructionFits'
  BY SteadyLog, PlainStep DEF SwapStep
<1>7. SnapshotStep => DestructionFits'
  BY SteadyLog, PlainStep DEF SnapshotStep, Fail, Throw
<1>8. ApplyStep => DestructionFits'
  <2> HAVE ApplyStep
  <2>1. Steady
    BY <1>1, <1>2, EventSteady DEF ApplyStep, Steps, ApplySteps, TxnFreeSteps
  <2>2. UNCHANGED <<receipts, pending>>
    BY DEF ApplyStep, WORKSPACE_APPLIED, Fold, projected
  <2> QED BY <2>1, <2>2, PlainStep DEF ApplyStep
<1>9. DropBackupStep => DestructionFits'
  BY SteadyLog, PlainStep DEF DropBackupStep
<1>10. EvictStep => DestructionFits'
  BY SteadyLog, PlainStep DEF EvictStep, Throw
<1>11. ReinstateStep => DestructionFits'
  BY SteadyLog, PlainStep DEF ReinstateStep, Throw
<1>12. SettleStep => DestructionFits'
  BY SteadyLog, PlainStep DEF SettleStep, Throw
<1> QED BY <1>3, <1>4, <1>5, <1>6, <1>7, <1>8, <1>9, <1>10, <1>11, <1>12

\* What is cloned for is not yet prepared, and so nothing of it destroyed.
LEMMA CloneStepDestroys ==
    ASSUME Destroying, CloneStep
    PROVE  DestructionFits'
<1>1. /\ op.plan # <<>> /\ Head(op.plan) = "clone" /\ UNCHANGED <<logVars, proposal, export>>
      /\ \/ candidate' = [candidate EXCEPT ![op.txn] = op.tree] /\ Continue
         \/ UNCHANGED candidate /\ op' = Idle
  BY DEF CloneStep, At, Go, Throw
<1>2. ControlTypeOK /\ PlanFits /\ LogInv /\ DiskTypeOK
  BY DEF Destroying, Inductive
<1>3. Follows(op.kind, "clone", Second)
  BY <1>1, <1>2, Succession DEF Destroying
<1>4. op.txn \in Txn
  BY <1>1, <1>2, FirstStep DEF TxnFreeSteps
<1>5. tx[op.txn].state = "NONE"
  BY <1>3 DEF Follows, Destroying, DestructionFits, RemovalFits
<1>6. ~tx[op.txn].destroyed
  BY <1>2, <1>4, <1>5, RecordAt DEF FactsFit, Unprepared
<1>7. Cared
  BY <1>1, <1>2, <1>4, <1>6 DEF Cared, DiskTypeOK
<1>8. RemovalFits'
  <2>1. Continue => RemovalFits'
    BY <1>1, <1>2, RemovalAdvanced DEF Destroying, DestructionFits, logVars
  <2> QED BY <1>1, <2>1, RemovalIdle
<1> QED BY <1>1, <1>7, <1>8, SealFree, FewerIntents, SteadyLog, CarefulStep DEF logVars, SealSteps

\* The handler that seals has one copy in its hands, and no other is being sealed.
LEMMA ImportSituation ==
    ASSUME Destroying, op.plan # <<>>, Head(op.plan) \in SealSteps
    PROVE  /\ ControlTypeOK /\ PlanFits /\ LogInv /\ DiskTypeOK /\ op.txn \in Txn
           /\ tx[op.txn].state = "PREPARED" /\ candidate[op.txn] # None /\ pending = {}
           /\ IsRun(op.txn) /\ ~tx[op.txn].destroyed /\ SealIntents = {}
           /\ Handshake => candidate[op.txn] = op.tree
           /\ \A u \in Txn \ {op.txn} : proposal[u] # None =>
                IsRun(u) /\ (Handshake /\ up = "serving" => tx[u].artifact # None)
           /\ \A u \in Txn : tx[u].destroyed => Cleared(u)
<1>1. ControlTypeOK /\ PlanFits /\ LogInv /\ DiskTypeOK /\ ClaimsHold /\ CopiesFit /\ RemovalFits
  BY DEF Destroying, Inductive, DestructionFits
<1>2. op.txn \in Txn
  BY <1>1, FirstStep DEF SealSteps, TxnFreeSteps
<1>3. First(SealSteps)
  BY DEF First
<1>4. pending = {} /\ SealIntents = {}
  BY <1>1, <1>3 DEF RemovalFits, SealIntents
<1>5. \A u \in Txn \ {op.txn} : ~Sealing(u)
  BY <1>4 DEF Sealing
<1> QED BY <1>1, <1>2, <1>3, <1>4, <1>5 DEF RemovalFits, CopiesFit, ClaimsHold

LEMMA ImportProposalStepDestroys ==
    ASSUME Destroying, ImportProposalStep
    PROVE  DestructionFits'
<1> DEFINE t == op.txn
<1>1. /\ op.plan # <<>> /\ Head(op.plan) = "importProposal" /\ Head(op.plan) \in SealSteps
      /\ UNCHANGED <<candidate, export>> /\ UNCHANGED logVars
  BY DEF ImportProposalStep, At, SealSteps
<1>2. /\ ControlTypeOK /\ PlanFits /\ LogInv /\ DiskTypeOK /\ t \in Txn
      /\ tx[t].state = "PREPARED" /\ candidate[t] # None /\ pending = {}
      /\ IsRun(t) /\ ~tx[t].destroyed /\ SealIntents = {}
      /\ Handshake => candidate[t] = op.tree
      /\ \A u \in Txn \ {t} : proposal[u] # None =>
           IsRun(u) /\ (Handshake /\ up = "serving" => tx[u].artifact # None)
      /\ \A u \in Txn : tx[u].destroyed => Cleared(u)
  BY <1>1, ImportSituation
<1>3. SealIntents' = {} /\ SealingFits'
  BY <1>1, <1>2, SealingKept DEF logVars, SealIntents
<1>4. ASSUME NEW copy, proposal' = [proposal EXCEPT ![t] = copy]
      PROVE  ClaimsHold' /\ proposal'[t] = copy /\ \A u \in Txn \ {t} : proposal'[u] = proposal[u]
  <2>1. proposal'[t] = copy /\ \A u \in Txn \ {t} : proposal'[u] = proposal[u]
    BY <1>2, <1>4 DEF DiskTypeOK
  <2>2. \A u \in Txn : tx[u].destroyed => u # t /\ Cleared(u)
    BY <1>2
  <2>3. \A u \in Txn : tx'[u].destroyed => Cleared(u)'
    BY <1>1, <2>1, <2>2 DEF Cleared, logVars
  <2> QED BY <1>1, <2>1, <2>3 DEF ClaimsHold, Destroying, DestructionFits, logVars
<1>5. CASE proposal[t] # None
  <2>1. proposal' = [proposal EXCEPT ![t] = None] /\ Await
    BY <1>5 DEF ImportProposalStep
  <2>2. CopiesFit'
    BY <1>1, <1>2, <1>4, <2>1 DEF CopiesFit, Await, logVars, IsRun
  <2>3. RemovalFits'
    BY <1>1, <2>1 DEF Await, RemovalFits, First, logVars, Destroying, DestructionFits
  <2> QED BY <1>3, <1>4, <2>1, <2>2, <2>3 DEF DestructionFits
<1>6. CASE proposal[t] = None /\ candidate[t] # op.tree
  <2>1. proposal' = [proposal EXCEPT ![t] = candidate[t]] /\ op' = Idle
    BY <1>6 DEF ImportProposalStep, Throw
  <2>2. ~Handshake
    BY <1>2, <1>6
  <2>3. CopiesFit'
    BY <1>1, <1>2, <1>4, <2>1, <2>2 DEF CopiesFit, IsRun
  <2> QED BY <1>3, <1>4, <2>1, <2>3, RemovalIdle DEF DestructionFits
<1>7. CASE proposal[t] = None /\ candidate[t] = op.tree
  <2>1. proposal' = [proposal EXCEPT ![t] = candidate[t]] /\ Go
    BY <1>7 DEF ImportProposalStep
  <2>2. Continue /\ Advanced
    BY <1>1, <1>2, <2>1, Advances DEF Go
  <2>3. Follows(op.kind, "importProposal", Second)
    BY <1>1, <1>2, Succession DEF Destroying
  <2>4. Second \in {"logSeal", "logFlawed"}
    BY <2>3 DEF Follows
  <2>5. /\ op'.txn = t /\ op'.tree = op.tree /\ op'.kind = op.kind /\ op'.plan # <<>>
        /\ Head(op'.plan) \in {"logSeal", "logFlawed"}
    BY <1>2, <2>2, <2>4 DEF Advanced, Continue, ControlTypeOK, Operation
  <2>6. \A u \in Txn : u = t => Sealing(u)'
    BY <1>1, <1>2, <2>5 DEF First, SealSteps, Sealing, logVars
  <2>7. CopiesFit'
    <3>1. up' = up
      BY <2>1 DEF Go
    <3>2. ASSUME NEW u \in Txn, proposal'[u] # None
          PROVE  IsRun(u) /\ (Handshake /\ up' = "serving" => tx'[u].artifact # None \/ Sealing(u)')
      <4>1. CASE u = t
        BY <1>2, <2>6, <4>1
      <4>2. CASE u # t
        BY <1>1, <1>2, <1>4, <2>1, <3>1, <3>2, <4>2 DEF logVars
      <4> QED BY <4>1, <4>2
    <3> QED BY <3>2 DEF CopiesFit, IsRun
  <2>8. proposal'[t] # None
    BY <1>2, <1>4, <2>1
  <2>9. RemovalFits'
    <3>1. op.kind = "seal"
      BY <2>3 DEF Follows
    <3>2. Head(op'.plan) \notin {"logDestroyed", "restore", "reject"}
      BY <2>5
    <3>3. Handshake => "AGENT" \in tx[t].teardown
      BY <1>1 DEF First, RemovalFits, Destroying, DestructionFits
    <3> QED BY <1>1, <1>2, <2>5, <2>8, <3>1, <3>2, <3>3 DEF RemovalFits, First, logVars, IsRun
  <2> QED BY <1>3, <1>4, <2>1, <2>7, <2>9 DEF DestructionFits
<1> QED BY <1>5, <1>6, <1>7

LEMMA LogSealStepDestroys ==
    ASSUME Destroying, LogSealStep
    PROVE  DestructionFits'
<1> DEFINE t == op.txn
           i == [kind |-> "seal", txn |-> t, clean |-> Head(op.plan) = "logSeal"]
<1>1. /\ op.plan # <<>> /\ Head(op.plan) \in {"logSeal", "logFlawed"} /\ Head(op.plan) \in SealSteps
      /\ UNCHANGED disk /\ INTENT_PREPARED(i) /\ Go
  BY DEF LogSealStep, At, SealSteps
<1>2. /\ ControlTypeOK /\ PlanFits /\ LogInv /\ DiskTypeOK /\ t \in Txn
      /\ tx[t].state = "PREPARED" /\ pending = {}
      /\ IsRun(t) /\ ~tx[t].destroyed
      /\ \A u \in Txn \ {t} : proposal[u] # None =>
           IsRun(u) /\ (Handshake /\ up = "serving" => tx[u].artifact # None)
  BY <1>1, ImportSituation
<1>3. pending' = {i} /\ UNCHANGED <<tx, receipts, up>> /\ Continue
  BY <1>1, <1>2 DEF INTENT_PREPARED, Go
<1>4. SealIntents' = {i} /\ i.txn = t
  BY <1>3 DEF SealIntents
<1> HIDE DEF i
<1>5. proposal[t] # None
  BY <1>1 DEF First, RemovalFits, Destroying, DestructionFits
<1>6. First({"finishIntent"})'
  <2>1. Advanced
    BY <1>1, <1>2, <1>3, Advances
  <2>2. Follows(op.kind, Head(op.plan), Second)
    BY <1>1, <1>2, Succession DEF Destroying
  <2>3. Second = "finishIntent"
    BY <1>1, <2>2 DEF Follows
  <2> QED BY <2>1, <2>3 DEF Advanced, First
<1>7. ClaimsHold'
  BY <1>1, <1>3 DEF disk, Cleared, ClaimsHold, Destroying, DestructionFits
<1>8. CopiesFit'
  <2>1. \A u \in Txn : u = t => Sealing(u)'
    BY <1>2, <1>3, <1>4 DEF Sealing
  <2> QED BY <1>1, <1>2, <1>3, <2>1 DEF CopiesFit, disk, IsRun
<1>9. SealingFits'
  BY <1>1, <1>2, <1>3, <1>4, <1>5, <1>6 DEF SealingFits, disk
<1>10. RemovalFits'
  BY <1>1, <1>2, <1>3, RemovalAdvanced DEF Destroying, DestructionFits
<1> QED BY <1>7, <1>8, <1>9, <1>10 DEF DestructionFits

\* destroyRunArtifacts, first the bytes.
LEMMA RemoveStepDestroys ==
    ASSUME Destroying, RemoveStep
    PROVE  DestructionFits'
<1> DEFINE t == op.txn
<1>1. op.plan # <<>> /\ Head(op.plan) = "remove" /\ UNCHANGED logVars
  BY DEF RemoveStep, At
<1>2. ControlTypeOK /\ PlanFits /\ LogInv /\ DiskTypeOK
  BY DEF Destroying, Inductive
<1>3. t \in Txn
  BY <1>1, <1>2, FirstStep DEF TxnFreeSteps
<1>4. SealIntents = {}
  BY <1>1, SealFree
<1>5. /\ candidate' \in {candidate, [candidate EXCEPT ![t] = None]}
      /\ export' \in {export, [export EXCEPT ![t] = None]}
      /\ proposal' \in {proposal, [proposal EXCEPT ![t] = None]}
      /\ \/ op' = Idle \/ op' = op
         \/ /\ Continue
            /\ \/ tx[t].destroyed /\ UNCHANGED <<candidate, export, proposal>>
               \/ /\ candidate[t] = None /\ export[t] = None /\ UNCHANGED <<candidate, export>>
                  /\ proposal' = IF tx[t].artifact = None THEN proposal
                                 ELSE [proposal EXCEPT ![t] = None]
  BY DEF RemoveStep, Go, Throw, Await
<1>6. Cared
  BY <1>2, <1>3, <1>5 DEF Cared, DiskTypeOK
<1>7. Continue => op' = Idle \/ op' = op \/ Cleared(t)'
  <2>1. tx[t].destroyed => Cleared(t)
    BY <1>3 DEF Destroying, DestructionFits, ClaimsHold
  <2>2. Continue /\ op' # Idle => op'.txn = t
    BY <1>2 DEF Continue, ControlTypeOK, Operation
  <2>3. \/ op' = Idle \/ op' = op
        \/ candidate'[t] = None /\ export'[t] = None /\ (proposal'[t] = None \/ tx'[t].artifact = None)
    BY <1>1, <1>2, <1>3, <1>5, <2>1 DEF Cleared, DiskTypeOK, logVars
  <2> QED BY <2>2, <2>3 DEF Cleared
<1>8. RemovalFits'
  <2>1. CASE op' = op
    <3>1. RemovalFits
      BY DEF Destroying, DestructionFits
    <3> QED BY <1>1, <2>1, <3>1 DEF RemovalFits, First, SealSteps, logVars
  <2>2. CASE Continue /\ op' # Idle /\ op' # op
    BY <1>1, <1>2, <1>7, <2>2, RemovalAdvanced DEF Destroying, DestructionFits
  <2> QED BY <1>5, <2>1, <2>2, RemovalIdle
<1> QED BY <1>1, <1>4, <1>6, <1>8, FewerIntents, SteadyLog, CarefulStep DEF logVars, SealSteps

\* Then the event, which is true already.
LEMMA LogDestroyedStepDestroys ==
    ASSUME Destroying, LogDestroyedStep
    PROVE  DestructionFits'
<1> DEFINE t == op.txn
           x == [tx[t] EXCEPT !.destroyed = TRUE]
<1>1. op.plan # <<>> /\ Head(op.plan) = "logDestroyed" /\ UNCHANGED disk /\ Continue
  BY DEF LogDestroyedStep, At, Go
<1>2. ControlTypeOK /\ PlanFits /\ LogInv
  BY DEF Destroying, Inductive
<1>3. t \in Txn
  BY <1>1, <1>2, FirstStep DEF TxnFreeSteps
<1>4. SealIntents = {}
  BY <1>1, SealFree
<1>5. Cleared(t) /\ Cared /\ ~First(SealSteps)
  BY <1>1, Uncopied DEF Destroying, DestructionFits, RemovalFits, First, SealSteps, disk
<1>6. CASE tx[t].destroyed
  <2>1. UNCHANGED logVars
    BY <1>6 DEF LogDestroyedStep
  <2>2. RemovalFits'
    BY <1>1, <1>2, <1>6, <2>1, RemovalAdvanced DEF Destroying, DestructionFits, logVars
  <2> QED BY <1>1, <1>4, <1>5, <2>1, <2>2, FewerIntents, SteadyLog, CarefulStep DEF logVars, SealSteps
<1>7. CASE ~tx[t].destroyed /\ tx[t].state = "NONE"
  <2>1. corrupt' /\ UNCHANGED projected
    BY <1>7 DEF LogDestroyedStep, RUN_ARTIFACTS_DESTROYED, Fold
  <2>2. ClaimsHold'
    BY <1>5, <2>1, SteadyLog, ClaimsKept DEF projected, Destroying, DestructionFits
  <2>3. CopiesFit'
    BY <1>4, <1>5, <2>1, CopiesKept DEF projected, Destroying, DestructionFits
  <2> QED BY <2>1, <2>2, <2>3 DEF DestructionFits
<1>8. CASE ~tx[t].destroyed /\ tx[t].state # "NONE"
  <2>1. Update(t, x) /\ UNCHANGED <<receipts, pending, corrupt>>
    BY <1>8 DEF LogDestroyedStep, RUN_ARTIFACTS_DESTROYED, Fold
  <2>2. tx[t] \in Transition
    BY <1>2, <1>3, RecordAt
  <2>3. x.destroyed /\ x.artifact = tx[t].artifact
    BY <2>2 DEF Transition
  <2>4. tx'[t] = x /\ \A u \in Txn \ {t} : tx'[u] = tx[u]
    BY <1>2, <1>3, <2>1 DEF Update, LogInv, LogTypeOK
  <2> HIDE DEF x
  <2>5. ClaimsHold'
    <3>1. \A i \in DOMAIN receipts : receipts[i].txn \in Txn
      BY <1>2, ReceiptAt
    <3>2. \A u \in Txn : tx[u].destroyed => tx'[u].destroyed
      BY <2>3, <2>4
    <3>3. \A u \in Txn : tx'[u].destroyed => Cleared(u)
      BY <1>5, <2>4 DEF Destroying, DestructionFits, ClaimsHold
    <3>4. \A u \in Txn : tx'[u].destroyed => Cleared(u)'
      <4>1. \A u \in Txn : tx'[u].artifact = tx[u].artifact
        BY <2>3, <2>4
      <4> QED BY <1>1, <3>3, <4>1 DEF Cleared, disk
    <3> QED BY <2>1, <3>1, <3>2, <3>4 DEF Destroying, DestructionFits, ClaimsHold
  <2>6. SealingFits' /\ CopiesFit'
    <3>1. SealIntents' = {}
      BY <1>4, <2>1, FewerIntents
    <3>2. \A u \in Txn : tx[u].artifact # None => tx'[u].artifact # None
      BY <2>3, <2>4
    <3>3. CopiesFit'
      BY <1>4, <1>5, <3>2, CopiesKept DEF Destroying, DestructionFits
    <3> QED BY <3>1, <3>3, SealingKept
  <2>7. RemovalFits'
    <3>1. tx'[t].destroyed
      BY <2>3, <2>4
    <3> QED BY <1>1, <1>2, <3>1, RemovalAdvanced DEF Destroying, DestructionFits
  <2> QED BY <2>5, <2>6, <2>7 DEF DestructionFits
<1> QED BY <1>6, <1>7, <1>8

\* A run is refused only when its artifacts are destroyed.
LEMMA DisposeStepDestroys ==
    ASSUME Destroying, NEW restored \in BOOLEAN, At(IF restored THEN "restore" ELSE "reject"),
           DisposeStep(restored)
    PROVE  DestructionFits'
<1> DEFINE t == op.txn
           s == IF restored THEN "restore" ELSE "reject"
           x == [tx[t] EXCEPT !.state = "ROLLED_BACK",
                              !.permit = IF @ = "NONE" THEN @ ELSE "REVOKED"]
           decision == IF restored THEN "ABORTED" ELSE op.decision
           authority == DispositionBase(t, restored)
           view == [authority EXCEPT !.epoch = @ + 1]
           rcpt == [txn |-> t, decision |-> decision, view |-> view, prior |-> authority]
<1>1. /\ op.plan # <<>> /\ Head(op.plan) = s /\ s \in {"reject", "restore"}
      /\ UNCHANGED <<candidate, proposal, export>>
  BY DEF DisposeStep, At
<1>2. ControlTypeOK /\ PlanFits /\ LogInv
  BY DEF Destroying, Inductive
<1>3. t \in Txn
  BY <1>1, <1>2, FirstStep DEF TxnFreeSteps
<1>4. SealIntents = {} /\ Cared /\ ~First(SealSteps)
  BY <1>1, SealFree, Uncopied DEF First, SealSteps
<1>5. decision \in {"QUARANTINED", "ABORTED"} => tx[t].destroyed
  BY <1>1 DEF Destroying, DestructionFits, RemovalFits, First
<1> HIDE DEF s
<1>6. CASE UNCHANGED logVars /\ Throw("RECOVERY_REQUIRED")
  BY <1>1, <1>6, SteadyLog, PlainStep DEF Throw, logVars, SealSteps
<1>7. CASE NON_COMMIT_DISPOSITIONED(t, decision, restored) /\ Go
  <2>1. CASE UNCHANGED projected /\ corrupt'
    <3>1. ClaimsHold'
      BY <1>4, <2>1, SteadyLog, ClaimsKept DEF projected, Destroying, DestructionFits
    <3>2. CopiesFit'
      BY <1>4, <2>1, CopiesKept DEF projected, Destroying, DestructionFits
    <3> QED BY <2>1, <3>1, <3>2 DEF DestructionFits
  <2>2. CASE Update(t, x) /\ receipts' = Append(receipts, rcpt) /\ UNCHANGED pending
    <3>1. tx[t] \in Transition
      BY <1>2, <1>3, RecordAt
    <3>2. x.destroyed = tx[t].destroyed /\ x.artifact = tx[t].artifact
      BY <3>1 DEF Transition
    <3> HIDE DEF x
    <3>3. Steady
      BY <1>2, <1>3, <2>2, <3>2, UpdateSteady
    <3>4. rcpt.txn = t /\ rcpt.decision = decision
      OBVIOUS
    <3> HIDE DEF rcpt, decision
    <3>5. receipts \in Seq(Receipt)
      BY <1>2 DEF LogInv, LogTypeOK
    <3>6. /\ DOMAIN receipts' = 1..(Len(receipts) + 1) /\ DOMAIN receipts = 1..Len(receipts)
          /\ Len(receipts) \in Nat /\ receipts'[Len(receipts) + 1] = rcpt
          /\ \A i \in DOMAIN receipts : receipts'[i] = receipts[i]
      BY <2>2, <3>5, AppendProperties, LenProperties
    <3>7. ClaimsHold'
      <4>1. \A i \in DOMAIN receipts : receipts[i].txn \in Txn
        BY <1>2, ReceiptAt
      <4>2. \A u \in Txn : tx'[u].destroyed => Cleared(u)'
        BY <3>3, <1>1 DEF Steady, Destroying, DestructionFits, ClaimsHold, Cleared
      <4>3. \A i \in DOMAIN receipts' : i \in DOMAIN receipts \/ i = Len(receipts) + 1
        BY <3>6
      <4>4. ASSUME NEW i \in DOMAIN receipts', receipts'[i].decision \in {"QUARANTINED", "ABORTED"}
            PROVE  tx'[receipts'[i].txn].destroyed
        <5>1. CASE i \in DOMAIN receipts
          BY <3>3, <3>6, <4>1, <4>4, <5>1 DEF Steady, Destroying, DestructionFits, ClaimsHold
        <5>2. CASE i = Len(receipts) + 1
          BY <1>3, <1>5, <3>3, <3>4, <3>6, <4>4, <5>2 DEF Steady
        <5> QED BY <4>3, <5>1, <5>2
      <4> QED BY <4>2, <4>4 DEF ClaimsHold
    <3>8. SealingFits' /\ CopiesFit'
      <4>1. SealIntents' = {}
        BY <1>4, <2>2, FewerIntents
      <4>2. CopiesFit'
        BY <1>4, <3>3, CopiesKept DEF Steady, Destroying, DestructionFits
      <4> QED BY <4>1, <4>2, SealingKept
    <3>9. RemovalFits'
      BY <1>1, <1>2, <1>7, RemovalAdvanced DEF Go, Destroying, DestructionFits
    <3> QED BY <3>7, <3>8, <3>9 DEF DestructionFits
  <2> QED BY <1>7, <2>1, <2>2 DEF NON_COMMIT_DISPOSITIONED, Fold
<1> QED BY <1>6, <1>7 DEF DisposeStep

\* A commit refuses nothing.
LEMMA AckStepDestroys ==
    ASSUME Destroying, AckStep
    PROVE  DestructionFits'
<1> DEFINE t == op.txn
           rcpt == [txn |-> t, decision |-> "COMMITTED", view |-> tx[t].next, prior |-> tx[t].base]
<1>1. /\ op.plan # <<>> /\ Head(op.plan) = "ack" /\ UNCHANGED disk /\ Continue
      /\ TRANSITION_ACKNOWLEDGED(t)
  BY DEF AckStep, At, Go
<1>2. ControlTypeOK /\ PlanFits /\ LogInv
  BY DEF Destroying, Inductive
<1>3. t \in Txn
  BY <1>1, <1>2, FirstStep DEF TxnFreeSteps
<1>4. SealIntents = {} /\ Cared /\ ~First(SealSteps)
  BY <1>1, SealFree, Uncopied DEF disk, First, SealSteps
<1>5. Steady /\ UNCHANGED pending /\ (receipts' = receipts \/ receipts' = Append(receipts, rcpt))
  BY <1>1, <1>2, <1>3, EventSteady DEF TRANSITION_ACKNOWLEDGED, Fold, projected
<1>6. ClaimsHold'
  <2>1. CASE receipts' = receipts
    BY <1>4, <1>5, <2>1, ClaimsKept DEF Destroying, DestructionFits
  <2>2. CASE receipts' = Append(receipts, rcpt)
    <3>1. rcpt.decision \notin {"QUARANTINED", "ABORTED"}
      OBVIOUS
    <3> HIDE DEF rcpt
    <3>2. receipts \in Seq(Receipt)
      BY <1>2 DEF LogInv, LogTypeOK
    <3>3. /\ DOMAIN receipts' = 1..(Len(receipts) + 1) /\ DOMAIN receipts = 1..Len(receipts)
          /\ Len(receipts) \in Nat /\ receipts'[Len(receipts) + 1] = rcpt
          /\ \A i \in DOMAIN receipts : receipts'[i] = receipts[i] /\ receipts[i].txn \in Txn
      BY <1>2, <2>2, <3>2, AppendProperties, LenProperties, ReceiptAt
    <3>4. \A u \in Txn : tx'[u].destroyed => Cleared(u)'
      BY <1>1, <1>5 DEF Steady, Destroying, DestructionFits, ClaimsHold, Cleared, disk
    <3>5. \A i \in DOMAIN receipts' : i \in DOMAIN receipts \/ i = Len(receipts) + 1
      BY <3>3
    <3>6. ASSUME NEW i \in DOMAIN receipts', receipts'[i].decision \in {"QUARANTINED", "ABORTED"}
          PROVE  tx'[receipts'[i].txn].destroyed
      <4>1. i \in DOMAIN receipts
        BY <3>1, <3>3, <3>5, <3>6
      <4> QED BY <1>5, <3>3, <3>6, <4>1 DEF Steady, Destroying, DestructionFits, ClaimsHold
    <3> QED BY <3>4, <3>6 DEF ClaimsHold
  <2> QED BY <1>5, <2>1, <2>2
<1>7. SealingFits' /\ CopiesFit'
  <2>1. SealIntents' = {}
    BY <1>4, <1>5, FewerIntents
  <2>2. CopiesFit'
    BY <1>4, <1>5, CopiesKept DEF Steady, Destroying, DestructionFits
  <2> QED BY <2>1, <2>2, SealingKept
<1>8. RemovalFits'
  BY <1>1, <1>2, RemovalAdvanced DEF Destroying, DestructionFits
<1> QED BY <1>6, <1>7, <1>8 DEF DestructionFits

LEMMA AuthorizeStepDestroys ==
    ASSUME Destroying, AuthorizeStep
    PROVE  DestructionFits'
<1> DEFINE t == op.txn
           x == [tx[t] EXCEPT !.state = "SEALED", !.artifact = op.tree, !.clean = TRUE]
<1>1. op.plan # <<>> /\ Head(op.plan) = "authorize" /\ UNCHANGED disk
  BY DEF AuthorizeStep, At
<1>2. ControlTypeOK /\ PlanFits /\ LogInv
  BY DEF Destroying, Inductive
<1>3. t \in Txn /\ tx[t] \in Transition /\ op.tree \in Tree
  <2>1. t \in Txn
    BY <1>1, <1>2, FirstStep DEF TxnFreeSteps
  <2>2. op.tree \in Tree
    BY <1>1, <1>2, AvoidsFirst DEF PlanFits
  <2> QED BY <1>2, <2>1, <2>2, RecordAt
<1>4. PROPOSAL_SEALED(t, op.tree, TRUE) => Steady /\ pending' \subseteq pending
  <2> HAVE PROPOSAL_SEALED(t, op.tree, TRUE)
  <2>1. x.destroyed = tx[t].destroyed /\ x.artifact # None /\ proposal'[t] = None
    <3>1. ~IsRun(t)
      BY <1>1, <1>2, FirstStep DEF Authorizing
    <3> QED BY <1>1, <1>3, <3>1, LogAssumption DEF Transition, Tree, disk, CopiesFit,
               Destroying, DestructionFits
  <2>2. UNCHANGED projected => Steady /\ pending' \subseteq pending
    BY DEF projected, Steady
  <2>3. Update(t, x) /\ pending' = Without("seal", t) => Steady /\ pending' \subseteq pending
    BY <1>2, <1>3, <2>1, UpdateSteady DEF Without
  <2> QED BY <2>2, <2>3 DEF PROPOSAL_SEALED, Fold
<1>5. EVIDENCE_RECORDED(t, TRUE) \/ PERMIT_ISSUED(t) => Steady /\ pending' \subseteq pending
  BY <1>2, <1>3, EventSteady DEF EVIDENCE_RECORDED, PERMIT_ISSUED, Fold, projected
<1>6. PERMIT_CONSUMING(t, NextView(t, op.tree, 1)) => Steady /\ pending' \subseteq pending
  BY <1>2, <1>3, EventSteady DEF PERMIT_CONSUMING, Fold, projected
<1>7. Steady /\ pending' \subseteq pending
  BY <1>4, <1>5, <1>6 DEF AuthorizeStep
<1>8. receipts' = receipts
  BY DEF AuthorizeStep, PROPOSAL_SEALED, EVIDENCE_RECORDED, PERMIT_ISSUED, PERMIT_CONSUMING, Fold, projected
<1>9. CASE Continue
  BY <1>1, <1>7, <1>8, <1>9, PlainStep DEF disk, SealSteps
<1>10. CASE Run("apply", t, SwapAndAcknowledge, None, None)
  <2>1. op'.kind = "apply" /\ op'.plan = Swap
    BY <1>10, SwapWritten DEF Run
  <2>2. RemovalFits'
    BY <2>1, RemovalBegun DEF Swap, SealSteps
  <2> QED BY <1>1, <1>7, <1>8, <2>2, SealFree, FewerIntents, Uncopied, CarefulStep DEF disk, SealSteps
<1> QED BY <1>9, <1>10 DEF AuthorizeStep

LEMMA LogRepairStepDestroys ==
    ASSUME Destroying, LogRepairStep
    PROVE  DestructionFits'
<1>1. op.plan # <<>> /\ Head(op.plan) = "logRepair" /\ UNCHANGED disk /\ REPAIR_APPLIED(op.txn)
  BY DEF LogRepairStep, At
<1>2. op.txn \in Txn /\ LogInv
  BY <1>1, FirstStep DEF TxnFreeSteps, Destroying, Inductive
<1>3. Steady /\ UNCHANGED <<receipts, pending>>
  BY <1>1, <1>2, EventSteady DEF REPAIR_APPLIED, Fold, projected
<1>4. /\ op'.kind = "repaired"
      /\ op'.plan \in {<<"snapshot", "apply", "ack", "dropBackup">>,
                       <<"remove", "logDestroyed", "restore">>}
  BY DEF LogRepairStep, Run
<1>5. RemovalFits'
  BY <1>4, RemovalBegun DEF SealSteps
<1> QED BY <1>1, <1>3, <1>5, SealFree, FewerIntents, Uncopied, CarefulStep DEF disk, SealSteps

LEMMA ExamineStepDestroys ==
    ASSUME Destroying, ExamineStep
    PROVE  DestructionFits'
<1>1. /\ op.plan # <<>> /\ Head(op.plan) = "examine" /\ UNCHANGED logVars
      /\ UNCHANGED <<candidate, proposal, export>>
  BY DEF ExamineStep, At, disk
<1>2. RemovalFits'
  <2>1. CASE op' = Idle
    BY <2>1, RemovalIdle
  <2>2. CASE op'.kind = "recover" /\ op'.plan \in {<<"settle">>, <<"reinstate", "examine">>}
    BY <2>2, RemovalBegun DEF SealSteps
  <2>3. CASE /\ op'.kind = "recover" /\ todo # <<>> /\ RecoveryPlan(Head(todo)) # <<>>
             /\ op'.plan = RecoveryPlan(Head(todo)) \o <<"examine">>
    <3>1. Head(todo) \in Txn
      BY <2>3, HeadTailProperties DEF ControlTypeOK, Destroying, Inductive
    <3>2. op'.plan \in {Pass, Back("reject"), Back("restore"), Applied, Forward}
      BY <2>3, <3>1, Recovering
    <3>3. Head(op'.plan) \in {"dropBackup", "snapshot", "apply"}
      BY <3>2 DEF Pass, Back, Applied, Forward
    <3> QED BY <2>3, <3>3, RemovalBegun DEF SealSteps
  <2> QED BY <2>1, <2>2, <2>3, ExaminePlanned DEF Destroying, Throw
<1> QED BY <1>1, <1>2, SealFree, FewerIntents, Uncopied, SteadyLog, CarefulStep DEF logVars, SealSteps

\* The intent of a seal is carried further.
LEMMA FinishSealDestroys ==
    ASSUME Destroying, At("finishIntent"), NEW i \in pending, i.kind = "seal", FinishSeal(i)
    PROVE  DestructionFits'
<1> DEFINE t == i.txn
           x == [tx[t] EXCEPT !.state = "SEALED", !.artifact = proposal[t], !.clean = i.clean]
<1>1. LogInv /\ DiskTypeOK /\ i \in Intent /\ i \in SealIntents
  BY DEF Destroying, Inductive, LogInv, LogTypeOK, SealIntents
<1>2. t \in Txn /\ tx[t] \in Transition
  BY <1>1, IntentParts, RecordAt
<1>3. /\ pending = {i} /\ tx[t].state = "PREPARED" /\ proposal[t] # None /\ SealIntents = {i}
      /\ ~tx[t].destroyed
  BY <1>1 DEF Destroying, DestructionFits, SealingFits, SealIntents
<1>4. op' = op /\ UNCHANGED <<up, receipts, proposal, export>> /\ candidate' \in {candidate, [candidate EXCEPT ![t] = None]}
  BY <1>3 DEF FinishSeal, Await, PROPOSAL_SEALED, Fold, projected, logVars, disk
<1>5. RemovalFits'
  <2>1. First({"finishIntent"}) /\ First({"finishIntent"})' /\ op.plan # <<>>
    BY <1>4 DEF At, First
  <2>2. op.kind \notin {"prepareRun", "conflict"}
    <3>1. Follows(op.kind, "finishIntent", Second)
      BY <2>1, Succession DEF First, At, Destroying, Inductive
    <3> QED BY <3>1 DEF Follows
  <2> QED BY <1>4, <2>1, <2>2, RemovalBegun DEF First, SealSteps
<1>6. Cared
  BY <1>1, <1>2, <1>4 DEF Cared, DiskTypeOK
<1>9. \A u \in Txn \ {t} : ~Sealing(u)
  <2>1. ~First(SealSteps)
    BY DEF At, First, SealSteps
  <2> QED BY <1>3, <2>1 DEF Sealing
<1>7. CASE UNCHANGED logVars
  <2>1. ClaimsHold'
    BY <1>4, <1>6, <1>7, SteadyLog, ClaimsKept DEF logVars, Destroying, DestructionFits
  <2>2. SealingFits'
    BY <1>4, <1>7 DEF logVars, SealingFits, SealIntents, First, Destroying, DestructionFits
  <2>3. CopiesFit'
    <3>1. Sealing(t)'
      BY <1>1, <1>3, <1>7 DEF logVars, Sealing, SealIntents
    <3> QED BY <1>4, <1>7, <1>9, <3>1 DEF logVars, CopiesFit, IsRun, Destroying, DestructionFits
  <2> QED BY <1>5, <2>1, <2>2, <2>3 DEF DestructionFits
<1>8. CASE Update(t, x) /\ pending' = Without("seal", t)
  <2>1. x.destroyed = tx[t].destroyed /\ x.artifact # None
    BY <1>2, <1>3 DEF Transition
  <2>2. Steady /\ tx'[t] = x /\ \A u \in Txn \ {t} : tx'[u] = tx[u]
    BY <1>1, <1>2, <1>3, <1>8, <2>1, UpdateSteady DEF Update, LogInv, LogTypeOK
  <2> HIDE DEF x
  <2>3. ClaimsHold'
    BY <1>4, <1>6, <2>2, ClaimsKept DEF Destroying, DestructionFits
  <2>4. SealIntents' = {}
    BY <1>3, <1>8 DEF Without, Completing, SealIntents
  <2>5. CopiesFit'
    BY <1>4, <1>9, <2>1, <2>2 DEF CopiesFit, IsRun, Destroying, DestructionFits
  <2>6. SealingFits'
    BY <2>4, SealingKept
  <2> QED BY <1>5, <2>3, <2>5, <2>6 DEF DestructionFits
<1> QED BY <1>3, <1>7, <1>8 DEF FinishSeal, PROPOSAL_SEALED, Fold, logVars

\* The verifier's copy is made of what is sealed and not destroyed.
LEMMA FinishExportDestroys ==
    ASSUME Destroying, At("finishIntent"), SealIntents = {}, NEW i \in pending, i.kind = "export",
           FinishExport(i), RemovalFits'
    PROVE  DestructionFits'
<1> DEFINE t == i.txn
           x == [tx[t] EXCEPT !.exported = TRUE]
<1>1. LogInv /\ DiskTypeOK /\ i \in Intent
  BY DEF Destroying, Inductive, LogInv, LogTypeOK
<1>2. t \in Txn /\ tx[t] \in Transition
  BY <1>1, IntentParts, RecordAt
<1>3. receipts' = receipts /\ pending' \subseteq pending
  BY DEF FinishExport, PROPOSAL_EXPORTED, Fold, projected, logVars, Without
<1>4. Cared
  <2>1. CASE UNCHANGED disk
    BY <2>1, Uncopied DEF disk
  <2>2. CASE /\ ProposalSealedState(t) /\ export' = [export EXCEPT ![t] = tx[t].artifact]
             /\ UNCHANGED <<candidate, proposal>>
    BY <1>1, <1>2, <2>2 DEF Cared, ProposalSealedState, DiskTypeOK
  <2> QED BY <2>1, <2>2 DEF FinishExport
<1>5. Steady
  <2>1. CASE UNCHANGED tx
    BY <2>1, SteadyLog
  <2>2. CASE Update(t, x)
    <3>1. x.destroyed = tx[t].destroyed /\ x.artifact = tx[t].artifact
      BY <1>2 DEF Transition
    <3> QED BY <1>1, <1>2, <2>2, <3>1, UpdateSteady
  <2> QED BY <2>1, <2>2 DEF FinishExport, PROPOSAL_EXPORTED, Fold, projected, logVars
<1>6. SealIntents' = {}
  BY <1>3, FewerIntents
<1>7. ClaimsHold' /\ SealingFits' /\ CopiesFit'
  <2>1. ~First(SealSteps)
    BY DEF At, First, SealSteps
  <2> QED BY <1>3, <1>4, <1>5, <1>6, <2>1, ClaimsKept, SealingKept, CopiesKept
          DEF Steady, Destroying, DestructionFits
<1> QED BY <1>7 DEF DestructionFits

LEMMA FinishIntentStepDestroys ==
    ASSUME Destroying, FinishIntentStep
    PROVE  DestructionFits'
<1>1. op.plan # <<>> /\ Head(op.plan) = "finishIntent" /\ At("finishIntent")
  BY DEF FinishIntentStep, At
<1>2. Follows(op.kind, "finishIntent", Second) /\ ControlTypeOK
  BY <1>1, Succession DEF Destroying, Inductive
<1>3. Continue \/ op' = Idle \/ op' = op
  BY DEF FinishIntentStep, FinishSeal, FinishExport, FinishPlatformRegeneration, FinishArchive,
         Go, Throw, Await
<1>4. RemovalFits'
  <2>1. Continue => RemovalFits'
    BY <1>1, <1>2, RemovalAdvanced DEF Destroying, DestructionFits
  <2>2. op' = op => RemovalFits'
    BY <1>1, <1>2, RemovalBegun DEF Follows, SealSteps
  <2> QED BY <1>3, <2>1, <2>2, RemovalIdle
<1>5. ASSUME NEW i \in pending, i.kind = "seal", FinishSeal(i) PROVE DestructionFits'
  BY <1>1, <1>5, FinishSealDestroys
<1>6. ASSUME SealIntents # {} PROVE DestructionFits'
  <2>1. PICK i \in SealIntents : TRUE
    BY <1>6
  <2>2. pending = {i} /\ i.kind = "seal"
    BY <2>1 DEF Destroying, DestructionFits, SealingFits, SealIntents
  <2> QED BY <1>5, <2>2 DEF FinishIntentStep
<1>7. ASSUME SealIntents = {}, UNCHANGED <<tx, receipts, candidate, proposal, export>>,
             pending' \subseteq pending
      PROVE  DestructionFits'
  <2>1. SealIntents' = {} /\ Cared /\ Steady
    BY <1>7, FewerIntents, Uncopied, SteadyLog
  <2>2. ~First(SealSteps)
    BY <1>1 DEF First, SealSteps
  <2>3. ClaimsHold' /\ SealingFits' /\ CopiesFit'
    BY <1>7, <2>1, <2>2, ClaimsKept, SealingKept, CopiesKept DEF Steady, Destroying, DestructionFits
  <2> QED BY <1>4, <2>3 DEF DestructionFits
<1>8. ASSUME SealIntents = {}, pending = {} PROVE DestructionFits'
  BY <1>7, <1>8 DEF FinishIntentStep, logVars, disk
<1>9. ASSUME SealIntents = {}, NEW i \in pending, FinishPlatformRegeneration(i) PROVE DestructionFits'
  BY <1>7, <1>9 DEF FinishPlatformRegeneration, PLATFORM_STATE_REGENERATED, Without, logVars, disk
<1>10. ASSUME SealIntents = {}, NEW i \in pending, FinishArchive(i) PROVE DestructionFits'
  BY <1>7, <1>10 DEF FinishArchive, AGENT_ARCHIVED, Without, logVars, disk
<1> QED BY <1>1, <1>4, <1>5, <1>6, <1>8, <1>9, <1>10, FinishExportDestroys DEF FinishIntentStep

LEMMA StepDestroys ==
    ASSUME Destroying, Step
    PROVE  DestructionFits'
<1>1. RejectStep => At(IF FALSE THEN "restore" ELSE "reject") /\ DisposeStep(FALSE)
  BY DEF RejectStep
<1>2. RestoreStep => At(IF TRUE THEN "restore" ELSE "reject") /\ DisposeStep(TRUE)
  BY DEF RestoreStep
<1>3. RejectStep \/ RestoreStep => DestructionFits'
  BY <1>1, <1>2, DisposeStepDestroys
<1> QED BY <1>3, PlainSteps, CloneStepDestroys, ImportProposalStepDestroys, LogSealStepDestroys,
           RemoveStepDestroys, LogDestroyedStepDestroys, AckStepDestroys, AuthorizeStepDestroys, LogRepairStepDestroys,
           ExamineStepDestroys, FinishIntentStepDestroys DEF Step

\* No request touches a copy.
LEMMA AskedDestroys ==
    ASSUME Destroying, Ready, UNCHANGED <<candidate, proposal, export, receipts>>, Steady,
           \A i \in pending' \ pending : i.kind # "seal", RemovalFits'
    PROVE  DestructionFits'
<1>1. SealIntents' = {}
  BY SealFree DEF SealIntents
<1> QED BY <1>1, Uncopied, CarefulStep

LEMMA RequestDestroys ==
    ASSUME Destroying, NEW t \in Txn, Request(t)
    PROVE  DestructionFits'
<1>1. LogInv
  BY DEF Destroying, Inductive
<1>2. Ready /\ UNCHANGED <<candidate, proposal, export>>
  BY DEF Request, PrepareRun, CancelRun, SealProposal, ExportProposal, RecordRuntimeTeardown,
         RecordEvidence, IssuePermit, ApplyPromotion, PromotionCasConflict, Prepare,
         ApplyRollback, DisposeRun, DisposeReplay, RepairRollback, RepairForward, RepairRequest, disk
<1>3. UNCHANGED receipts
  BY DEF Request, PrepareRun, CancelRun, SealProposal, ExportProposal, RecordRuntimeTeardown,
         RecordEvidence, IssuePermit, ApplyPromotion, PromotionCasConflict, Prepare,
         ApplyRollback, DisposeRun, DisposeReplay, RepairRollback, RepairForward, RepairRequest,
         RUN_CANCELLED, INTENT_PREPARED, RUNTIME_TEARDOWN_RECORDED, EVIDENCE_RECORDED, PERMIT_ISSUED,
         PERMIT_CONSUMING, TRANSITION_PREPARED, Fold, projected, logVars
<1>4. Steady
  <2>1. CASE UNCHANGED tx
    BY <2>1, SteadyLog
  <2>2. CASE \/ TRANSITION_PREPARED(t) \/ RUN_CANCELLED(t) \/ PERMIT_ISSUED(t)
             \/ (\E scope : RUNTIME_TEARDOWN_RECORDED(t, scope))
             \/ (\E passed : EVIDENCE_RECORDED(t, passed))
             \/ (\E next : PERMIT_CONSUMING(t, next))
    BY <1>1, <2>2, EventSteady
  <2> QED BY <2>1, <2>2 DEF Request, PrepareRun, CancelRun, SealProposal, ExportProposal,
         RecordRuntimeTeardown, RecordEvidence, IssuePermit, ApplyPromotion, PromotionCasConflict,
         Prepare, ApplyRollback, DisposeRun, DisposeReplay, RepairRollback, RepairForward,
         RepairRequest, INTENT_PREPARED, logVars
<1>5. \A i \in pending' \ pending : i.kind # "seal"
  <2>1. CASE UNCHANGED pending
    BY <2>1
  <2>2. CASE ExportProposal(t)
    <3> DEFINE intent == [kind |-> "export", txn |-> t, clean |-> TRUE]
    <3>1. pending' = pending \cup {intent} /\ intent.kind = "export"
      BY <2>2 DEF ExportProposal, INTENT_PREPARED
    <3> HIDE DEF intent
    <3> QED BY <3>1
  <2> QED BY <2>1, <2>2 DEF Request, PrepareRun, CancelRun, SealProposal, RecordRuntimeTeardown,
         RecordEvidence, IssuePermit, ApplyPromotion, PromotionCasConflict, Prepare,
         ApplyRollback, DisposeRun, DisposeReplay, RepairRollback, RepairForward, RepairRequest,
         RUN_CANCELLED, RUNTIME_TEARDOWN_RECORDED, EVIDENCE_RECORDED, PERMIT_ISSUED,
         PERMIT_CONSUMING, TRANSITION_PREPARED, Fold, projected, logVars
<1>6. UNCHANGED control => RemovalFits'
  BY <1>2, RemovalIdle DEF Ready, control
<1> USE DEF Run, SealSteps
<1>7. PrepareRun(t) => RemovalFits'
  BY DEF PrepareRun, RemovalFits, First, logVars
<1>8. SealProposal(t) => RemovalFits'
  <2> HAVE SealProposal(t)
  <2>1. /\ op'.kind = "seal" /\ op'.txn = t /\ op'.tree = candidate[t]
        /\ op'.plan # <<>> /\ Head(op'.plan) = "importProposal"
    BY DEF SealProposal
  <2>2. /\ tx[t].state = "PREPARED" /\ candidate[t] # None /\ pending = {} /\ IsRun(t)
        /\ Handshake => "AGENT" \in tx[t].teardown
        /\ UNCHANGED <<logVars, disk>>
    BY DEF SealProposal, TeardownRecorded
  <2>3. ~tx[t].destroyed
    BY <2>2 DEF Destroying, DestructionFits, ClaimsHold, Cleared
  <2> QED BY <2>1, <2>2, <2>3 DEF RemovalFits, First, SealSteps, logVars, disk, IsRun
<1>9. ExportProposal(t) \/ ApplyPromotion(t) => RemovalFits'
  <2>1. ApplyPromotion(t) => op'.plan = Swap
    BY SwapWritten DEF ApplyPromotion
  <2> QED BY <2>1, RemovalBegun DEF ExportProposal, ApplyPromotion, Swap
<1>10. PromotionCasConflict(t) => RemovalFits'
  BY DEF PromotionCasConflict, RemovalFits, First, SealSteps
<1>11. ASSUME NEW tree \in Tree, ApplyRollback(t, tree) PROVE RemovalFits'
  BY <1>11, RemovalBegun DEF ApplyRollback
<1>12. ASSUME NEW decision \in Dispositions, DisposeRun(t, decision) PROVE RemovalFits'
  BY <1>12, RemovalBegun DEF DisposeRun
<1>13. DisposeReplay(t) \/ RepairRollback(t) => RemovalFits'
  BY RemovalBegun DEF DisposeReplay, RepairRollback
<1>14. RepairForward(t) => RemovalFits'
  <2> HAVE RepairForward(t)
  <2>1. /\ op'.kind = "repair"
        /\ op'.plan \in {<<"logRepair">>, <<"backup", "logBackup", "swap", "logRepair">>}
    BY DEF RepairForward
  <2> QED BY <2>1, RemovalBegun
<1>15. Prepare(t) \/ CancelRun(t) \/ IssuePermit(t) => RemovalFits'
  BY <1>6 DEF Prepare, CancelRun, IssuePermit
<1>16. ASSUME NEW scope \in {"AGENT", "ALL"}, RecordRuntimeTeardown(t, scope) PROVE RemovalFits'
  BY <1>6, <1>16 DEF RecordRuntimeTeardown
<1>17. ASSUME NEW passed \in BOOLEAN, RecordEvidence(t, passed) PROVE RemovalFits'
  BY <1>6, <1>17 DEF RecordEvidence
<1>18. RemovalFits'
  BY <1>7, <1>8, <1>9, <1>10, <1>11, <1>12, <1>13, <1>14, <1>15, <1>16, <1>17 DEF Request
<1> QED BY <1>2, <1>3, <1>4, <1>5, <1>18, AskedDestroys

LEMMA DestructionKept ==
    ASSUME Inductive, OrderFits, DestructionFits, MaxFaults = 0, [Next]_vars
    PROVE  DestructionFits'
<1>1. CASE UNCHANGED <<logVars, op, up, candidate, proposal, export>>
  BY <1>1 DEF logVars, DestructionFits, ClaimsHold, CopiesFit, SealingFits, RemovalFits, Cleared,
              Sealing, SealIntents, First, IsRun
<1>2. UNCHANGED vars => DestructionFits'
  BY <1>1 DEF vars, disk, control
<1>3. ASSUME NEW tree \in Tree, Drift(tree) PROVE DestructionFits'
  BY <1>1, <1>3 DEF Drift, control
<1>4. ProbeWorkspace => DestructionFits'
  BY <1>1 DEF ProbeWorkspace, control
<1>5. ASSUME NEW t \in Txn, NEW tree \in Tree, AgentEdits(t, tree) PROVE DestructionFits'
  <2>1. candidate \in [Txn -> Tree \cup {None}] /\ tx[t] \in Transition
    BY <1>5, RecordAt DEF Inductive, DiskTypeOK
  <2>2. LogInv /\ tx[t].state = "PREPARED"
    BY <1>5 DEF Inductive, AgentEdits
  <2>3. tx[t].base \in View /\ tx[t].base.tree \in Tree
    <3>1. tx[t].base \in View
      BY <2>2, RecordAt DEF FactsFit
    <3> QED BY <3>1 DEF View
  <2>4. candidate[t] # None /\ tree # None
    BY <1>5, <2>3, LogAssumption DEF AgentEdits, Tree
  <2>5. \A u \in Txn : candidate'[u] # None <=> candidate[u] # None
    BY <1>5, <2>1, <2>4 DEF AgentEdits
  <2>6. UNCHANGED <<logVars, op, up, proposal, export>>
    BY <1>5 DEF AgentEdits, control
  <2>7. ClaimsHold' /\ CopiesFit'
    BY <2>5, <2>6 DEF logVars, DestructionFits, ClaimsHold, Cleared, CopiesFit, Sealing, SealIntents, First, IsRun
  <2>8. CASE corrupt
    BY <2>6, <2>7, <2>8 DEF logVars, DestructionFits
  <2>9. CASE ~corrupt
    <3>1. First(SealSteps \cup {"logDestroyed"}) => op.txn \in Txn
      BY <2>9, FirstStep DEF First, TxnFreeSteps, SealSteps, Inductive
    <3>2. SealingFits /\ RemovalFits
      BY <2>9 DEF DestructionFits
    <3>3. SealingFits'
      BY <2>6, <3>2 DEF logVars, SealingFits, SealIntents, First
    <3>4. First(SealSteps) => candidate'[op.txn] # None
      BY <2>5, <3>1, <3>2 DEF RemovalFits, First
    <3>5. First({"logDestroyed"}) => candidate'[op.txn] = None
      BY <2>5, <3>1, <3>2 DEF RemovalFits, First, Cleared
    <3>6. First(SealSteps) => (Handshake => candidate'[op.txn] = op.tree)
      <4> HAVE First(SealSteps)
      <4> HAVE Handshake
      <4>1. "AGENT" \in tx[op.txn].teardown /\ candidate[op.txn] = op.tree
        BY <3>2 DEF RemovalFits
      <4>2. t # op.txn
        BY <1>5, <4>1 DEF AgentEdits
      <4> QED BY <1>5, <2>1, <3>1, <4>1, <4>2 DEF AgentEdits, First
    <3>7. RemovalFits'
      BY <2>6, <3>2, <3>4, <3>5, <3>6 DEF logVars, RemovalFits, First, Cleared, IsRun
    <3> QED BY <2>7, <3>3, <3>7 DEF DestructionFits
  <2> QED BY <2>8, <2>9
<1>6. Crash \/ InitializeThrows => DestructionFits'
  <2> HAVE Crash \/ InitializeThrows
  <2>1. UNCHANGED <<logVars, disk>> /\ op' = Idle /\ up' = "down"
    BY DEF Crash, InitializeThrows, Inductive, OrderFits, ProcessFits
  <2>2. RemovalFits'
    BY <2>1, RemovalIdle
  <2> QED BY <2>1, <2>2 DEF logVars, disk, DestructionFits, ClaimsHold, CopiesFit, SealingFits, Cleared,
             SealIntents, IsRun
<1>7. ~Fault
  BY DEF Fault, Inductive, ControlTypeOK
<1>8. ~corrupt => DestructionFits'
  <2> HAVE ~corrupt
  <2>1. ASSUME up' = "serving" => up = "serving" PROVE Destroying
    BY <2>1 DEF Destroying
  <2>2. ASSUME NEW t \in Txn, Request(t) PROVE DestructionFits'
    <3>1. up = "serving"
      BY <2>2 DEF Request, PrepareRun, CancelRun, SealProposal, ExportProposal, RecordRuntimeTeardown,
         RecordEvidence, IssuePermit, ApplyPromotion, PromotionCasConflict, Prepare,
         ApplyRollback, DisposeRun, DisposeReplay, RepairRollback, RepairForward, RepairRequest, Ready
    <3> QED BY <2>1, <2>2, <3>1, RequestDestroys
  <2>3. ASSUME NEW kind \in {"intents", "archive", "platform"}, Ready,
               UNCHANGED <<candidate, proposal, export, receipts, tx>>,
               Run(kind, None, <<"finishIntent">>, None, None),
               \A i \in pending' \ pending : i.kind # "seal"
        PROVE  DestructionFits'
    <3>1. RemovalFits'
      BY <2>3, RemovalBegun DEF Run, SealSteps
    <3>2. Destroying
      BY <2>1, <2>3 DEF Ready
    <3> QED BY <2>3, <3>1, <3>2, SteadyLog, AskedDestroys
  <2>4. RecoverPendingWorkerIntents => DestructionFits'
    BY <2>3 DEF RecoverPendingWorkerIntents, logVars, disk
  <2>5. ArchiveAgent => DestructionFits'
    <3> HAVE ArchiveAgent
    <3> DEFINE intent == [kind |-> "archive", view |-> head]
    <3>1. pending' = pending \cup {intent} /\ intent.kind = "archive"
      BY DEF ArchiveAgent, INTENT_PREPARED
    <3> HIDE DEF intent
    <3>2. \A i \in pending' \ pending : i.kind # "seal"
      BY <3>1
    <3> QED BY <2>3, <3>2 DEF ArchiveAgent, INTENT_PREPARED, disk
  <2>6. ASSUME NEW p \in Platform, RegeneratePlatformState(p) PROVE DestructionFits'
    <3>1. \A i \in pending' \ pending : i.kind # "seal"
      BY <2>6 DEF RegeneratePlatformState, INTENT_PREPARED
    <3> QED BY <2>3, <2>6, <3>1 DEF RegeneratePlatformState, INTENT_PREPARED
  <2>7. RecoverAgent \/ Start => DestructionFits'
    <3> HAVE RecoverAgent \/ Start
    <3>1. /\ UNCHANGED <<logVars, disk>> /\ op'.kind = "recover"
          /\ op'.plan = <<"finishIntent", "examine">>
      BY DEF RecoverAgent, Start, BeginRecovery, Run
    <3>2. RemovalFits' /\ First({"finishIntent"})'
      BY <3>1, RemovalBegun DEF First, SealSteps
    <3>3. SealingFits'
      BY <3>1, <3>2 DEF logVars, disk, SealingFits, SealIntents, DestructionFits
    <3>4. up' = "serving" => up = "serving"
      BY DEF RecoverAgent, Start
    <3>5. ~First(SealSteps)
      BY DEF RecoverAgent, Start, Ready, Idle, First, Inductive, OrderFits, ProcessFits
    <3>6. ClaimsHold' /\ CopiesFit'
      BY <3>1, <3>4, <3>5 DEF logVars, disk, ClaimsHold, CopiesFit, Sealing, SealIntents, Cleared, IsRun,
         DestructionFits
    <3> QED BY <3>2, <3>3, <3>6 DEF DestructionFits
  <2>8. Sweep => DestructionFits'
    <3> HAVE Sweep
    <3>1. /\ up = "sweeping" /\ UNCHANGED <<logVars, candidate, export, op>>
          /\ \/ \E t \in Txn : proposal' = [proposal EXCEPT ![t] = None] /\ up' = up
             \/ (\A t \in Txn : ~Orphan(t)) /\ UNCHANGED proposal
      BY DEF Sweep
    <3>2. op = Idle /\ op' = Idle /\ op.plan = <<>>
      BY <3>1 DEF OrderFits, ProcessFits, Idle
    <3>3. SealIntents = {} /\ SealIntents' = {}
      <4>1. SealIntents = {}
        BY <3>1, <3>2 DEF DestructionFits, SealingFits, First
      <4> QED BY <3>1, <4>1 DEF logVars, SealIntents
    <3>4. SealingFits' /\ RemovalFits'
      BY <3>2, <3>3, SealingKept, RemovalIdle
    <3>5. Cared
      BY <3>1 DEF Cared, Inductive, DiskTypeOK
    <3>6. ClaimsHold'
      BY <3>1, <3>5, SteadyLog, ClaimsKept DEF logVars, DestructionFits
    <3>7. CopiesFit'
      <4>1. ASSUME NEW t \in Txn, proposal'[t] # None
            PROVE  IsRun(t) /\ (Handshake /\ up' = "serving" => tx[t].artifact # None)
        <5>1. proposal[t] # None /\ IsRun(t)
          BY <3>5, <4>1 DEF Cared, DestructionFits, CopiesFit
        <5>2. CASE up' = up
          BY <3>1, <5>1, <5>2
        <5>3. CASE ~Orphan(t)
          <6>1. \A i \in pending : ~Completing(i, "seal", t)
            BY <3>3 DEF SealIntents, Completing
          <6> QED BY <5>1, <5>3, <6>1 DEF Orphan, ProposalSealedState
        <5> QED BY <3>1, <5>2, <5>3
      <4> QED BY <3>1, <4>1 DEF CopiesFit, logVars, IsRun
    <3> QED BY <3>4, <3>6, <3>7 DEF DestructionFits
  <2>9. Step => DestructionFits'
    <3> HAVE Step
    <3>1. up' = "serving" => up = "serving"
      BY DEF Step, CloneStep, PrepareStep, ImportProposalStep, LogSealStep, AuthorizeStep,
           BackupStep, LogBackupStep, SwapStep, SnapshotStep, ApplyStep, AckStep, DropBackupStep,
           RemoveStep, LogDestroyedStep, RejectStep, RestoreStep, DisposeStep, EvictStep, ReinstateStep,
           LogRepairStep, FinishIntentStep, FinishSeal, FinishExport, FinishPlatformRegeneration,
           FinishArchive, ExamineStep, SettleStep, Go, Await, Throw, Fail
    <3> QED BY <2>1, <3>1, StepDestroys
  <2> QED BY <1>2, <1>3, <1>4, <1>5, <1>6, <1>7, <2>2, <2>4, <2>5, <2>6, <2>7, <2>8, <2>9
          DEF Next
<1>9. corrupt => DestructionFits'
  <2> HAVE corrupt
  <2>1. ~Ready /\ ~Step /\ ~Start /\ ~Sweep
    BY DEF Ready, Start, Sweep, Step, At, CloneStep, PrepareStep, ImportProposalStep, LogSealStep, AuthorizeStep,
           BackupStep, LogBackupStep, SwapStep, SnapshotStep, ApplyStep, AckStep, DropBackupStep,
           RemoveStep, LogDestroyedStep, RejectStep, RestoreStep, EvictStep, ReinstateStep,
           LogRepairStep, FinishIntentStep, ExamineStep, SettleStep
  <2>2. ASSUME NEW t \in Txn PROVE ~Request(t)
    BY <2>1 DEF Request, PrepareRun, CancelRun, SealProposal, ExportProposal, RecordRuntimeTeardown,
         RecordEvidence, IssuePermit, ApplyPromotion, PromotionCasConflict, Prepare,
         ApplyRollback, DisposeRun, DisposeReplay, RepairRollback, RepairForward, RepairRequest
  <2>3. ~RecoverPendingWorkerIntents /\ ~RecoverAgent /\ ~ArchiveAgent
        /\ \A p \in Platform : ~RegeneratePlatformState(p)
    BY <2>1 DEF RecoverPendingWorkerIntents, RecoverAgent, ArchiveAgent, RegeneratePlatformState
  <2> QED BY <1>2, <1>3, <1>4, <1>5, <1>6, <1>7, <2>1, <2>2, <2>3 DEF Next
<1> QED BY <1>8, <1>9

LEMMA InitDestroys == Init => DestructionFits
<1>1. Init => ClaimsHold
  BY DEF Init, LogInit, ClaimsHold, Unprepared
<1>2. Init => SealingFits
  BY DEF Init, LogInit, SealingFits, SealIntents
<1>3. Init => RemovalFits /\ CopiesFit
  BY DEF Init, RemovalFits, First, Idle, CopiesFit
<1> QED BY <1>1, <1>2, <1>3 DEF DestructionFits

\* What is said to be destroyed is gone, and nothing brings it back
\* (destroyRunArtifacts, appendNonCommitDisposition, recoverAgent): whatever is
\* interrupted, drifts, overlaps or is repaired, as long as no I/O fails.
THEOREM DestroyedStaysDestroyed == MaxFaults = 0 => (Spec => []DestroyedLeavesNothing)
<1> SUFFICES ASSUME MaxFaults = 0 PROVE Spec => []DestroyedLeavesNothing
  OBVIOUS
<1> DEFINE Inv == Inductive /\ OrderFits /\ DestructionFits
<1>1. Init => Inv
  BY InitInductive, InitFits, InitDestroys
<1>2. Inv /\ [Next]_vars => Inv'
  BY NextInductive, OrderKept, DestructionKept
<1>3. Inv => DestroyedLeavesNothing
  <2> HAVE Inv
  <2>1. \A t \in Txn : tx[t].destroyed => Cleared(t) /\ ~Sealing(t)
    BY DEF DestructionFits, ClaimsHold, Sealing
  <2>2. \A t \in Txn : tx[t].destroyed /\ proposal[t] # None =>
           tx[t].artifact = None /\ (Handshake => up # "serving")
    BY <2>1 DEF DestructionFits, CopiesFit, Cleared
  <2>3. \A i \in DOMAIN receipts : receipts[i].txn \in Txn
    BY ReceiptAt DEF Inductive
  <2> QED BY <2>1, <2>2, <2>3 DEF DestructionFits, ClaimsHold, Cleared, DestroyedLeavesNothing
<1> HIDE DEF Inv
<1> QED BY <1>1, <1>2, <1>3, PTL DEF Spec

----------------------------------------------------------------------------
(* All of it. *)

\* RecoveryInv is an invariant of the Worker: what its handlers, its startup and
\* its recovery rely on when they take their next durable step is there.
THEOREM RecoveryInvariance == Spec => []RecoveryInv
<1> DEFINE Inv == /\ Inductive /\ OrderFits /\ SnapshotsFit
                  /\ RepairFree => Replayable
                  /\ MaxFaults = 0 => DestructionFits
<1>1. Init => Inv
  BY InitInductive, InitFits, InitReplayable, InitDestroys
<1>2. ASSUME Inv, [Next]_vars PROVE Inv'
  <2>1. (Inductive /\ OrderFits /\ SnapshotsFit)'
    BY <1>2, NextInductive, OrderKept, SnapshotsKept
  <2>2. ASSUME RepairFree PROVE Replayable'
    <3>1. Replaying
      BY <1>2, <2>1, <2>2 DEF Replaying
    <3> QED BY <1>2, <2>2, <3>1, ReplayKept
  <2>3. MaxFaults = 0 => DestructionFits'
    BY <1>2, DestructionKept
  <2>4. RepairFree' = RepairFree /\ (MaxFaults = 0)' = (MaxFaults = 0)
    BY DEF RepairFree
  <2> QED BY <2>1, <2>2, <2>3, <2>4
<1>3. Inv => RecoveryInv
  BY DEF RecoveryInv
<1> HIDE DEF Inv
<1> QED BY <1>1, <1>2, <1>3, PTL DEF Spec

----------------------------------------------------------------------------
(***************************************************************************)
(* Part III.  With one open transition at a time the Worker's decisions    *)
(* are one chain, and the Worker implements StateAuthority, whatever is    *)
(* killed, fails, drifts or is repaired.                                   *)
(***************************************************************************)

----------------------------------------------------------------------------
(* Views. *)

LEMMA ViewFields ==
    ASSUME NEW view \in View
    PROVE  /\ view.ver \in Txn \cup {Initial} /\ view.gen \in Nat /\ view.epoch \in Nat /\ view.cfg \in Nat
           /\ view.tree.v \in Versioned /\ view.tree.p \in Platform
           /\ view = [ver |-> view.ver, gen |-> view.gen, tree |-> [v |-> view.tree.v, p |-> view.tree.p],
                      epoch |-> view.epoch, cfg |-> view.cfg]
<1>1. view.tree \in Tree /\ view.tree = [v |-> view.tree.v, p |-> view.tree.p]
  BY DEF View, Tree
<1> QED BY <1>1 DEF View, Tree

LEMMA ConfiguredFields ==
    ASSUME NEW view \in View, NEW p \in Platform
    PROVE  LET next == Configured(view, p) IN
           /\ next \in View /\ next.ver = view.ver /\ next.gen = view.gen + 1 /\ next.tree.v = view.tree.v
           /\ next.epoch = view.epoch + 1 /\ next.cfg = view.cfg + 1 /\ next.tree.p = p
BY ViewFields DEF Configured, View, Tree

\* A regeneration more.
LEMMA LeadsOn ==
    ASSUME NEW from \in View, NEW to \in View, NEW p \in Platform, Leads(from, to)
    PROVE  Leads(from, Configured(to, p))
<1> DEFINE next == Configured(to, p)
<1>1. /\ next \in View /\ next.ver = to.ver /\ next.gen = to.gen + 1 /\ next.tree.v = to.tree.v
      /\ next.epoch = to.epoch + 1 /\ next.cfg = to.cfg + 1
  BY ConfiguredFields
<1> HIDE DEF next
<1>2. from.cfg \in Nat /\ to.cfg \in Nat /\ from.gen \in Nat /\ to.gen \in Nat /\ from.epoch \in Nat
      /\ to.epoch \in Nat
  BY ViewFields
<1>3. CASE from = to
  <2>1. Regenerated(from, next)
    BY <1>1, <1>2, <1>3 DEF Regenerated
  <2> QED BY <2>1 DEF Leads, next
<1>4. CASE Regenerated(from, to)
  <2>1. Regenerated(from, next)
    BY <1>1, <1>2, <1>4 DEF Regenerated
  <2> QED BY <2>1 DEF Leads, next
<1> QED BY <1>3, <1>4 DEF Leads

LEMMA LastViewTyped ==
    ASSUME LogInv
    PROVE  LastView \in View
<1>1. receipts \in Seq(Receipt)
  BY DEF LogInv, LogTypeOK
<1>2. receipts # <<>> => Len(receipts) \in DOMAIN receipts
  BY <1>1
<1>3. InitialView \in View
  BY LogAssumption DEF InitialView, View, Tree
<1>4. receipts # <<>> => receipts[Len(receipts)] \in Receipt
  BY <1>1, <1>2
<1> QED BY <1>3, <1>4 DEF LastView, Receipt

\* A decision more.
LEMMA ChainAppended ==
    ASSUME LogInv, SerialHistory, NEW rcpt \in Receipt, receipts' = Append(receipts, rcpt),
           Leads(LastView, rcpt.prior)
    PROVE  SerialHistory' /\ LastView' = rcpt.view
<1>1. /\ receipts \in Seq(Receipt) /\ Len(receipts) \in Nat /\ DOMAIN receipts = 1..Len(receipts)
      /\ Len(receipts') = Len(receipts) + 1 /\ DOMAIN receipts' = 1..(Len(receipts) + 1)
      /\ receipts'[Len(receipts) + 1] = rcpt /\ receipts' # <<>>
      /\ \A i \in DOMAIN receipts : receipts'[i] = receipts[i]
  BY DEF LogInv, LogTypeOK
<1>2. LastView' = rcpt.view
  BY <1>1 DEF LastView
<1>3. SerialHistory <=> \A i \in DOMAIN receipts :
          Leads(IF i = 1 THEN InitialView ELSE receipts[i - 1].view, receipts[i].prior)
  BY DEF SerialHistory
<1>4. SerialHistory' <=> \A i \in DOMAIN receipts' :
          Leads(IF i = 1 THEN InitialView ELSE receipts'[i - 1].view, receipts'[i].prior)
  BY DEF SerialHistory
<1>5. ASSUME NEW i \in DOMAIN receipts'
      PROVE  Leads(IF i = 1 THEN InitialView ELSE receipts'[i - 1].view, receipts'[i].prior)
  <2>1. CASE i \in DOMAIN receipts
    <3>1. i = 1 \/ i - 1 \in DOMAIN receipts
      BY <1>1, <2>1
    <3> QED BY <1>1, <1>3, <2>1, <3>1
  <2>2. CASE i = Len(receipts) + 1
    <3>1. i = 1 <=> receipts = <<>>
      BY <1>1, <2>2, EmptySeq
    <3>2. i # 1 => i - 1 = Len(receipts) /\ i - 1 \in DOMAIN receipts
      BY <1>1, <2>2
    <3>3. LastView = IF i = 1 THEN InitialView ELSE receipts'[i - 1].view
      BY <1>1, <3>1, <3>2 DEF LastView
    <3> QED BY <1>1, <2>2, <3>3
  <2> QED BY <1>1, <2>1, <2>2
<1> QED BY <1>2, <1>4, <1>5

----------------------------------------------------------------------------
(* Events. *)

\* An event about what is not on the crossing, which opens nothing.
Unmoved ==
    /\ UNCHANGED <<head, receipts>>
    /\ \A u \in Txn :
        \/ /\ tx'[u].state = tx[u].state /\ tx'[u].base = tx[u].base /\ tx'[u].next = tx[u].next
           /\ tx'[u].artifact = tx[u].artifact
        \/ tx[u].state \in OpenStates /\ tx'[u].state \in OpenStates

LEMMA ChainUnmoved ==
    ASSUME ChainFits, Unmoved, RegenerationsFit'
    PROVE  ChainFits'
<1>1. \A u \in Txn : (Live(u)' <=> Live(u)) /\ (Crossing(u)' <=> Crossing(u))
  BY DEF Unmoved, Live, Crossing, OpenStates, CrossingStates
<1>2. OneLive'
  BY <1>1 DEF ChainFits, OneLive
<1>3. LastView' = LastView /\ head' = head
  BY DEF Unmoved, LastView
<1>4. SerialHistory'
  BY DEF ChainFits, SerialHistory, Leads, Unmoved
<1>5. \A u \in Txn : Crossing(u)' => Leads(LastView', tx'[u].base)
  BY <1>1, <1>3 DEF ChainFits, ViewsFit, Unmoved, Crossing, OpenStates, CrossingStates
<1>6. \A u \in Txn : tx'[u].state = "APPLIED" => Leads(tx'[u].next, head')
  BY <1>3 DEF ChainFits, ViewsFit, Unmoved, OpenStates
<1>7. (\A u \in Txn : tx'[u].state \notin {"APPLIED", "REPAIRED"}) => Leads(LastView', head')
  <2>1. (\A u \in Txn : tx'[u].state \notin {"APPLIED", "REPAIRED"}) =>
          \A u \in Txn : tx[u].state \notin {"APPLIED", "REPAIRED"}
    BY DEF Unmoved, OpenStates
  <2> QED BY <1>3, <2>1 DEF ChainFits, ViewsFit
<1> QED BY <1>2, <1>4, <1>5, <1>6, <1>7 DEF ChainFits, ViewsFit, Leads, Regenerated

\* An event the fold rejects, or a step that appends none.
LEMMA ChainProjected ==
    ASSUME ChainFits, UNCHANGED projected
    PROVE  ChainFits'
BY ChainUnmoved DEF Unmoved, projected, ChainFits, RegenerationsFit

\* The events between the admission and the permit, and the destruction of
\* what a run has left.
Opening(t, sealing) ==
    \/ RUN_CANCELLED(t) \/ PROPOSAL_EXPORTED(t) \/ RUN_ARTIFACTS_DESTROYED(t) \/ PERMIT_ISSUED(t)
    \/ \E scope : RUNTIME_TEARDOWN_RECORDED(t, scope)
    \/ sealing /\ \E artifact, clean : PROPOSAL_SEALED(t, artifact, clean)
    \/ \E passed : EVIDENCE_RECORDED(t, passed)

\* ... and what they leave: nothing is past its admission that was not, but by
\* a seal.
Turned(sealing) ==
    /\ Unmoved /\ pending' \subseteq pending /\ archived' = archived
    /\ \A u \in Txn : \/ tx'[u].state \in {tx[u].state, "CANCELLED"}
                      \/ tx[u].state \in {"SEALED", "EVIDENCED"}
                      \/ sealing

\* Each is about an open transition, or leaves its state as it is.
LEMMA OpeningTurns ==
    ASSUME LogInv, NEW t \in Txn, NEW sealing, Opening(t, sealing)
    PROVE  Turned(sealing)
<1>1. tx[t] \in Transition
  BY RecordAt
<1>2. CASE UNCHANGED projected
  BY <1>2 DEF Turned, Unmoved, projected
<1>3. ASSUME NEW x, Update(t, x), UNCHANGED <<head, receipts, archived>>, pending' \subseteq pending,
             \/ x.state = tx[t].state /\ x.base = tx[t].base /\ x.next = tx[t].next /\ x.artifact = tx[t].artifact
             \/ tx[t].state \in OpenStates /\ x.state \in OpenStates,
             x.state \in {tx[t].state, "CANCELLED"} \/ tx[t].state \in {"SEALED", "EVIDENCED"} \/ sealing
      PROVE  Turned(sealing)
  <2>1. tx'[t] = x /\ \A u \in Txn \ {t} : tx'[u] = tx[u]
    BY <1>3 DEF Update, LogInv, LogTypeOK
  <2> QED BY <1>3, <2>1 DEF Turned, Unmoved
<1>4. \A kind : Without(kind, t) \subseteq pending
  BY DEF Without
<1>5. CASE RUN_CANCELLED(t)
  <2> DEFINE x == [tx[t] EXCEPT !.state = "CANCELLED", !.permit = IF @ = "ISSUED" THEN "REVOKED" ELSE @]
  <2>1. x.state \in OpenStates /\ x.state = "CANCELLED"
    BY <1>1 DEF Transition, OpenStates
  <2>2. CASE Update(t, x) /\ tx[t].state \in OpenStates /\ UNCHANGED <<head, receipts, archived>> /\ UNCHANGED pending
    <3> HIDE DEF x
    <3> QED BY <1>3, <1>4, <2>1, <2>2 DEF OpenStates
  <2> QED BY <1>2, <1>5, <2>2 DEF RUN_CANCELLED, Fold
<1>6. CASE PROPOSAL_EXPORTED(t)
  <2> DEFINE x == [tx[t] EXCEPT !.exported = TRUE]
  <2>1. x.state = tx[t].state /\ x.base = tx[t].base /\ x.next = tx[t].next /\ x.artifact = tx[t].artifact
    BY <1>1 DEF Transition
  <2>2. CASE Update(t, x) /\ UNCHANGED <<head, receipts, archived>> /\ pending' = Without("export", t)
    <3> HIDE DEF x
    <3> QED BY <1>3, <1>4, <2>1, <2>2
  <2> QED BY <1>2, <1>6, <2>2 DEF PROPOSAL_EXPORTED, Fold
<1>7. CASE RUN_ARTIFACTS_DESTROYED(t)
  <2> DEFINE x == [tx[t] EXCEPT !.destroyed = TRUE]
  <2>1. x.state = tx[t].state /\ x.base = tx[t].base /\ x.next = tx[t].next /\ x.artifact = tx[t].artifact
    BY <1>1 DEF Transition
  <2>2. CASE Update(t, x) /\ UNCHANGED <<head, receipts, archived>> /\ UNCHANGED pending
    <3> HIDE DEF x
    <3> QED BY <1>3, <1>4, <2>1, <2>2
  <2> QED BY <1>2, <1>7, <2>2 DEF RUN_ARTIFACTS_DESTROYED, Fold
<1>8. CASE PERMIT_ISSUED(t)
  <2> DEFINE x == [tx[t] EXCEPT !.state = "PERMITTED", !.permit = "ISSUED"]
  <2>1. x.state \in OpenStates
    BY <1>1 DEF Transition, OpenStates
  <2>2. CASE Update(t, x) /\ tx[t].state = "EVIDENCED" /\ UNCHANGED <<head, receipts, archived>> /\ UNCHANGED pending
    <3> HIDE DEF x
    <3> QED BY <1>3, <1>4, <2>1, <2>2 DEF OpenStates
  <2> QED BY <1>2, <1>8, <2>2 DEF PERMIT_ISSUED, Fold
<1>9. ASSUME NEW scope, RUNTIME_TEARDOWN_RECORDED(t, scope)
      PROVE  Turned(sealing)
  <2> DEFINE x == [tx[t] EXCEPT !.teardown = @ \cup {scope}]
  <2>1. x.state = tx[t].state /\ x.base = tx[t].base /\ x.next = tx[t].next /\ x.artifact = tx[t].artifact
    BY <1>1 DEF Transition
  <2>2. CASE Update(t, x) /\ UNCHANGED <<head, receipts, archived>> /\ UNCHANGED pending
    <3> HIDE DEF x
    <3> QED BY <1>3, <1>4, <2>1, <2>2
  <2> QED BY <1>2, <1>9, <2>2 DEF RUNTIME_TEARDOWN_RECORDED, Fold
<1>10. ASSUME sealing, NEW artifact, NEW clean, PROPOSAL_SEALED(t, artifact, clean)
      PROVE  Turned(sealing)
  <2> DEFINE x == [tx[t] EXCEPT !.state = "SEALED", !.artifact = artifact, !.clean = clean]
  <2>1. x.state \in OpenStates
    BY <1>1 DEF Transition, OpenStates
  <2>2. CASE Update(t, x) /\ tx[t].state = "PREPARED" /\ UNCHANGED <<head, receipts, archived>> /\ pending' = Without("seal", t)
    <3> HIDE DEF x
    <3> QED BY <1>3, <1>4, <1>10, <2>1, <2>2 DEF OpenStates
  <2> QED BY <1>2, <1>10, <2>2 DEF PROPOSAL_SEALED, Fold
<1>11. ASSUME NEW passed, EVIDENCE_RECORDED(t, passed)
      PROVE  Turned(sealing)
  <2> DEFINE x == [tx[t] EXCEPT !.state = "EVIDENCED", !.passed = passed]
  <2>1. x.state \in OpenStates
    BY <1>1 DEF Transition, OpenStates
  <2>2. CASE Update(t, x) /\ tx[t].state = "SEALED" /\ UNCHANGED <<head, receipts, archived>> /\ UNCHANGED pending
    <3> HIDE DEF x
    <3> QED BY <1>3, <1>4, <2>1, <2>2 DEF OpenStates
  <2> QED BY <1>2, <1>11, <2>2 DEF EVIDENCE_RECORDED, Fold
<1> QED BY <1>5, <1>6, <1>7, <1>8, <1>9, <1>10, <1>11 DEF Opening

LEMMA OpenChains ==
    ASSUME LogInv, ChainFits, NEW t \in Txn, Opening(t, TRUE)
    PROVE  ChainFits'
BY OpeningTurns, ChainUnmoved DEF Turned, ChainFits, RegenerationsFit

\* An intent, fitting if it is to regenerate the platform part.
LEMMA ChainIntended ==
    ASSUME ChainFits, NEW intent, INTENT_PREPARED(intent),
           intent.kind = "platform" =>
             intent.base \in View /\ \E p \in Platform : intent.view = Configured(intent.base, p)
    PROVE  ChainFits'
BY ChainUnmoved DEF Unmoved, ChainFits, RegenerationsFit, INTENT_PREPARED

\* The record of the only live transition changes.
LEMMA OnlyLive ==
    ASSUME LogInv, OneLive, NEW t \in Txn, NEW x, Update(t, x), Live(t) \/ \A u \in Txn : ~Live(u)
    PROVE  /\ tx'[t] = x /\ \A u \in Txn \ {t} : tx'[u] = tx[u] /\ ~Live(u) /\ ~Live(u)'
           /\ OneLive'
<1>1. tx'[t] = x /\ \A u \in Txn \ {t} : tx'[u] = tx[u]
  BY DEF Update, LogInv, LogTypeOK
<1>2. \A u \in Txn \ {t} : ~Live(u)
  BY DEF OneLive
<1>3. \A u \in Txn \ {t} : ~Live(u)'
  BY <1>1, <1>2 DEF Live
<1> QED BY <1>1, <1>2, <1>3 DEF OneLive

\* ... without a decision.
LEMMA ChainStepped ==
    ASSUME LogInv, ChainFits, NEW t \in Txn, NEW x, Update(t, x), UNCHANGED <<receipts, pending>>,
           Live(t) \/ \A u \in Txn : ~Live(u),
           x.state \in CrossingStates => Leads(LastView, x.base),
           x.state = "APPLIED" => Leads(x.next, head'),
           x.state \notin {"APPLIED", "REPAIRED"} => Leads(LastView, head')
    PROVE  ChainFits'
<1>1. /\ tx'[t] = x /\ \A u \in Txn \ {t} : tx'[u] = tx[u] /\ ~Live(u) /\ ~Live(u)'
      /\ OneLive'
  BY OnlyLive DEF ChainFits
<1>2. LastView' = LastView
  BY DEF LastView
<1>3. SerialHistory' /\ RegenerationsFit'
  BY DEF ChainFits, SerialHistory, Leads, RegenerationsFit
<1>4. \A u \in Txn : Crossing(u)' => Leads(LastView', tx'[u].base)
  BY <1>1, <1>2 DEF Crossing, Live
<1>5. \A u \in Txn : tx'[u].state = "APPLIED" => Leads(tx'[u].next, head')
  BY <1>1 DEF Live, CrossingStates
<1>6. (\A u \in Txn : tx'[u].state \notin {"APPLIED", "REPAIRED"}) => Leads(LastView', head')
  BY <1>1, <1>2
<1> QED BY <1>1, <1>3, <1>4, <1>5, <1>6 DEF ChainFits, ViewsFit, Leads, Regenerated

\* ... with one.
LEMMA ChainDecided ==
    ASSUME LogInv, ChainFits, NEW t \in Txn, NEW x, Update(t, x), UNCHANGED pending,
           NEW rcpt \in Receipt, receipts' = Append(receipts, rcpt),
           Live(t), x.state \in Terminal,
           Leads(LastView, rcpt.prior), Leads(rcpt.view, head')
    PROVE  ChainFits'
<1>1. /\ tx'[t] = x /\ \A u \in Txn \ {t} : tx'[u] = tx[u] /\ ~Live(u) /\ ~Live(u)'
      /\ OneLive'
  BY OnlyLive DEF ChainFits
<1>2. SerialHistory' /\ LastView' = rcpt.view
  BY ChainAppended DEF ChainFits
<1>3. RegenerationsFit'
  BY DEF ChainFits, RegenerationsFit
<1>4. \A u \in Txn : ~Crossing(u)' /\ tx'[u].state # "APPLIED"
  BY <1>1 DEF Crossing, Live, CrossingStates, Terminal
<1> QED BY <1>1, <1>2, <1>3, <1>4 DEF ChainFits, ViewsFit, Leads, Regenerated

\* The chain before anything has crossed.
LEMMA Standing ==
    ASSUME ChainFits, \A u \in Txn : ~Crossing(u)
    PROVE  Leads(LastView, head)
BY DEF ChainFits, ViewsFit, Crossing, CrossingStates

LEMMA PreparedChains ==
    ASSUME LogInv, ChainFits, NEW t \in Txn, TRANSITION_PREPARED(t), \A u \in Txn : ~Live(u)
    PROVE  ChainFits'
<1> DEFINE x == [Unprepared EXCEPT !.state = "PREPARED", !.base = head]
<1>1. x.state = "PREPARED"
  BY DEF Unprepared
<1>2. Leads(LastView, head)
  BY Standing DEF Live, Crossing
<1>3. CASE Update(t, x) /\ UNCHANGED <<head, receipts, pending>>
  <2> HIDE DEF x
  <2> QED BY <1>1, <1>2, <1>3, ChainStepped DEF CrossingStates
<1> QED BY <1>3, ChainProjected DEF TRANSITION_PREPARED, Fold

\* The permit is used on the View it was issued for.
LEMMA ConsumingChains ==
    ASSUME LogInv, ChainFits, NEW t \in Txn, NEW next, PERMIT_CONSUMING(t, next), tx[t].base = head
    PROVE  ChainFits'
<1> DEFINE x == [tx[t] EXCEPT !.state = "CONSUMING", !.permit = "CONSUMING", !.next = next]
<1>1. tx[t] \in Transition /\ PermitFits(tx[t])
  BY RecordAt
<1>2. x.state = "CONSUMING" /\ x.base = head
  BY <1>1 DEF Transition
<1>3. CASE tx[t].permit = "ISSUED" /\ Update(t, x) /\ UNCHANGED <<head, receipts, pending>>
  <2>1. tx[t].state = "PERMITTED" /\ Live(t)
    BY <1>1, <1>3 DEF PermitFits, Live, OpenStates
  <2>2. \A u \in Txn : ~Crossing(u)
    BY <2>1 DEF ChainFits, OneLive, Live, Crossing, CrossingStates
  <2>3. Leads(LastView, head)
    BY <2>2, Standing
  <2> HIDE DEF x
  <2> QED BY <1>2, <1>3, <2>1, <2>3, ChainStepped DEF CrossingStates
<1> QED BY <1>3, ChainProjected DEF PERMIT_CONSUMING, Fold

LEMMA AppliedChains ==
    ASSUME LogInv, ChainFits, NEW t \in Txn, WORKSPACE_APPLIED(t)
    PROVE  ChainFits'
<1> DEFINE x == [tx[t] EXCEPT !.state = "APPLIED"]
<1>1. tx[t] \in Transition
  BY RecordAt
<1>2. x.state = "APPLIED" /\ x.base = tx[t].base /\ x.next = tx[t].next
  BY <1>1 DEF Transition
<1>3. CASE /\ tx[t].state \in {"CONSUMING", "REPAIRED"} /\ Update(t, x) /\ head' = tx[t].next
           /\ UNCHANGED <<receipts, pending>>
  <2>1. Live(t) /\ Leads(LastView, tx[t].base)
    BY <1>3 DEF ChainFits, ViewsFit, Live, Crossing, CrossingStates
  <2>2. Leads(tx[t].next, head')
    BY <1>3 DEF Leads
  <2> HIDE DEF x
  <2> QED BY <1>2, <1>3, <2>1, <2>2, ChainStepped
<1> QED BY <1>3, ChainProjected DEF WORKSPACE_APPLIED, Fold

LEMMA RepairedChains ==
    ASSUME LogInv, ChainFits, NEW t \in Txn, REPAIR_APPLIED(t), Crossing(t)
    PROVE  ChainFits'
<1> DEFINE x == [tx[t] EXCEPT !.state = "REPAIRED"]
<1>1. tx[t] \in Transition
  BY RecordAt
<1>2. x.state = "REPAIRED" /\ x.base = tx[t].base
  BY <1>1 DEF Transition
<1>3. CASE Update(t, x) /\ UNCHANGED <<receipts, pending>>
  <2>1. Live(t) /\ Leads(LastView, tx[t].base)
    BY DEF ChainFits, ViewsFit, Live, Crossing
  <2> HIDE DEF x
  <2> QED BY <1>2, <1>3, <2>1, ChainStepped
<1> QED BY <1>3, ChainProjected DEF REPAIR_APPLIED, Fold

LEMMA AcknowledgedChains ==
    ASSUME LogInv, ChainFits, NEW t \in Txn, TRANSITION_ACKNOWLEDGED(t)
    PROVE  ChainFits'
<1> DEFINE x == [tx[t] EXCEPT !.state = "ACKNOWLEDGED", !.permit = IF @ = "NONE" THEN @ ELSE "CONSUMED"]
           rcpt == [txn |-> t, decision |-> "COMMITTED", view |-> tx[t].next, prior |-> tx[t].base]
<1>1. tx[t] \in Transition /\ FactsFit(t, tx[t])
  BY RecordAt
<1>2. x.state = "ACKNOWLEDGED"
  BY <1>1 DEF Transition
<1>3. CASE /\ tx[t].state = "APPLIED" /\ Update(t, x) /\ receipts' = Append(receipts, rcpt)
           /\ UNCHANGED <<head, pending>>
  <2>1. Live(t) /\ Leads(LastView, tx[t].base) /\ Leads(tx[t].next, head)
    BY <1>3 DEF ChainFits, ViewsFit, Live, Crossing, CrossingStates
  <2>2. rcpt \in Receipt
    BY <1>1, <1>3 DEF FactsFit, Bound, CrossingStates, Receipt
  <2>3. rcpt.prior = tx[t].base /\ rcpt.view = tx[t].next
    OBVIOUS
  <2> HIDE DEF x, rcpt
  <2> QED BY <1>2, <1>3, <2>1, <2>2, <2>3, ChainDecided DEF Terminal
<1> QED BY <1>3, ChainProjected DEF TRANSITION_ACKNOWLEDGED, Fold

\* A refusal is of what is open, or puts back what has crossed.
LEMMA DispositionedChains ==
    ASSUME LogInv, ChainFits, NEW t \in Txn, NEW decision \in NonCommits, NEW restored \in BOOLEAN,
           NON_COMMIT_DISPOSITIONED(t, decision, restored),
           tx[t].state \in (IF restored THEN CrossingStates ELSE OpenStates)
    PROVE  ChainFits'
<1> DEFINE authority == DispositionBase(t, restored)
           view == [authority EXCEPT !.epoch = @ + 1]
           x == [tx[t] EXCEPT !.state = "ROLLED_BACK", !.permit = IF @ = "NONE" THEN @ ELSE "REVOKED"]
           rcpt == [txn |-> t, decision |-> decision, view |-> view, prior |-> authority]
<1>1. tx[t] \in Transition /\ FactsFit(t, tx[t])
  BY RecordAt
<1>2. x.state = "ROLLED_BACK"
  BY <1>1 DEF Transition
<1>3. Live(t)
  BY DEF Live
<1>4. Leads(LastView, authority)
  <2>1. CASE restored
    BY <2>1 DEF DispositionBase, ChainFits, ViewsFit, Crossing
  <2>2. CASE ~restored
    <3>1. \A u \in Txn : ~Crossing(u)
      BY <1>3, <2>2 DEF ChainFits, OneLive, Live, Crossing, OpenStates, CrossingStates
    <3> QED BY <2>2, <3>1, Standing DEF DispositionBase
  <2> QED BY <2>1, <2>2
<1>5. authority \in View
  BY <1>1 DEF DispositionBase, LogInv, LogTypeOK, FactsFit, CrossingStates
<1>6. view \in View
  BY <1>5 DEF View
<1>7. rcpt \in Receipt /\ rcpt.prior = authority /\ rcpt.view = view
  BY <1>5, <1>6 DEF Receipt
<1>8. CASE Update(t, x) /\ receipts' = Append(receipts, rcpt) /\ head' = view /\ UNCHANGED pending
  <2>1. Leads(view, head')
    BY <1>8 DEF Leads
  <2> HIDE DEF x, rcpt, view, authority
  <2> QED BY <1>2, <1>3, <1>4, <1>7, <1>8, <2>1, ChainDecided DEF Terminal
<1> QED BY <1>8, ChainProjected DEF NON_COMMIT_DISPOSITIONED, Fold

\* The platform part is regenerated on the View it was prepared for.
LEMMA RegeneratedChains ==
    ASSUME LogInv, ChainFits, NEW intent \in pending, intent.kind = "platform", head = intent.base,
           PLATFORM_STATE_REGENERATED(intent.view)
    PROVE  ChainFits'
<1>1. PICK p \in Platform : head' = Configured(head, p)
  BY DEF PLATFORM_STATE_REGENERATED, ChainFits, RegenerationsFit
<1>2. head \in View /\ LastView \in View
  BY LastViewTyped DEF LogInv, LogTypeOK
<1>3. Leads(LastView, head) => Leads(LastView, head')
  BY <1>1, <1>2, LeadsOn
<1>4. ASSUME NEW u \in Txn, tx[u].state = "APPLIED" PROVE Leads(tx[u].next, head')
  <2>1. tx[u].next \in View
    BY <1>4, RecordAt DEF FactsFit, Bound, CrossingStates
  <2>2. Leads(tx[u].next, head)
    BY <1>4 DEF ChainFits, ViewsFit
  <2> QED BY <1>1, <1>2, <2>1, <2>2, LeadsOn
<1>5. UNCHANGED <<tx, receipts>> /\ pending' \subseteq pending
  BY DEF PLATFORM_STATE_REGENERATED, Without
<1>6. LastView' = LastView
  BY <1>5 DEF LastView
<1>7. OneLive' /\ RegenerationsFit' /\ SerialHistory'
  BY <1>5 DEF ChainFits, OneLive, Live, RegenerationsFit, SerialHistory, Leads
<1> QED BY <1>3, <1>4, <1>5, <1>6, <1>7 DEF ChainFits, ViewsFit, Leads, Regenerated, Crossing

----------------------------------------------------------------------------
(* What the operations have still to do. *)

\* What a plan that begins with this step and has these still to come asks of
\* the state of its transition.
Deciding(kind, first, rejecting, restoring, state) ==
    /\ kind = "apply" /\ first \in ApplySteps => state \in CrossingStates
    /\ kind = "undo" => state \in CrossingStates
    /\ kind = "conflict" /\ first = "reject" => state \in OpenStates
    /\ kind = "dispose" => state \in OpenStates
    /\ kind = "repaired" /\ first \in {"remove", "logDestroyed", "restore"} => state \in CrossingStates
    /\ kind = "recover" /\ rejecting => state \in OpenStates
    /\ kind = "recover" /\ restoring => state \in CrossingStates
    /\ kind = "recover" /\ first \in {"apply", "snapshot", "ack"} => ~rejecting /\ ~restoring

LEMMA DecidingNow ==
    ASSUME op.plan # <<>>, DecidingFits
    PROVE  Deciding(op.kind, Head(op.plan), Some({"reject"}), Some({"restore"}), tx[op.txn].state)
BY DEF DecidingFits, Deciding, First

LEMMA DecidingNext ==
    ASSUME op'.plan # <<>>,
           Deciding(op'.kind, Head(op'.plan), \E i \in 1..Len(op'.plan) : op'.plan[i] = "reject",
                    \E i \in 1..Len(op'.plan) : op'.plan[i] = "restore", tx'[op'.txn].state)
    PROVE  DecidingFits'
BY DEF DecidingFits, Deciding, First, Some

LEMMA DecidingIdle ==
    ASSUME op' = Idle
    PROVE  DecidingFits' /\ AdmittingFits'
BY DEF DecidingFits, AdmittingFits, First, Some, Idle

LEMMA DecidingAdvanced ==
    ASSUME NEW kind, NEW a \in Steps, NEW b \in Steps, NEW r1 \in BOOLEAN, NEW r2 \in BOOLEAN,
           NEW s1 \in BOOLEAN, NEW s2 \in BOOLEAN, NEW from, NEW to,
           Deciding(kind, a, r1, r2, from), Follows(kind, a, b), StateAfter(a, from, to),
           b # "end", s1 => r1, s2 => r2, b = "examine" => ~s1 /\ ~s2, a = "reject" => r1, a = "restore" => r2
    PROVE  Deciding(kind, b, s1, s2, to)
<1> USE DEF Deciding, Follows, StateAfter, ApplySteps
<1>1. kind = "apply" /\ b \in ApplySteps => to \in CrossingStates
  BY DEF CrossingStates
<1>2. kind = "undo" => to \in CrossingStates
  OBVIOUS
<1>3. kind = "conflict" /\ b = "reject" => to \in OpenStates
  OBVIOUS
<1>4. kind = "dispose" => to \in OpenStates
  OBVIOUS
<1>5. kind = "repaired" /\ b \in {"remove", "logDestroyed", "restore"} => to \in CrossingStates
  OBVIOUS
<1>6. kind = "recover" /\ s1 => to \in OpenStates
  OBVIOUS
<1>7. kind = "recover" /\ s2 => to \in CrossingStates
  OBVIOUS
<1>8. kind = "recover" /\ b \in {"apply", "snapshot", "ack"} => ~s1 /\ ~s2
  OBVIOUS
<1> QED BY <1>1, <1>2, <1>3, <1>4, <1>5, <1>6, <1>7, <1>8

\* A state whose log can be folded, and the next, with what is known of both.
Charting ==
    /\ Inductive /\ Inductive' /\ OrderFits /\ OrderFits'
    /\ ChainFits /\ DecidingFits /\ AdmittingFits /\ ~corrupt

LEMMA DecidingOn ==
    ASSUME Charting, op.plan # <<>>, Advanced,
           StateAfter(Head(op.plan), tx[op.txn].state, tx'[op.txn].state)
    PROVE  DecidingFits'
<1>0. ControlTypeOK /\ ControlTypeOK' /\ OrderFits /\ OrderFits' /\ DecidingFits
  BY DEF Charting, Inductive
<1>1. CASE op' = Idle
  BY <1>1, DecidingIdle
<1>2. CASE /\ op'.kind = op.kind /\ op'.txn = op.txn /\ op'.plan # <<>>
           /\ Follows(op.kind, Head(op.plan), Head(op'.plan))
  <2> DEFINE s1 == \E i \in 1..Len(op'.plan) : op'.plan[i] = "reject"
             s2 == \E i \in 1..Len(op'.plan) : op'.plan[i] = "restore"
             b == Head(op'.plan)
  <2>1. Deciding(op.kind, Head(op.plan), Some({"reject"}), Some({"restore"}), tx[op.txn].state)
    BY <1>0, DecidingNow
  <2>2. "reject" \in Steps /\ "restore" \in Steps
    BY DEF Steps
  <2>3. s1 => Some({"reject"})
    BY <1>0, <2>2, AdvancedSome DEF Some
  <2>4. s2 => Some({"restore"})
    BY <1>0, <2>2, AdvancedSome DEF Some
  <2>5. b = "examine" => ~s1 /\ ~s2
    <3> HAVE b = "examine"
    <3>1. Len(op'.plan) = 1 /\ op'.plan[1] = "examine"
      BY <1>0, <1>2, LastStep
    <3> QED BY <3>1
  <2>6. /\ Head(op.plan) = "reject" => Some({"reject"})
        /\ Head(op.plan) = "restore" => Some({"restore"})
    <3>1. 1 \in 1..Len(op.plan) /\ Head(op.plan) = op.plan[1]
      BY <1>0, PlanLength
    <3> QED BY <3>1 DEF Some
  <2>7. Head(op.plan) \in Steps /\ b \in Steps /\ b # "end"
    <3>1. op'.plan \in Seq(Steps)
      BY <1>0 DEF ControlTypeOK, Operation
    <3>2. "end" \notin Steps
      BY DEF Steps, ApplySteps
    <3> QED BY <1>0, <1>2, <3>1, <3>2, PlanLength, HeadTailProperties
  <2>8. Some({"reject"}) \in BOOLEAN /\ Some({"restore"}) \in BOOLEAN
    BY DEF Some
  <2> HIDE DEF b
  <2>9. Deciding(op.kind, b, s1, s2, tx'[op.txn].state)
    <3>1. s1 \in BOOLEAN /\ s2 \in BOOLEAN
      OBVIOUS
    <3> HIDE DEF s1, s2
    <3> QED BY <1>2, <2>1, <2>3, <2>4, <2>5, <2>6, <2>7, <2>8, <3>1, DecidingAdvanced DEF b
  <2> QED BY <1>2, <2>9, DecidingNext DEF b
<1> QED BY <1>0, <1>1, <1>2, AdvancedTo

\* What is known of the transition a step is about.
LEMMA Confronted ==
    ASSUME Charting, NEW s \in Steps \ TxnFreeSteps, At(s)
    PROVE  /\ op.plan # <<>> /\ Head(op.plan) = s /\ op.txn \in Txn /\ LogInv /\ ChainFits
           /\ tx[op.txn] \in Transition
           /\ Follows(op.kind, s, Second)
           /\ Deciding(op.kind, s, Some({"reject"}), Some({"restore"}), tx[op.txn].state)
           /\ s = "reject" => Some({"reject"})
           /\ s = "restore" => Some({"restore"})
<1>1. ControlTypeOK /\ PlanFits /\ op.plan # <<>> /\ Head(op.plan) = s /\ LogInv
  BY DEF At, Charting, Inductive
<1>2. op.txn \in Txn
  BY <1>1, FirstStep
<1>3. tx[op.txn] \in Transition
  BY <1>1, <1>2, RecordAt
<1>4. Follows(op.kind, s, Second)
  BY <1>1, Succession DEF Charting
<1>5. Deciding(op.kind, s, Some({"reject"}), Some({"restore"}), tx[op.txn].state)
  BY <1>1, DecidingNow DEF Charting
<1>6. 1 \in 1..Len(op.plan) /\ op.plan[1] = s
  BY <1>1, PlanLength
<1> QED BY <1>1, <1>2, <1>3, <1>4, <1>5, <1>6 DEF Some, Charting

\* The step is taken, or the handler throws.
LEMMA WentOnDecides ==
    ASSUME Charting, op.plan # <<>>,
           \/ op' = Idle
           \/ Continue /\ StateAfter(Head(op.plan), tx[op.txn].state, tx'[op.txn].state),
           op.kind = "prepareRun" => op' = Idle \/ UNCHANGED tx
    PROVE  DecidingFits' /\ AdmittingFits'
<1>1. CASE op' = Idle
  BY <1>1, DecidingIdle
<1>2. CASE /\ Continue /\ StateAfter(Head(op.plan), tx[op.txn].state, tx'[op.txn].state)
           /\ (op.kind = "prepareRun" => UNCHANGED tx)
  <2>1. Advanced
    BY <1>2, Advances DEF Charting, Inductive
  <2>2. DecidingFits'
    BY <1>2, <2>1, DecidingOn
  <2>3. AdmittingFits'
    BY <1>2, <2>1 DEF Advanced, Idle, Charting, AdmittingFits, Live
  <2> QED BY <2>2, <2>3
<1> QED BY <1>1, <1>2

LEMMA DiskDecides ==
    ASSUME Charting, op.plan # <<>>, UNCHANGED tx,
           Continue \/ op' = Idle \/ op' = op,
           Head(op.plan) \notin {"prepare", "authorize", "apply", "ack", "reject", "restore"}
    PROVE  DecidingFits' /\ AdmittingFits'
<1>1. op' = op => DecidingFits' /\ AdmittingFits'
  BY DEF Charting, DecidingFits, AdmittingFits, First, Some, Live
<1> QED BY <1>1, WentOnDecides DEF StateAfter

\* Another plan, of no recovery.
LEMMA PlannedDecides ==
    ASSUME Charting, op'.plan # <<>>, op'.kind \notin {"recover", "prepareRun"},
           Deciding(op'.kind, Head(op'.plan), FALSE, FALSE, tx'[op'.txn].state)
    PROVE  DecidingFits' /\ AdmittingFits'
<1>1. ASSUME NEW r, NEW s PROVE Deciding(op'.kind, Head(op'.plan), r, s, tx'[op'.txn].state)
  BY DEF Deciding
<1> QED BY <1>1, DecidingNext DEF AdmittingFits

LEMMA UndoDecides ==
    ASSUME Charting, Undo, UNCHANGED tx, op.kind = "apply", op.plan # <<>>, Head(op.plan) \in ApplySteps
    PROVE  DecidingFits' /\ AdmittingFits'
<1>1. op'.kind = "undo" /\ op'.txn = op.txn
      /\ op'.plan = <<"evict", "reinstate", "remove", "logDestroyed", "restore">>
  BY DEF Undo, Charting, Inductive, ControlTypeOK, Operation
<1>2. tx[op.txn].state \in CrossingStates
  BY DEF Charting, DecidingFits, First
<1>3. Deciding("undo", "evict", FALSE, FALSE, tx'[op'.txn].state)
  BY <1>1, <1>2 DEF Deciding
<1> QED BY <1>1, <1>3, PlannedDecides

LEMMA FailDecides ==
    ASSUME Charting, op.plan # <<>>, NEW reason, Fail(reason), UNCHANGED tx
    PROVE  DecidingFits' /\ AdmittingFits'
<1>1. CASE op' = Idle
  BY <1>1, WentOnDecides
<1> QED BY <1>1, UndoDecides DEF Fail, Throw

----------------------------------------------------------------------------
(* Steps. *)

\* A step that appends no event, but perhaps an intent.
LEMMA QuietStepCharts ==
    ASSUME Charting,
           \/ CloneStep \/ ImportProposalStep \/ LogSealStep \/ BackupStep \/ LogBackupStep \/ SwapStep
           \/ SnapshotStep \/ DropBackupStep \/ RemoveStep \/ EvictStep \/ ReinstateStep \/ SettleStep
    PROVE  HistoryFits'
<1>1. CloneStep => UNCHANGED projected /\ DecidingFits' /\ AdmittingFits'
  BY DiskDecides DEF CloneStep, At, Go, Throw, logVars, projected
<1>2. ImportProposalStep => UNCHANGED projected /\ DecidingFits' /\ AdmittingFits'
  BY DiskDecides DEF ImportProposalStep, At, Go, Await, Throw, logVars, projected
<1>12. LogSealStep => ChainFits' /\ DecidingFits' /\ AdmittingFits'
  <2> HAVE LogSealStep
  <2>1. DecidingFits' /\ AdmittingFits'
    BY DiskDecides DEF LogSealStep, INTENT_PREPARED, At, Go
  <2>2. PICK intent : INTENT_PREPARED(intent) /\ intent.kind = "seal"
    BY DEF LogSealStep
  <2> QED BY <2>1, <2>2, ChainIntended DEF Charting
<1>3. BackupStep => UNCHANGED projected /\ DecidingFits' /\ AdmittingFits'
  <2> HAVE BackupStep
  <2>1. op.plan # <<>> /\ Head(op.plan) = "backup" /\ UNCHANGED projected /\ (Go \/ Fail("IO"))
    BY DEF BackupStep, At, logVars, projected
  <2> QED BY <2>1, DiskDecides, FailDecides DEF Go, projected
<1>4. LogBackupStep => UNCHANGED projected /\ DecidingFits' /\ AdmittingFits'
  BY DiskDecides DEF LogBackupStep, BACKUP_CREATED, Fold, At, Go, projected
<1>5. SwapStep => UNCHANGED projected /\ DecidingFits' /\ AdmittingFits'
  BY DiskDecides DEF SwapStep, At, Go, logVars, projected
<1>6. SnapshotStep => UNCHANGED projected /\ DecidingFits' /\ AdmittingFits'
  <2> HAVE SnapshotStep
  <2>1. op.plan # <<>> /\ Head(op.plan) = "snapshot" /\ UNCHANGED projected /\ (Go \/ Fail("IO"))
    BY DEF SnapshotStep, At, logVars, projected
  <2> QED BY <2>1, DiskDecides, FailDecides DEF Go, projected
<1>7. DropBackupStep => UNCHANGED projected /\ DecidingFits' /\ AdmittingFits'
  BY DiskDecides DEF DropBackupStep, At, Go, logVars, projected
<1>8. RemoveStep => UNCHANGED projected /\ DecidingFits' /\ AdmittingFits'
  BY DiskDecides DEF RemoveStep, At, Go, Await, Throw, logVars, projected
<1>9. EvictStep => UNCHANGED projected /\ DecidingFits' /\ AdmittingFits'
  BY DiskDecides DEF EvictStep, At, Go, Throw, logVars, projected
<1>10. ReinstateStep => UNCHANGED projected /\ DecidingFits' /\ AdmittingFits'
  BY DiskDecides DEF ReinstateStep, At, Go, Throw, logVars, projected
<1>11. SettleStep => UNCHANGED projected /\ DecidingFits' /\ AdmittingFits'
  BY DiskDecides DEF SettleStep, At, Throw, logVars, projected
<1> QED BY <1>1, <1>2, <1>3, <1>4, <1>5, <1>6, <1>7, <1>8, <1>9, <1>10, <1>11, <1>12, ChainProjected
        DEF HistoryFits, Charting

\* A run is admitted while nothing is open.
LEMMA PrepareStepCharts ==
    ASSUME Charting, PrepareStep
    PROVE  HistoryFits'
<1>1. At("prepare") /\ "prepare" \in Steps \ TxnFreeSteps
  BY DEF PrepareStep, Steps, TxnFreeSteps
<1>2. op.plan # <<>> /\ op.txn \in Txn /\ LogInv /\ ChainFits /\ op.kind = "prepareRun" /\ Second = "end"
  BY <1>1, Confronted DEF Follows
<1>3. \A u \in Txn : ~Live(u)
  BY <1>2 DEF Charting, AdmittingFits
<1>4. ChainFits'
  BY <1>2, <1>3, PreparedChains DEF PrepareStep
<1>5. "end" \notin Steps
  BY DEF Steps, ApplySteps
<1>6. Advanced
  BY <1>2, Advances DEF PrepareStep, Go, Charting, Inductive
<1>7. op' = Idle
  BY <1>2, <1>5, <1>6 DEF Advanced
<1> QED BY <1>4, <1>7, DecidingIdle DEF HistoryFits

LEMMA AuthorizeStepCharts ==
    ASSUME Charting, AuthorizeStep
    PROVE  HistoryFits'
<1> DEFINE t == op.txn
<1>1. At("authorize") /\ "authorize" \in Steps \ TxnFreeSteps
  BY DEF AuthorizeStep, Steps, TxnFreeSteps
<1>2. /\ op.plan # <<>> /\ Head(op.plan) = "authorize" /\ t \in Txn /\ LogInv /\ ChainFits
      /\ tx[t] \in Transition /\ op.kind = "rollback"
  BY <1>1, Confronted DEF Follows
<1>3. Continue => DecidingFits' /\ AdmittingFits'
  BY <1>2, WentOnDecides DEF StateAfter
<1>4. CASE PROPOSAL_SEALED(t, op.tree, TRUE) /\ Continue
  BY <1>2, <1>3, <1>4, OpenChains DEF HistoryFits, Opening
<1>5. CASE EVIDENCE_RECORDED(t, TRUE) /\ Continue
  BY <1>2, <1>3, <1>5, OpenChains DEF HistoryFits, Opening
<1>6. CASE PERMIT_ISSUED(t) /\ Continue
  BY <1>2, <1>3, <1>6, OpenChains DEF HistoryFits, Opening
<1>7. CASE PERMIT_CONSUMING(t, NextView(t, op.tree, 1)) /\ Run("apply", t, SwapAndAcknowledge, None, None)
  <2> DEFINE x == [tx[t] EXCEPT !.state = "CONSUMING", !.permit = "CONSUMING",
                                !.next = NextView(t, op.tree, 1)]
  <2>1. tx[t].base = head
    BY <1>1, <1>2, FirstStep DEF Charting, Inductive, Authorizing
  <2>2. ChainFits'
    BY <1>2, <1>7, <2>1, ConsumingChains
  <2>3. x.state = "CONSUMING"
    BY <1>2 DEF Transition
  <2>4. ~corrupt' => tx'[t].state = "CONSUMING"
    <3>1. ~corrupt' => Update(t, x)
      BY <1>7 DEF PERMIT_CONSUMING, Fold
    <3> HIDE DEF x
    <3> QED BY <1>2, <2>3, <3>1 DEF Update, LogInv, LogTypeOK
  <2>5. op'.kind = "apply" /\ op'.txn = t /\ op'.plan = Swap
    BY <1>7, SwapWritten DEF Run
  <2>6. op'.plan # <<>> /\ Head(op'.plan) = "backup"
    BY <2>5 DEF Swap
  <2>7. ~corrupt' => Deciding("apply", "backup", FALSE, FALSE, tx'[t].state)
    BY <2>4 DEF Deciding, CrossingStates
  <2> QED BY <2>2, <2>5, <2>6, <2>7, PlannedDecides DEF HistoryFits
<1> QED BY <1>4, <1>5, <1>6, <1>7 DEF AuthorizeStep

LEMMA ApplyStepCharts ==
    ASSUME Charting, ApplyStep
    PROVE  HistoryFits'
<1> DEFINE t == op.txn
           x == [tx[t] EXCEPT !.state = "APPLIED"]
<1>1. At("apply") /\ "apply" \in Steps \ TxnFreeSteps
  BY DEF ApplyStep, Steps, ApplySteps, TxnFreeSteps
<1>2. /\ op.plan # <<>> /\ Head(op.plan) = "apply" /\ t \in Txn /\ LogInv /\ ChainFits
      /\ tx[t] \in Transition /\ op.kind # "prepareRun"
  BY <1>1, Confronted DEF Follows
<1>3. ChainFits'
  BY <1>2, AppliedChains DEF ApplyStep
<1>4. x.state = "APPLIED"
  BY <1>2 DEF Transition
<1>5. ~corrupt' => tx'[t].state = "APPLIED"
  <2>1. ~corrupt' => Update(t, x)
    BY DEF ApplyStep, WORKSPACE_APPLIED, Fold
  <2> HIDE DEF x
  <2> QED BY <1>2, <1>4, <2>1 DEF Update, LogInv, LogTypeOK
<1>6. ~corrupt' => StateAfter(Head(op.plan), tx[t].state, tx'[t].state)
  BY <1>2, <1>5 DEF StateAfter
<1> QED BY <1>2, <1>3, <1>6, WentOnDecides DEF HistoryFits, ApplyStep, Go

LEMMA AckStepCharts ==
    ASSUME Charting, AckStep
    PROVE  HistoryFits'
<1> DEFINE t == op.txn
           x == [tx[t] EXCEPT !.state = "ACKNOWLEDGED",
                              !.permit = IF @ = "NONE" THEN @ ELSE "CONSUMED"]
<1>1. At("ack") /\ "ack" \in Steps \ TxnFreeSteps
  BY DEF AckStep, Steps, ApplySteps, TxnFreeSteps
<1>2. /\ op.plan # <<>> /\ Head(op.plan) = "ack" /\ t \in Txn /\ LogInv /\ ChainFits
      /\ tx[t] \in Transition /\ op.kind # "prepareRun"
  BY <1>1, Confronted DEF Follows
<1>3. ChainFits'
  BY <1>2, AcknowledgedChains DEF AckStep
<1>4. x.state = "ACKNOWLEDGED"
  BY <1>2 DEF Transition
<1>5. ~corrupt' => tx'[t].state = "ACKNOWLEDGED"
  <2>1. ~corrupt' => Update(t, x)
    BY DEF AckStep, TRANSITION_ACKNOWLEDGED, Fold
  <2> HIDE DEF x
  <2> QED BY <1>2, <1>4, <2>1 DEF Update, LogInv, LogTypeOK
<1>6. ~corrupt' => StateAfter(Head(op.plan), tx[t].state, tx'[t].state)
  BY <1>2, <1>5 DEF StateAfter
<1> QED BY <1>2, <1>3, <1>6, WentOnDecides DEF HistoryFits, AckStep, Go

LEMMA LogDestroyedStepCharts ==
    ASSUME Charting, LogDestroyedStep
    PROVE  HistoryFits'
<1> DEFINE t == op.txn
           x == [tx[t] EXCEPT !.destroyed = TRUE]
<1>1. At("logDestroyed") /\ "logDestroyed" \in Steps \ TxnFreeSteps
  BY DEF LogDestroyedStep, Steps, TxnFreeSteps
<1>2. /\ op.plan # <<>> /\ Head(op.plan) = "logDestroyed" /\ t \in Txn /\ LogInv /\ ChainFits
      /\ tx[t] \in Transition /\ op.kind # "prepareRun"
  BY <1>1, Confronted DEF Follows
<1>3. UNCHANGED projected \/ RUN_ARTIFACTS_DESTROYED(t)
  BY DEF LogDestroyedStep, logVars, projected
<1>4. ChainFits'
  BY <1>2, <1>3, OpenChains, ChainProjected DEF Opening
<1>5. x.state = tx[t].state
  BY <1>2 DEF Transition
<1>6. tx'[t].state = tx[t].state
  <2>1. UNCHANGED tx \/ Update(t, x)
    BY <1>3 DEF RUN_ARTIFACTS_DESTROYED, Fold, projected
  <2> HIDE DEF x
  <2> QED BY <1>2, <1>5, <2>1 DEF Update, LogInv, LogTypeOK
<1>7. StateAfter(Head(op.plan), tx[t].state, tx'[t].state)
  BY <1>2, <1>6 DEF StateAfter
<1> QED BY <1>2, <1>4, <1>7, WentOnDecides DEF HistoryFits, LogDestroyedStep, Go

\* A refusal is of what is open, a restoration of what has crossed.
LEMMA Disposing ==
    ASSUME Charting, NEW restored \in BOOLEAN, At(IF restored THEN "restore" ELSE "reject")
    PROVE  /\ op.plan # <<>> /\ op.txn \in Txn /\ LogInv /\ ChainFits /\ tx[op.txn] \in Transition
           /\ Head(op.plan) \in {"reject", "restore"}
           /\ tx[op.txn].state \in (IF restored THEN CrossingStates ELSE OpenStates)
           /\ op.kind \notin {"prepareRun", "repair"}
           /\ (IF restored THEN "ABORTED" ELSE op.decision) \in NonCommits
<1> DEFINE t == op.txn
           s == IF restored THEN "restore" ELSE "reject"
<1>1. s \in Steps \ TxnFreeSteps /\ s \in {"reject", "restore"} /\ At(s)
  BY DEF Steps, TxnFreeSteps
<1>2. /\ op.plan # <<>> /\ Head(op.plan) = s /\ t \in Txn /\ LogInv /\ ChainFits /\ tx[t] \in Transition
      /\ Follows(op.kind, s, Second)
      /\ Deciding(op.kind, s, Some({"reject"}), Some({"restore"}), tx[t].state)
      /\ s = "reject" => Some({"reject"})
      /\ s = "restore" => Some({"restore"})
  BY <1>1, Confronted
<1>3. tx[t].state \in (IF restored THEN CrossingStates ELSE OpenStates)
  <2>1. CASE s = "reject"
    <3>1. op.kind \in {"conflict", "dispose", "recover"}
      BY <1>2, <2>1 DEF Follows
    <3> QED BY <1>2, <2>1, <3>1 DEF Deciding
  <2>2. CASE s = "restore"
    <3>1. op.kind \in {"undo", "repaired", "recover"}
      BY <1>2, <2>2 DEF Follows
    <3> QED BY <1>2, <2>2, <3>1 DEF Deciding
  <2> QED BY <2>1, <2>2
<1>4. op.kind \notin {"prepareRun", "repair"}
  BY <1>1, <1>2 DEF Follows
<1>5. Head(op.plan) = "reject" => op.decision \in NonCommits
  BY <1>2, FirstStep DEF Charting, Inductive
<1> QED BY <1>1, <1>2, <1>3, <1>4, <1>5 DEF NonCommits

LEMMA DisposeStepCharts ==
    ASSUME Charting, NEW restored \in BOOLEAN, At(IF restored THEN "restore" ELSE "reject"),
           DisposeStep(restored)
    PROVE  HistoryFits'
<1> DEFINE t == op.txn
           x == [tx[t] EXCEPT !.state = "ROLLED_BACK",
                              !.permit = IF @ = "NONE" THEN @ ELSE "REVOKED"]
           decision == IF restored THEN "ABORTED" ELSE op.decision
<1>1. /\ op.plan # <<>> /\ t \in Txn /\ LogInv /\ ChainFits /\ tx[t] \in Transition
      /\ Head(op.plan) \in {"reject", "restore"}
      /\ tx[t].state \in (IF restored THEN CrossingStates ELSE OpenStates)
      /\ op.kind # "prepareRun" /\ decision \in NonCommits
  BY Disposing
<1>2. CASE Throw("RECOVERY_REQUIRED") /\ UNCHANGED logVars
  BY <1>1, <1>2, DecidingIdle, ChainProjected DEF Throw, logVars, projected, HistoryFits
<1>3. CASE NON_COMMIT_DISPOSITIONED(t, decision, restored) /\ Go
  <2>1. ChainFits'
    <3> HIDE DEF decision
    <3> QED BY <1>1, <1>3, DispositionedChains
  <2>2. x.state = "ROLLED_BACK"
    BY <1>1 DEF Transition
  <2>3. ~corrupt' => tx'[t].state = "ROLLED_BACK"
    <3>1. ~corrupt' => Update(t, x)
      BY <1>3 DEF NON_COMMIT_DISPOSITIONED, Fold
    <3> HIDE DEF x
    <3> QED BY <1>1, <2>2, <3>1 DEF Update, LogInv, LogTypeOK
  <2>4. ~corrupt' => StateAfter(Head(op.plan), tx[t].state, tx'[t].state)
    BY <1>1, <2>3 DEF StateAfter
  <2> QED BY <1>1, <1>3, <2>1, <2>4, WentOnDecides DEF HistoryFits, Go
<1> QED BY <1>2, <1>3 DEF DisposeStep

LEMMA LogRepairStepCharts ==
    ASSUME Charting, LogRepairStep
    PROVE  HistoryFits'
<1> DEFINE t == op.txn
           x == [tx[t] EXCEPT !.state = "REPAIRED"]
<1>1. At("logRepair") /\ "logRepair" \in Steps \ TxnFreeSteps
  BY DEF LogRepairStep, Steps, TxnFreeSteps
<1>2. /\ op.plan # <<>> /\ Head(op.plan) = "logRepair" /\ t \in Txn /\ LogInv /\ ChainFits
      /\ tx[t] \in Transition
  BY <1>1, Confronted
<1>3. Crossing(t)
  BY <1>2, FirstStep DEF Charting, Inductive, Crossing, CrossingStates
<1>4. ChainFits'
  BY <1>2, <1>3, RepairedChains DEF LogRepairStep
<1>5. x.state = "REPAIRED"
  BY <1>2 DEF Transition
<1>6. ~corrupt' => tx'[t].state = "REPAIRED"
  <2>1. ~corrupt' => Update(t, x)
    BY DEF LogRepairStep, REPAIR_APPLIED, Fold
  <2> HIDE DEF x
  <2> QED BY <1>2, <1>5, <2>1 DEF Update, LogInv, LogTypeOK
<1>7. /\ op'.kind = "repaired" /\ op'.txn = t /\ op'.plan # <<>>
      /\ Head(op'.plan) \in {"snapshot", "remove"}
  BY DEF LogRepairStep, Run
<1>8. ~corrupt' => Deciding("repaired", Head(op'.plan), FALSE, FALSE, tx'[t].state)
  BY <1>6, <1>7 DEF Deciding, CrossingStates
<1> QED BY <1>4, <1>7, <1>8, PlannedDecides DEF HistoryFits


\* While an intent is being finished the running operation has recorded nothing
\* about a transition that it could upset.
LEMMA AwaitDecides ==
    ASSUME Charting, At("finishIntent"), op' = op,
           \A u \in Txn : tx'[u] = tx[u] \/ (tx[u].state \in OpenStates /\ tx'[u].state \in OpenStates)
                           \/ tx'[u].state = tx[u].state
    PROVE  DecidingFits' /\ AdmittingFits'
<1>1. op.plan # <<>> /\ Head(op.plan) = "finishIntent" /\ PlanFits /\ ControlTypeOK
  BY DEF At, Charting, Inductive
<1>2. Follows(op.kind, "finishIntent", Second)
  BY <1>1, Succession DEF Charting
<1>3. op.kind \in {"seal", "export", "platform", "archive", "intents", "recover"}
  BY <1>2 DEF Follows
<1>4. Deciding(op.kind, "finishIntent", Some({"reject"}), Some({"restore"}), tx[op.txn].state)
  BY <1>1, DecidingNow DEF Charting
<1>5. op.txn \notin Txn => ~Some({"reject"}) /\ ~Some({"restore"})
  <2>1. op.txn \notin Txn => op.plan \in Seq(TxnFreeSteps)
    BY <1>1 DEF PlanFits
  <2>2. op.plan \in Seq(TxnFreeSteps) => \A i \in 1..Len(op.plan) : op.plan[i] \in TxnFreeSteps
    BY LenProperties
  <2> QED BY <2>1, <2>2 DEF Some, TxnFreeSteps
<1>6. Deciding(op.kind, "finishIntent", Some({"reject"}), Some({"restore"}), tx'[op.txn].state)
  <2>1. CASE op.txn \in Txn
    BY <1>3, <1>4, <2>1 DEF Deciding, OpenStates, CrossingStates
  <2>2. CASE op.txn \notin Txn
    BY <1>3, <1>5, <2>2 DEF Deciding
  <2> QED BY <2>1, <2>2
<1>7. DecidingFits'
  BY <1>1, <1>6, DecidingNext DEF Some
<1> QED BY <1>3, <1>7 DEF AdmittingFits

LEMMA FinishIntentStepCharts ==
    ASSUME Charting, FinishIntentStep
    PROVE  HistoryFits'
<1>1. /\ At("finishIntent") /\ op.plan # <<>> /\ Head(op.plan) = "finishIntent" /\ LogInv /\ ChainFits
      /\ pending \subseteq Intent
  BY DEF FinishIntentStep, At, Charting, Inductive, LogInv, LogTypeOK
<1>2. CASE pending = {}
  <2>1. UNCHANGED projected /\ (Go \/ Throw("RECOVERY_REQUIRED"))
    BY <1>2 DEF FinishIntentStep, logVars, projected
  <2> QED BY <1>1, <2>1, DiskDecides, ChainProjected DEF Go, Throw, projected, HistoryFits
<1>3. CASE Throw("RECOVERY_REQUIRED") /\ UNCHANGED logVars
  BY <1>1, <1>3, DecidingIdle, ChainProjected DEF Throw, logVars, projected, HistoryFits
<1>4. Await /\ UNCHANGED tx => DecidingFits' /\ AdmittingFits'
  BY <1>1, AwaitDecides DEF Await
<1>5. CASE Await /\ UNCHANGED logVars
  BY <1>1, <1>4, <1>5, ChainProjected DEF logVars, projected, HistoryFits
<1>6. ASSUME NEW t \in Txn, NEW x, UNCHANGED tx \/ Update(t, x), Await,
             x.state = tx[t].state \/ (tx[t].state \in OpenStates /\ x.state \in OpenStates)
      PROVE  DecidingFits' /\ AdmittingFits'
  <2>1. UNCHANGED tx \/ (tx'[t] = x /\ \A u \in Txn \ {t} : tx'[u] = tx[u])
    BY <1>1, <1>6 DEF Update, LogInv, LogTypeOK
  <2> QED BY <1>1, <1>6, <2>1, AwaitDecides DEF Await
<1>7. ASSUME NEW intent \in pending, intent.kind = "seal", FinishSeal(intent)
      PROVE  HistoryFits'
  <2> DEFINE t == intent.txn
             x == [tx[t] EXCEPT !.state = "SEALED", !.artifact = proposal[t], !.clean = intent.clean]
  <2>1. t \in Txn
    BY <1>1, <1>7, IntentParts
  <2>2. tx[t] \in Transition
    BY <1>1, <2>1, RecordAt
  <2>3. CASE tx[t].state = "PREPARED" /\ PROPOSAL_SEALED(t, proposal[t], intent.clean) /\ Await
    <3>1. x.state = "SEALED"
      BY <2>2 DEF Transition
    <3>2. UNCHANGED tx \/ Update(t, x)
      BY <2>3 DEF PROPOSAL_SEALED, Fold, projected
    <3>3. ChainFits'
      BY <1>1, <2>1, <2>3, OpenChains DEF Opening
    <3> HIDE DEF x
    <3>4. DecidingFits' /\ AdmittingFits'
      BY <1>6, <2>1, <2>3, <3>1, <3>2 DEF OpenStates
    <3> QED BY <3>3, <3>4 DEF HistoryFits
  <2> QED BY <1>3, <1>5, <1>7, <2>3 DEF FinishSeal, logVars
<1>8. ASSUME NEW intent \in pending, intent.kind = "export", FinishExport(intent)
      PROVE  HistoryFits'
  <2> DEFINE t == intent.txn
             x == [tx[t] EXCEPT !.exported = TRUE]
  <2>1. t \in Txn
    BY <1>1, <1>8, IntentParts
  <2>2. tx[t] \in Transition
    BY <1>1, <2>1, RecordAt
  <2>3. CASE PROPOSAL_EXPORTED(t) /\ Await
    <3>1. x.state = tx[t].state
      BY <2>2 DEF Transition
    <3>2. UNCHANGED tx \/ Update(t, x)
      BY <2>3 DEF PROPOSAL_EXPORTED, Fold, projected
    <3>3. ChainFits'
      BY <1>1, <2>1, <2>3, OpenChains DEF Opening
    <3> HIDE DEF x
    <3>4. DecidingFits' /\ AdmittingFits'
      BY <1>6, <2>1, <2>3, <3>1, <3>2
    <3> QED BY <3>3, <3>4 DEF HistoryFits
  <2> QED BY <1>3, <1>5, <1>8, <2>3 DEF FinishExport, logVars
<1>9. ASSUME NEW intent \in pending, intent.kind = "platform", FinishPlatformRegeneration(intent)
      PROVE  HistoryFits'
  <2>1. CASE head = intent.base /\ PLATFORM_STATE_REGENERATED(intent.view) /\ Await
    <3>1. ChainFits'
      BY <1>1, <1>9, <2>1, RegeneratedChains
    <3> QED BY <1>4, <2>1, <3>1 DEF PLATFORM_STATE_REGENERATED, HistoryFits
  <2> QED BY <1>3, <1>5, <1>9, <2>1 DEF FinishPlatformRegeneration, logVars
<1>10. ASSUME NEW intent \in pending, intent.kind = "archive", FinishArchive(intent)
      PROVE  HistoryFits'
  <2>1. CASE AGENT_ARCHIVED /\ Await
    <3>1. UNCHANGED <<head, tx, receipts>> /\ pending' \subseteq pending
      BY <2>1 DEF AGENT_ARCHIVED, Without
    <3>2. ChainFits'
      BY <1>1, <3>1, ChainUnmoved DEF Unmoved, ChainFits, RegenerationsFit
    <3> QED BY <1>4, <2>1, <3>1, <3>2 DEF HistoryFits
  <2> QED BY <1>3, <1>5, <1>10, <2>1 DEF FinishArchive, logVars
<1> QED BY <1>2, <1>7, <1>8, <1>9, <1>10 DEF FinishIntentStep

LEMMA ExamineStepCharts ==
    ASSUME Charting, ExamineStep
    PROVE  HistoryFits'
<1>1. op.kind = "recover" /\ UNCHANGED logVars /\ LogInv /\ ControlTypeOK /\ ChainFits
  BY ExaminePlanned DEF ExamineStep, Charting, Inductive
<1>2. ChainFits' /\ UNCHANGED tx
  BY <1>1, ChainProjected DEF logVars, projected
<1>3. CASE Throw("RECOVERY_REQUIRED")
  BY <1>2, <1>3, DecidingIdle DEF Throw, HistoryFits
<1>4. ASSUME NEW p, NEW r \in BOOLEAN, NEW s \in BOOLEAN, op'.kind = "recover", op'.plan = p, p # <<>>,
             r = (\E i \in 1..Len(p) : p[i] = "reject"), s = (\E i \in 1..Len(p) : p[i] = "restore"),
             Deciding("recover", Head(p), r, s, tx'[op'.txn].state)
      PROVE  HistoryFits'
  BY <1>2, <1>4, DecidingNext DEF AdmittingFits, HistoryFits
<1>5. CASE op'.kind = "recover" /\ op'.plan = <<"settle">>
  <2>1. \A i \in 1..Len(<<"settle">>) : <<"settle">>[i] = "settle"
    OBVIOUS
  <2>2. Deciding("recover", Head(<<"settle">>), FALSE, FALSE, tx'[op'.txn].state)
    BY DEF Deciding
  <2> QED BY <1>4, <1>5, <2>1, <2>2
<1>6. CASE op'.kind = "recover" /\ op'.plan = <<"reinstate", "examine">>
  <2> DEFINE p == <<"reinstate", "examine">>
  <2>1. \A i \in 1..Len(p) : p[i] \in {"reinstate", "examine"}
    OBVIOUS
  <2>2. Deciding("recover", Head(p), FALSE, FALSE, tx'[op'.txn].state) /\ p # <<>>
    BY DEF Deciding
  <2> HIDE DEF p
  <2>3. ~(\E i \in 1..Len(p) : p[i] = "reject") /\ ~(\E i \in 1..Len(p) : p[i] = "restore")
    BY <2>1
  <2>4. op'.plan = p
    BY <1>6 DEF p
  <2> QED BY <1>4, <1>6, <2>2, <2>3, <2>4
<1>7. ASSUME todo # <<>>, RecoveryPlan(Head(todo)) # <<>>, op'.kind = "recover", op'.txn = Head(todo),
             op'.plan = RecoveryPlan(Head(todo)) \o <<"examine">>
      PROVE  HistoryFits'
  <2> DEFINE t == Head(todo)
  <2>1. t \in Txn /\ tx[t].state # "NONE"
    <3>1. todo \in Seq(Txn) /\ 1 \in DOMAIN todo /\ Head(todo) = todo[1]
      BY <1>1, <1>7, EmptySeq, LenProperties DEF ControlTypeOK
    <3> QED BY <3>1, LenProperties DEF Charting, Inductive, TodoPrepared
  <2>2. tx[t] \in Transition /\ (tx[t].state = "ROLLED_BACK" => HasReceipt(t))
    BY <1>1, <2>1, RecordAt DEF LogInv, ReceiptsFitState
  <2>3. tx[t].state \in States
    BY <2>2 DEF Transition
  <2>4. \A i \in 1..Len(Pass) : Pass[i] \notin {"reject", "restore"}
    BY DEF Pass
  <2>5. \A i \in 1..Len(Applied) : Applied[i] \notin {"reject", "restore"}
    BY DEF Applied
  <2>6. \A i \in 1..Len(Forward) : Forward[i] \notin {"reject", "restore"}
    BY DEF Forward
  <2>7. /\ \A i \in 1..Len(Back("reject")) : Back("reject")[i] # "restore"
        /\ \A i \in 1..Len(Back("restore")) : Back("restore")[i] # "reject"
        /\ \E i \in 1..Len(Back("reject")) : Back("reject")[i] = "reject"
        /\ \E i \in 1..Len(Back("restore")) : Back("restore")[i] = "restore"
    <3>1. \A i \in 1..Len(Back("reject")) : Back("reject")[i] # "restore"
      BY DEF Back
    <3>2. \A i \in 1..Len(Back("restore")) : Back("restore")[i] # "reject"
      BY DEF Back
    <3>3. 4 \in 1..Len(Back("reject")) /\ Back("reject")[4] = "reject"
      BY DEF Back
    <3>4. 4 \in 1..Len(Back("restore")) /\ Back("restore")[4] = "restore"
      BY DEF Back
    <3> QED BY <3>1, <3>2, <3>3, <3>4
  <2>8. /\ Head(Pass) = "dropBackup" /\ Head(Applied) = "snapshot" /\ Head(Forward) = "apply"
        /\ Head(Back("reject")) = "dropBackup" /\ Head(Back("restore")) = "dropBackup"
        /\ <<>> \notin {Pass, Applied, Forward, Back("reject"), Back("restore")}
    BY DEF Pass, Applied, Forward, Back
  <2>9. tx'[op'.txn].state = tx[t].state
    BY <1>2, <1>7
  <2>10. CASE op'.plan = Pass
    <3>1. Deciding("recover", Head(Pass), FALSE, FALSE, tx[t].state)
      BY <2>8 DEF Deciding
    <3> QED BY <1>4, <1>7, <2>4, <2>8, <2>9, <2>10, <3>1
  <2>11. CASE op'.plan = Back("reject") /\ tx[t].state \in OpenStates
    <3>1. Deciding("recover", Head(Back("reject")), TRUE, FALSE, tx[t].state)
      BY <2>8, <2>11 DEF Deciding
    <3> QED BY <1>4, <1>7, <2>7, <2>8, <2>9, <2>11, <3>1
  <2>12. CASE op'.plan = Back("restore") /\ tx[t].state \in CrossingStates
    <3>1. Deciding("recover", Head(Back("restore")), FALSE, TRUE, tx[t].state)
      BY <2>8, <2>12 DEF Deciding
    <3> QED BY <1>4, <1>7, <2>7, <2>8, <2>9, <2>12, <3>1
  <2>13. CASE op'.plan = Applied
    <3>1. Deciding("recover", Head(Applied), FALSE, FALSE, tx[t].state)
      BY <2>8 DEF Deciding
    <3> QED BY <1>4, <1>7, <2>5, <2>8, <2>9, <2>13, <3>1
  <2>14. CASE op'.plan = Forward
    <3>1. Deciding("recover", Head(Forward), FALSE, FALSE, tx[t].state)
      BY <2>8 DEF Deciding
    <3> QED BY <1>4, <1>7, <2>6, <2>8, <2>9, <2>14, <3>1
  <2>15. \/ op'.plan \in {Pass, Applied, Forward}
         \/ op'.plan = Back("reject") /\ tx[t].state \in OpenStates
         \/ op'.plan = Back("restore") /\ tx[t].state \in CrossingStates
    <3>1. tx[t].state \notin OpenStates \cup {"ROLLED_BACK", "ACKNOWLEDGED"} =>
            tx[t].state \in CrossingStates
      BY <2>1, <2>3 DEF States
    <3> QED BY <1>7, <2>1, <2>2, <3>1, Recovering
  <2> QED BY <2>10, <2>11, <2>12, <2>13, <2>14, <2>15
<1> QED BY <1>1, <1>3, <1>5, <1>6, <1>7, ExaminePlanned DEF Charting

LEMMA StepCharts ==
    ASSUME Charting, Step
    PROVE  HistoryFits'
<1>1. RejectStep => At(IF FALSE THEN "restore" ELSE "reject") /\ DisposeStep(FALSE)
  BY DEF RejectStep
<1>2. RestoreStep => At(IF TRUE THEN "restore" ELSE "reject") /\ DisposeStep(TRUE)
  BY DEF RestoreStep
<1>3. RejectStep \/ RestoreStep => HistoryFits'
  BY <1>1, <1>2, DisposeStepCharts
<1> QED BY <1>3, QuietStepCharts, PrepareStepCharts, AuthorizeStepCharts, ApplyStepCharts,
           AckStepCharts, LogDestroyedStepCharts, LogRepairStepCharts, FinishIntentStepCharts,
           ExamineStepCharts DEF Step


----------------------------------------------------------------------------
(* Requests. *)

\* A request answered at once.
LEMMA AnswerCharts ==
    ASSUME Ready, UNCHANGED control, ChainFits'
    PROVE  HistoryFits'
<1>1. op' = Idle
  BY DEF Ready, control
<1> QED BY <1>1, DecidingIdle DEF HistoryFits

\* A request that begins an operation other than an admission or a recovery.
LEMMA BeginCharts ==
    ASSUME Charting, ChainFits', UNCHANGED tx, NEW kind \in Kinds \ {"recover", "prepareRun"},
           NEW first, op'.kind = kind, op'.plan # <<>>, Head(op'.plan) = first,
           Deciding(kind, first, FALSE, FALSE, tx[op'.txn].state)
    PROVE  HistoryFits'
BY PlannedDecides DEF HistoryFits

LEMMA ApplyPromotionCharts ==
    ASSUME Charting, NEW t \in Txn, ApplyPromotion(t)
    PROVE  HistoryFits'
<1> DEFINE next == NextView(t, tx[t].artifact, 0)
           x == [tx[t] EXCEPT !.state = "CONSUMING", !.permit = "CONSUMING", !.next = next]
<1>1. LogInv /\ ChainFits /\ tx[t] \in Transition
  BY RecordAt DEF Charting, Inductive
<1>2. PERMIT_CONSUMING(t, next) /\ tx[t].base = head
  BY DEF ApplyPromotion, CurrentCas
<1>3. ChainFits'
  <2> HIDE DEF next
  <2> QED BY <1>1, <1>2, ConsumingChains
<1>4. x.state = "CONSUMING"
  BY <1>1 DEF Transition
<1>5. ~corrupt' => tx'[t].state = "CONSUMING"
  <2>1. ~corrupt' => Update(t, x)
    BY <1>2 DEF PERMIT_CONSUMING, Fold
  <2> HIDE DEF x
  <2> QED BY <1>1, <1>4, <2>1 DEF Update, LogInv, LogTypeOK
<1>6. op'.kind = "apply" /\ op'.txn = t /\ op'.plan = Swap
  BY SwapWritten DEF ApplyPromotion, Run
<1>7. op'.plan # <<>> /\ Head(op'.plan) = "backup"
  BY <1>6 DEF Swap
<1>8. ~corrupt' => Deciding("apply", "backup", FALSE, FALSE, tx'[t].state)
  BY <1>5 DEF Deciding, CrossingStates
<1> QED BY <1>3, <1>6, <1>7, <1>8, PlannedDecides DEF HistoryFits

LEMMA RequestCharts ==
    ASSUME Charting, ~Overlap, NEW t \in Txn, Request(t)
    PROVE  HistoryFits'
<1>1. LogInv /\ ChainFits /\ (tx[t].state = "ROLLED_BACK" => HasReceipt(t))
  BY DEF Charting, Inductive, LogInv, ReceiptsFitState
<1>2. Admissible => \A u \in Txn : ~Live(u)
  BY DEF Admissible, Live
<1>3. UNCHANGED logVars => ChainFits' /\ UNCHANGED tx
  BY <1>1, ChainProjected DEF logVars, projected
<1>4. PrepareRun(t) => HistoryFits'
  <2> HAVE PrepareRun(t)
  <2>1. op'.kind = "prepareRun" /\ ChainFits' /\ UNCHANGED tx
    BY <1>3 DEF PrepareRun, Run
  <2>2. AdmittingFits'
    BY <1>2, <2>1 DEF PrepareRun, AdmittingFits, Live
  <2>3. DecidingFits'
    BY <2>1 DEF DecidingFits
  <2> QED BY <2>1, <2>2, <2>3 DEF HistoryFits
<1>5. CancelRun(t) => HistoryFits'
  BY <1>1, OpenChains, AnswerCharts DEF CancelRun, Opening
<1>6. SealProposal(t) => HistoryFits'
  <2> HAVE SealProposal(t)
  <2>1. Deciding("seal", "importProposal", FALSE, FALSE, tx[t].state)
    BY DEF Deciding
  <2>2. op'.kind = "seal" /\ op'.txn = t /\ op'.plan # <<>> /\ Head(op'.plan) = "importProposal"
    BY DEF SealProposal, Run
  <2> QED BY <1>3, <2>1, <2>2, BeginCharts DEF Kinds, SealProposal
<1>7. ExportProposal(t) => HistoryFits'
  <2> HAVE ExportProposal(t)
  <2> DEFINE intent == [kind |-> "export", txn |-> t, clean |-> TRUE]
  <2>1. Deciding("export", "finishIntent", FALSE, FALSE, tx[t].state)
    BY DEF Deciding
  <2>2. /\ UNCHANGED tx /\ op'.kind = "export" /\ op'.txn = t
        /\ op'.plan # <<>> /\ Head(op'.plan) = "finishIntent"
    BY DEF ExportProposal, INTENT_PREPARED, Run
  <2>3. INTENT_PREPARED(intent) /\ intent.kind # "platform"
    BY DEF ExportProposal
  <2>4. ChainFits'
    <3> HIDE DEF intent
    <3> QED BY <1>1, <2>3, ChainIntended
  <2> QED BY <2>1, <2>2, <2>4, BeginCharts DEF Kinds
<1>8. ASSUME NEW scope \in {"AGENT", "ALL"}, RecordRuntimeTeardown(t, scope) PROVE HistoryFits'
  BY <1>1, <1>8, OpenChains, AnswerCharts DEF RecordRuntimeTeardown, Opening
<1>9. ASSUME NEW passed \in BOOLEAN, RecordEvidence(t, passed) PROVE HistoryFits'
  BY <1>1, <1>9, OpenChains, AnswerCharts DEF RecordEvidence, Opening
<1>10. IssuePermit(t) => HistoryFits'
  BY <1>1, OpenChains, AnswerCharts DEF IssuePermit, Opening
<1>11. PromotionCasConflict(t) => HistoryFits'
  <2> HAVE PromotionCasConflict(t)
  <2>1. Deciding("conflict", "reject", FALSE, FALSE, tx[t].state)
    BY DEF PromotionCasConflict, HoldsPermit, Deciding, OpenStates
  <2>2. op'.kind = "conflict" /\ op'.txn = t /\ op'.plan # <<>> /\ Head(op'.plan) = "reject"
    BY DEF PromotionCasConflict, Run
  <2> QED BY <1>3, <2>1, <2>2, BeginCharts DEF Kinds, PromotionCasConflict
<1>12. Prepare(t) => HistoryFits'
  BY <1>1, <1>2, PreparedChains, AnswerCharts DEF Prepare
<1>13. ASSUME NEW tree \in Tree, ApplyRollback(t, tree) PROVE HistoryFits'
  <2>1. Deciding("rollback", "authorize", FALSE, FALSE, tx[t].state)
    BY DEF Deciding
  <2>2. op'.kind = "rollback" /\ op'.txn = t /\ op'.plan # <<>> /\ Head(op'.plan) = "authorize"
    BY <1>13 DEF ApplyRollback, Run
  <2> QED BY <1>3, <1>13, <2>1, <2>2, BeginCharts DEF Kinds, ApplyRollback
<1>14. ASSUME NEW decision \in Dispositions, DisposeRun(t, decision) PROVE HistoryFits'
  <2>1. tx[t].state \in OpenStates
    BY <1>1, <1>14 DEF DisposeRun
  <2>2. Deciding("dispose", "remove", FALSE, FALSE, tx[t].state)
    BY <2>1 DEF Deciding
  <2>3. op'.kind = "dispose" /\ op'.txn = t /\ op'.plan # <<>> /\ Head(op'.plan) = "remove"
    BY <1>14 DEF DisposeRun, Run
  <2> QED BY <1>3, <1>14, <2>2, <2>3, BeginCharts DEF Kinds, DisposeRun
<1>15. DisposeReplay(t) => HistoryFits'
  <2> HAVE DisposeReplay(t)
  <2>1. Deciding("cleanup", "remove", FALSE, FALSE, tx[t].state)
    BY DEF Deciding
  <2>2. op'.kind = "cleanup" /\ op'.txn = t /\ op'.plan # <<>> /\ Head(op'.plan) = "remove"
    BY DEF DisposeReplay, Run
  <2> QED BY <1>3, <2>1, <2>2, BeginCharts DEF Kinds, DisposeReplay
<1>16. RepairRollback(t) \/ RepairForward(t) => HistoryFits'
  <2> HAVE RepairRollback(t) \/ RepairForward(t)
  <2>1. Deciding("repair", Head(op'.plan), FALSE, FALSE, tx[t].state)
    BY DEF Deciding
  <2>2. UNCHANGED logVars /\ op'.kind = "repair" /\ op'.txn = t /\ op'.plan # <<>>
    <3>1. RepairRollback(t) => /\ UNCHANGED logVars /\ op'.kind = "repair" /\ op'.txn = t
                               /\ op'.plan = <<"evict", "reinstate", "logRepair">>
      BY DEF RepairRollback, RepairRequest, Run
    <3>2. RepairForward(t) => /\ UNCHANGED logVars /\ op'.kind = "repair" /\ op'.txn = t
                              /\ \/ op'.plan = <<"logRepair">>
                                 \/ op'.plan = <<"backup", "logBackup", "swap", "logRepair">>
      BY DEF RepairForward, RepairRequest, Run
    <3>3. /\ <<"evict", "reinstate", "logRepair">> # <<>> /\ <<"logRepair">> # <<>>
          /\ <<"backup", "logBackup", "swap", "logRepair">> # <<>>
      OBVIOUS
    <3> QED BY <3>1, <3>2, <3>3
  <2> QED BY <1>3, <2>1, <2>2, BeginCharts DEF Kinds
<1> QED BY <1>4, <1>5, <1>6, <1>7, <1>8, <1>9, <1>10, <1>11, <1>12, <1>13, <1>14, <1>15, <1>16,
           ApplyPromotionCharts DEF Request

LEMMA RegeneratePlatformStateCharts ==
    ASSUME Charting, NEW p \in Platform, RegeneratePlatformState(p)
    PROVE  HistoryFits'
<1> DEFINE tree == [workspace EXCEPT !.p = p]
           intent == [kind |-> "platform", base |-> head,
                      view |-> [ver |-> head.ver, gen |-> head.gen + 1, tree |-> tree,
                                epoch |-> head.epoch + 1, cfg |-> head.cfg + 1]]
<1>1. LogInv /\ ChainFits /\ head \in View /\ head.tree \in Tree
  BY ViewFields DEF Charting, Inductive, LogInv, LogTypeOK, View
<1>2. workspace = head.tree
  BY <1>1, WorkerAssumption DEF RegeneratePlatformState, CurrentCas, Materialized
<1>3. tree = [v |-> head.tree.v, p |-> p]
  BY <1>1, <1>2 DEF Tree
<1>4. intent.kind = "platform" /\ intent.base \in View /\ intent.view = Configured(intent.base, p)
  <2> HIDE DEF tree
  <2> QED BY <1>1, <1>3 DEF Configured
<1>5. INTENT_PREPARED(intent)
  BY DEF RegeneratePlatformState
<1>6. ChainFits'
  <2> HIDE DEF intent
  <2> QED BY <1>1, <1>4, <1>5, ChainIntended
<1>7. /\ UNCHANGED tx /\ op'.kind = "platform" /\ op'.txn = None
      /\ op'.plan # <<>> /\ Head(op'.plan) = "finishIntent"
  BY DEF RegeneratePlatformState, INTENT_PREPARED, Run
<1>8. Deciding("platform", "finishIntent", FALSE, FALSE, tx[None].state)
  BY DEF Deciding
<1> QED BY <1>6, <1>7, <1>8, BeginCharts DEF Kinds

LEMMA ArchiveAgentCharts ==
    ASSUME Charting, ArchiveAgent
    PROVE  HistoryFits'
<1> DEFINE intent == [kind |-> "archive", view |-> head]
<1>1. INTENT_PREPARED(intent) /\ intent.kind # "platform"
  BY DEF ArchiveAgent
<1>2. ChainFits'
  <2> HIDE DEF intent
  <2> QED BY <1>1, ChainIntended DEF Charting
<1>3. /\ UNCHANGED tx /\ op'.kind = "archive" /\ op'.txn = None
      /\ op'.plan # <<>> /\ Head(op'.plan) = "finishIntent"
  BY DEF ArchiveAgent, INTENT_PREPARED, Run
<1>4. Deciding("archive", "finishIntent", FALSE, FALSE, tx[None].state)
  BY DEF Deciding
<1> QED BY <1>2, <1>3, <1>4, BeginCharts DEF Kinds

LEMMA FaultCharts ==
    ASSUME Charting, Fault
    PROVE  HistoryFits'
<1>1. op.plan # <<>> /\ UNCHANGED tx /\ ControlTypeOK /\ ChainFits'
  BY ChainProjected DEF Fault, logVars, projected, Charting, Inductive
<1>2. CASE ~BestEffort
  <2>1. Fail("IO") \/ Fail("RECOVERY_REQUIRED")
    BY <1>2 DEF Fault
  <2> QED BY <1>1, <2>1, FailDecides DEF HistoryFits
<1>3. CASE BestEffort /\ op' = Idle
  BY <1>1, <1>3, DecidingIdle DEF HistoryFits
<1>4. CASE BestEffort /\ Head(op.plan) = "dropBackup" /\ op' = [op EXCEPT !.plan = Tail(@)]
  <2>1. Follows(op.kind, "dropBackup", Second)
    BY <1>1, <1>4, Succession DEF Charting
  <2>2. Second # "end"
    BY <1>4, <2>1 DEF Follows, BestEffort
  <2>3. Continue
    BY <1>4, <2>2 DEF Continue, Second
  <2> QED BY <1>1, <1>4, <2>3, DiskDecides DEF HistoryFits
<1> QED BY <1>2, <1>3, <1>4 DEF Fault

\* Once the log cannot be folded it stays as it is.
LEMMA CorruptStays ==
    ASSUME corrupt, [Next]_vars
    PROVE  UNCHANGED logVars
<1>1. \A t \in Txn : ~Request(t)
  BY DEF Request, PrepareRun, CancelRun, SealProposal, ExportProposal, RecordRuntimeTeardown,
         RecordEvidence, IssuePermit, ApplyPromotion, PromotionCasConflict, Prepare, ApplyRollback,
         DisposeRun, DisposeReplay, RepairRollback, RepairForward, RepairRequest, Ready
<1>2. ~Step
  BY DEF Step, CloneStep, PrepareStep, ImportProposalStep, LogSealStep, AuthorizeStep, BackupStep,
         LogBackupStep, SwapStep, SnapshotStep, ApplyStep, AckStep, DropBackupStep, RemoveStep, LogDestroyedStep,
         RejectStep, RestoreStep, EvictStep, ReinstateStep, LogRepairStep, FinishIntentStep,
         ExamineStep, SettleStep, At
<1>3. ~RecoverPendingWorkerIntents /\ ~RecoverAgent /\ ~ArchiveAgent /\ ~Fault /\ ~Start
  BY DEF RecoverPendingWorkerIntents, RecoverAgent, ArchiveAgent, Ready, Fault, Start
<1>4. \A p \in Platform : ~RegeneratePlatformState(p)
  BY DEF RegeneratePlatformState, Ready
<1>5. ASSUME NEW t \in Txn, NEW tree \in Tree, AgentEdits(t, tree) PROVE UNCHANGED logVars
  BY <1>5 DEF AgentEdits
<1>6. ASSUME NEW tree \in Tree, Drift(tree) PROVE UNCHANGED logVars
  BY <1>6 DEF Drift
<1>7. ProbeWorkspace \/ Crash \/ Sweep \/ InitializeThrows \/ UNCHANGED vars => UNCHANGED logVars
  BY DEF ProbeWorkspace, Crash, Sweep, InitializeThrows, vars
<1> QED BY <1>1, <1>2, <1>3, <1>4, <1>5, <1>6, <1>7 DEF Next

LEMMA HistoryKept ==
    ASSUME Inductive, Inductive', OrderFits, OrderFits', HistoryFits, ~Overlap, [Next]_vars
    PROVE  HistoryFits'
<1>1. CASE corrupt
  BY <1>1, CorruptStays, ChainProjected DEF HistoryFits, logVars, projected
<1>2. CASE ~corrupt
  <2>0. Charting
    BY <1>2 DEF HistoryFits, Charting
  <2>1. CASE UNCHANGED <<projected, op>>
    <3>1. ChainFits' /\ UNCHANGED <<tx, op>>
      BY <2>0, <2>1, ChainProjected DEF Charting, projected
    <3>2. DecidingFits' /\ AdmittingFits'
      BY <2>0, <3>1 DEF Charting, DecidingFits, AdmittingFits, First, Some, Live
    <3> QED BY <3>1, <3>2 DEF HistoryFits
  <2>2. CASE UNCHANGED projected /\ op' = Idle
    BY <2>0, <2>2, ChainProjected, DecidingIdle DEF Charting, HistoryFits
  <2>3. UNCHANGED vars => HistoryFits'
    BY <2>1 DEF vars, logVars, control, projected
  <2>4. ASSUME NEW t \in Txn, Request(t) PROVE HistoryFits'
    BY <2>0, <2>4, RequestCharts
  <2>5. ASSUME NEW t \in Txn, NEW tree \in Tree, AgentEdits(t, tree) PROVE HistoryFits'
    BY <2>1, <2>5 DEF AgentEdits, logVars, control, projected
  <2>6. RecoverPendingWorkerIntents => HistoryFits'
    <3> HAVE RecoverPendingWorkerIntents
    <3>1. ChainFits' /\ UNCHANGED tx
      BY <2>0, ChainProjected DEF RecoverPendingWorkerIntents, logVars, projected, Charting
    <3>2. op'.kind = "intents" /\ op'.txn = None /\ op'.plan # <<>> /\ Head(op'.plan) = "finishIntent"
      BY DEF RecoverPendingWorkerIntents, Run
    <3>3. Deciding("intents", "finishIntent", FALSE, FALSE, tx[None].state)
      BY DEF Deciding
    <3> QED BY <2>0, <3>1, <3>2, <3>3, BeginCharts DEF Kinds
  <2>7. ASSUME NEW p \in Platform, RegeneratePlatformState(p) PROVE HistoryFits'
    BY <2>0, <2>7, RegeneratePlatformStateCharts
  <2>8. RecoverAgent \/ Start => HistoryFits'
    <3> HAVE RecoverAgent \/ Start
    <3> DEFINE p == <<"finishIntent", "examine">>
    <3>1. ChainFits' /\ op'.kind = "recover" /\ op'.plan = p
      BY <2>0, ChainProjected
      DEF RecoverAgent, Start, BeginRecovery, Run, logVars, projected, Charting
    <3>2. \A i \in 1..Len(p) : p[i] \in {"finishIntent", "examine"}
      OBVIOUS
    <3>3. p # <<>> /\ Head(p) = "finishIntent"
      OBVIOUS
    <3> HIDE DEF p
    <3>4. ~(\E i \in 1..Len(p) : p[i] = "reject") /\ ~(\E i \in 1..Len(p) : p[i] = "restore")
      BY <3>2
    <3>5. Deciding("recover", "finishIntent", FALSE, FALSE, tx'[op'.txn].state)
      BY DEF Deciding
    <3>6. DecidingFits' /\ AdmittingFits'
      BY <3>1, <3>3, <3>4, <3>5, DecidingNext DEF AdmittingFits
    <3> QED BY <3>1, <3>6 DEF HistoryFits
  <2>9. ProbeWorkspace => HistoryFits'
    BY <2>1 DEF ProbeWorkspace, logVars, control, projected
  <2>10. Crash \/ Sweep \/ InitializeThrows => HistoryFits'
    BY <2>1, <2>2 DEF Crash, Sweep, InitializeThrows, logVars, projected
  <2>11. ASSUME NEW tree \in Tree, Drift(tree) PROVE HistoryFits'
    BY <2>1, <2>11 DEF Drift, logVars, control, projected
  <2>12. Step \/ Fault \/ ArchiveAgent => HistoryFits'
    BY <2>0, StepCharts, FaultCharts, ArchiveAgentCharts
  <2> QED BY <2>3, <2>4, <2>5, <2>6, <2>7, <2>8, <2>9, <2>10, <2>11, <2>12 DEF Next
<1> QED BY <1>1, <1>2

LEMMA InitCharts == Init => HistoryFits
<1> SUFFICES ASSUME Init PROVE HistoryFits
  OBVIOUS
<1>1. \A t \in Txn : tx[t].state = "NONE"
  BY DEF Init, LogInit, Unprepared
<1>2. OneLive /\ ViewsFit
  <2>1. LastView = InitialView /\ head = InitialView
    BY DEF Init, LogInit, LastView
  <2> QED BY <1>1, <2>1 DEF OneLive, ViewsFit, Live, Crossing, OpenStates, CrossingStates, Leads
<1>3. RegenerationsFit /\ SerialHistory
  BY DEF Init, LogInit, RegenerationsFit, SerialHistory
<1>4. op = Idle
  BY DEF Init
<1>5. DecidingFits /\ AdmittingFits
  BY <1>4 DEF DecidingFits, AdmittingFits, First, Some, Idle
<1> QED BY <1>2, <1>3, <1>5 DEF HistoryFits, ChainFits

\* The decisions are one chain: while an Agent has one open transition at a time
\* (assertNoActiveMutation), each commit and each refusal is made against the View
\* the decision before it left, or a platform regeneration of that View, whatever
\* is killed, fails, drifts or is repaired in between.
THEOREM HistoryIsSerial == ~Overlap => (Spec => []SerialHistory)
<1> SUFFICES ASSUME ~Overlap PROVE Spec => []SerialHistory
  OBVIOUS
<1> DEFINE Inv == Inductive /\ OrderFits /\ HistoryFits
<1>1. Init => Inv
  BY InitInductive, InitFits, InitCharts
<1>2. Inv /\ [Next]_vars => Inv'
  BY NextInductive, OrderKept, HistoryKept
<1>3. Inv => SerialHistory
  BY DEF HistoryFits, ChainFits
<1> HIDE DEF Inv
<1> QED BY <1>1, <1>2, <1>3, PTL DEF Spec

----------------------------------------------------------------------------
(* The Worker implements the atomic authority.  Each step appends at most  *)
(* one event, and what the step finds fits it.                             *)

\* Where the queue goes in a step.
Going ==
    \/ op'.kind \notin {"seal", "repair", "recover"}
    \/ op' = op /\ (UNCHANGED <<tx, pending>> \/ First({"finishIntent"}))
    \/ /\ op.plan # <<>> /\ op'.plan # <<>> /\ op'.kind = op.kind /\ op'.txn = op.txn
       /\ Follows(op.kind, Head(op.plan), Head(op'.plan))
       /\ op.kind = "repair" => UNCHANGED tx
       /\ Head(op.plan) = "importProposal" => UNCHANGED pending
    \/ op'.kind = "seal" /\ IsRun(op'.txn) /\ pending' = {}
    \/ op'.kind = "repair" /\ Crossing(op'.txn) /\ UNCHANGED tx
    \/ /\ op'.kind = "recover" /\ op'.plan # <<>>
       /\ Head(op'.plan) = "reinstate" => Crossing(op'.txn) /\ UNCHANGED tx

LEMMA RestGoes ==
    ASSUME op' = Idle
    PROVE  Going
BY DEF Going, Idle

LEMMA WentOnGoes ==
    ASSUME Charting, op.plan # <<>>, Continue \/ op' = Idle, op.kind = "repair" => UNCHANGED tx,
           Head(op.plan) = "importProposal" => UNCHANGED pending
    PROVE  Going
<1>1. CASE Continue
  <2>1. Advanced
    BY <1>1, Advances DEF Charting, Inductive
  <2> QED BY <2>1, AdvancedTo, RestGoes DEF Going, Charting, Inductive
<1> QED BY <1>1, RestGoes

LEMMA FailGoes ==
    ASSUME Charting, op.plan # <<>>, NEW reason, Fail(reason)
    PROVE  Going
<1>1. Undo => op'.kind = "undo"
  BY DEF Undo, Charting, Inductive, ControlTypeOK, Operation
<1> QED BY <1>1, RestGoes DEF Fail, Throw, Going

\* A step of a repair that changes a record is its last.
LEMMA RepairRecords ==
    ASSUME Charting, NEW s, At(s), s \in {"prepare", "authorize", "apply", "ack", "logDestroyed", "finishIntent"}
    PROVE  op.plan # <<>> /\ Head(op.plan) = s /\ op.kind # "repair"
<1>1. op.plan # <<>> /\ Head(op.plan) = s
  BY DEF At
<1>2. Follows(op.kind, s, Second)
  BY <1>1, Succession DEF Charting, Inductive
<1> QED BY <1>1, <1>2 DEF Follows

LEMMA StepGoes ==
    ASSUME Charting, Step
    PROVE  Going
<1>1. CloneStep \/ BackupStep \/ LogBackupStep \/ SwapStep \/ SnapshotStep => Going
  <2> HAVE CloneStep \/ BackupStep \/ LogBackupStep \/ SwapStep \/ SnapshotStep
  <2>1. op.plan # <<>> /\ (Continue \/ op' = Idle \/ Fail("IO"))
    BY DEF CloneStep, BackupStep, LogBackupStep, SwapStep, SnapshotStep, At, Go, Throw
  <2>2. UNCHANGED <<tx, pending>>
    BY DEF CloneStep, BackupStep, LogBackupStep, SwapStep, SnapshotStep, logVars, BACKUP_CREATED, Fold, projected
  <2> QED BY <2>1, <2>2, WentOnGoes, FailGoes
<1>2. DropBackupStep \/ RemoveStep \/ EvictStep \/ ReinstateStep \/ SettleStep => Going
  BY WentOnGoes DEF DropBackupStep, RemoveStep, EvictStep, ReinstateStep, SettleStep, At, Go, Await, Throw,
     logVars, Going
<1>3. ImportProposalStep \/ LogSealStep => Going
  BY WentOnGoes DEF ImportProposalStep, LogSealStep, INTENT_PREPARED, At, Go, Await, Throw, logVars, Going
<1>4. PrepareStep \/ ApplyStep \/ AckStep \/ LogDestroyedStep => Going
  BY RepairRecords, WentOnGoes DEF PrepareStep, ApplyStep, AckStep, LogDestroyedStep, Go
<1>5. AuthorizeStep => Going
  <2> HAVE AuthorizeStep
  <2>1. op.plan # <<>> /\ op.kind # "repair" /\ Head(op.plan) # "importProposal"
    BY RepairRecords DEF AuthorizeStep
  <2>2. CASE Run("apply", op.txn, SwapAndAcknowledge, None, None)
    BY <2>2 DEF Run, Going
  <2>3. Continue \/ Run("apply", op.txn, SwapAndAcknowledge, None, None)
    BY DEF AuthorizeStep
  <2> QED BY <2>1, <2>2, <2>3, WentOnGoes
<1>6. ASSUME NEW restored \in BOOLEAN, At(IF restored THEN "restore" ELSE "reject"), DisposeStep(restored)
      PROVE  Going
  BY <1>6, Disposing, WentOnGoes DEF DisposeStep, Go, Throw
<1>7. RejectStep \/ RestoreStep => Going
  <2>1. RejectStep => At(IF FALSE THEN "restore" ELSE "reject") /\ DisposeStep(FALSE)
    BY DEF RejectStep
  <2>2. RestoreStep => At(IF TRUE THEN "restore" ELSE "reject") /\ DisposeStep(TRUE)
    BY DEF RestoreStep
  <2> QED BY <1>6, <2>1, <2>2
<1>8. LogRepairStep => Going
  BY DEF LogRepairStep, Run, Going
<1>9. FinishIntentStep => Going
  <2> HAVE FinishIntentStep
  <2>1. /\ op.plan # <<>> /\ First({"finishIntent"}) /\ op.kind # "repair"
        /\ Head(op.plan) # "importProposal"
    BY RepairRecords DEF FinishIntentStep, First
  <2>2. Go \/ Throw("RECOVERY_REQUIRED") \/ Await
    BY DEF FinishIntentStep, FinishSeal, FinishExport, FinishPlatformRegeneration, FinishArchive
  <2>3. CASE Go \/ Throw("RECOVERY_REQUIRED")
    BY <2>1, <2>3, WentOnGoes DEF Go, Throw
  <2>4. CASE Await
    BY <2>1, <2>4 DEF Await, Going
  <2> QED BY <2>2, <2>3, <2>4
<1>10. ExamineStep => Going
  <2> HAVE ExamineStep
  <2>1. UNCHANGED tx
    BY DEF ExamineStep, logVars
  <2>2. CASE Throw("RECOVERY_REQUIRED")
    BY <2>2, RestGoes DEF Throw
  <2>3. ASSUME NEW plan, plan # <<>>, op'.plan = plan, op'.kind = "recover", Head(plan) # "reinstate"
        PROVE  Going
    BY <2>3 DEF Going
  <2>4. CASE op'.kind = "recover" /\ op'.plan = <<"settle">>
    <3>1. <<"settle">> # <<>> /\ Head(<<"settle">>) # "reinstate"
      OBVIOUS
    <3> QED BY <2>3, <2>4, <3>1
  <2>5. CASE /\ todo # <<>> /\ SwapInterrupted(Head(todo)) /\ op'.kind = "recover"
             /\ op'.plan = <<"reinstate", "examine">> /\ op'.txn = Head(todo)
    <3>1. <<"reinstate", "examine">> # <<>>
      OBVIOUS
    <3> QED BY <2>1, <2>5, <3>1 DEF Going, SwapInterrupted, Crossing
  <2>6. CASE /\ todo # <<>> /\ RecoveryPlan(Head(todo)) # <<>> /\ op'.kind = "recover"
             /\ op'.plan = RecoveryPlan(Head(todo)) \o <<"examine">>
    <3>1. Head(todo) \in Txn
      <4>1. todo \in Seq(Txn)
        BY DEF Charting, Inductive, ControlTypeOK
      <4> QED BY <2>6, <4>1, HeadTailProperties
    <3>2. op'.plan \in {Pass, Applied, Forward, Back("reject"), Back("restore")}
      BY <2>6, <3>1, Recovering
    <3>3. /\ Head(Pass) = "dropBackup" /\ Head(Applied) = "snapshot" /\ Head(Forward) = "apply"
          /\ Head(Back("reject")) = "dropBackup" /\ Head(Back("restore")) = "dropBackup"
          /\ <<>> \notin {Pass, Applied, Forward, Back("reject"), Back("restore")}
      BY DEF Pass, Applied, Forward, Back
    <3> QED BY <2>3, <2>6, <3>2, <3>3
  <2> QED BY <2>2, <2>4, <2>5, <2>6, ExaminePlanned DEF Charting
<1> QED BY <1>1, <1>2, <1>3, <1>4, <1>5, <1>7, <1>8, <1>9, <1>10 DEF Step

LEMMA Goes ==
    ASSUME Charting, [Next]_vars
    PROVE  Going
<1>1. CASE op' = op /\ UNCHANGED logVars
  BY <1>1 DEF Going, logVars
<1>2. CASE Ready /\ UNCHANGED control
  BY <1>2, RestGoes DEF Ready, control
<1>3. ASSUME NEW t \in Txn, Request(t) PROVE Going
  <2>1. \/ op' = Idle \/ op'.kind \notin {"seal", "repair", "recover"}
        \/ SealProposal(t) \/ RepairRollback(t) \/ RepairForward(t)
    BY <1>3 DEF Request, PrepareRun, CancelRun, ExportProposal, RecordRuntimeTeardown, RecordEvidence,
         IssuePermit, ApplyPromotion, PromotionCasConflict, Prepare, ApplyRollback, DisposeRun, DisposeReplay,
         Run, Ready, control
  <2>2. SealProposal(t) => Going
    BY DEF SealProposal, Run, Going, logVars
  <2>3. RepairRollback(t) \/ RepairForward(t) => Going
    BY DEF RepairRollback, RepairForward, RepairRequest, Run, Going, logVars, Crossing, CrossingStates
  <2> QED BY <2>1, <2>2, <2>3, RestGoes DEF Going
<1>4. ASSUME NEW t \in Txn, NEW tree \in Tree, AgentEdits(t, tree) PROVE Going
  BY <1>1, <1>4 DEF AgentEdits, control
<1>5. RecoverPendingWorkerIntents \/ ArchiveAgent => Going
  BY DEF RecoverPendingWorkerIntents, ArchiveAgent, Run, Going
<1>6. ASSUME NEW p \in Platform, RegeneratePlatformState(p) PROVE Going
  BY <1>6 DEF RegeneratePlatformState, Run, Going
<1>7. RecoverAgent \/ Start => Going
  <2> HAVE RecoverAgent \/ Start
  <2> DEFINE plan == <<"finishIntent", "examine">>
  <2>1. op'.kind = "recover" /\ op'.plan = plan
    BY DEF RecoverAgent, Start, BeginRecovery, Run
  <2>2. plan # <<>> /\ Head(plan) # "reinstate"
    OBVIOUS
  <2> HIDE DEF plan
  <2> QED BY <2>1, <2>2 DEF Going
<1>8. Crash \/ InitializeThrows => Going
  BY <1>1, RestGoes DEF Crash, InitializeThrows
<1>9. Fault => Going
  <2> HAVE Fault
  <2>1. op.plan # <<>> /\ UNCHANGED tx /\ ControlTypeOK /\ OrderFits
    BY DEF Fault, logVars, Charting, Inductive
  <2>2. CASE ~BestEffort
    BY <2>1, <2>2, FailGoes DEF Fault
  <2>3. CASE BestEffort
    <3>1. op'.kind = op.kind \/ op' = Idle
      BY <2>1, <2>3 DEF Fault, ControlTypeOK, Operation
    <3> QED BY <2>3, <3>1, RestGoes DEF BestEffort, Going
  <2> QED BY <2>2, <2>3
<1>10. ASSUME NEW tree \in Tree, Drift(tree) PROVE Going
  BY <1>1, <1>10 DEF Drift, control
<1>11. ProbeWorkspace \/ Sweep \/ UNCHANGED vars => Going
  BY <1>1 DEF ProbeWorkspace, Sweep, control, vars
<1> QED BY <1>3, <1>4, <1>5, <1>6, <1>7, <1>8, <1>9, <1>10, <1>11, StepGoes DEF Next

\* A state of the refinement, with one open transition at a time, and either no
\* rollbacks or nothing that moves the workspace beside them.
Promising == Charting /\ PromiseFits /\ ~Overlap /\ (Rollbacks = {} \/ Still)

\* The event a step appends, if any, with what the step has made sure of.
Happening ==
    \/ Turned(Moving = {})
    \/ \E intent :
        /\ INTENT_PREPARED(intent) /\ pending = {}
        /\ intent.kind \in {"platform", "archive"} =>
             ~Still /\ ~archived /\ \A u \in Txn : ~Live(u)
    \/ \E t \in Txn :
        \/ TRANSITION_PREPARED(t) /\ \A u \in Txn : ~Live(u)
        \/ /\ PERMIT_CONSUMING(t, NextView(t, tx[t].artifact, IF IsRun(t) THEN 0 ELSE 1))
           /\ tx[t].base = head /\ ~archived
        \/ WORKSPACE_APPLIED(t)
        \/ REPAIR_APPLIED(t) /\ Crossing(t)
        \/ TRANSITION_ACKNOWLEDGED(t)
        \/ \E decision \in NonCommits, restored \in BOOLEAN :
             /\ NON_COMMIT_DISPOSITIONED(t, decision, restored)
             /\ tx[t].state \in (IF restored THEN CrossingStates ELSE OpenStates)
    \/ \E intent \in pending :
        intent.kind = "platform" /\ head = intent.base /\ PLATFORM_STATE_REGENERATED(intent.view)
    \/ (\E intent \in pending : intent.kind = "archive") /\ AGENT_ARCHIVED /\ workspace' \notin Tree

DiskHolds ==
    /\ archived => workspace' \notin Tree
    /\ \A t \in Rollbacks : proposal'[t] = None

\* No event, and no directory that matters.
LEMMA NothingHappens ==
    ASSUME UNCHANGED projected
    PROVE  Happening
BY DEF Happening, Turned, Unmoved, projected

LEMMA Opens ==
    ASSUME Promising, NEW t \in Txn, Opening(t, Moving = {})
    PROVE  Happening
BY OpeningTurns DEF Happening, Promising, Charting, Inductive

LEMMA DiskHeld ==
    ASSUME Promising,
           archived => workspace' \in {workspace, None, Materialized},
           UNCHANGED proposal
    PROVE  DiskHolds
<1>1. None \notin Tree /\ Empty \notin Tree
  BY LogAssumption, WorkerAssumption DEF Tree
<1>2. archived => workspace \notin Tree
  BY DEF Promising, PromiseFits, DiskPromise
<1>3. \A t \in Rollbacks : proposal'[t] = None
  BY DEF Promising, PromiseFits, DiskPromise
<1> QED BY <1>1, <1>2, <1>3 DEF DiskHolds, Materialized

\* A copy is deleted.
LEMMA ProposalDropped ==
    ASSUME Promising, UNCHANGED <<projected, workspace>>,
           \A t \in Txn : proposal'[t] \in {proposal[t], None}
    PROVE  Happening /\ DiskHolds
<1>1. \A t \in Rollbacks : proposal'[t] = None
  BY LogAssumption DEF Promising, PromiseFits, DiskPromise
<1>2. archived => workspace' \notin Tree
  BY DEF Promising, PromiseFits, DiskPromise
<1> QED BY <1>1, <1>2, NothingHappens DEF DiskHolds

\* Whoever moves the workspace back or forth is on the crossing.
LEMMA NotArchived ==
    ASSUME Promising, NEW t \in Txn, Crossing(t)
    PROVE  ~archived
BY DEF Promising, PromiseFits, LogPromise, Apart

LEMMA Shifting ==
    ASSUME Promising, NEW s \in {"swap", "reinstate"}, At(s)
    PROVE  ~archived
<1>1. s \in Steps \ TxnFreeSteps
  BY DEF Steps, ApplySteps, TxnFreeSteps
<1>2. /\ op.plan # <<>> /\ Head(op.plan) = s /\ op.txn \in Txn /\ Follows(op.kind, s, Second)
      /\ Deciding(op.kind, s, Some({"reject"}), Some({"restore"}), tx[op.txn].state)
  BY <1>1, Confronted DEF Promising
<1>3. op.kind \in {"apply", "undo", "repair", "recover"}
  BY <1>2 DEF Follows
<1>4. op.kind = "recover" => s = "reinstate"
  BY <1>2 DEF Follows
<1>5. op.kind = "apply" => s = "swap"
  BY <1>2 DEF Follows
<1>6. Crossing(op.txn)
  BY <1>2, <1>3, <1>4, <1>5 DEF Deciding, ApplySteps, Crossing, Promising, PromiseFits, QueuePromise, First
<1> QED BY <1>2, <1>6, NotArchived

LEMMA QuietStepHappens ==
    ASSUME Promising,
           \/ CloneStep \/ ImportProposalStep \/ LogSealStep \/ BackupStep \/ LogBackupStep \/ SwapStep
           \/ SnapshotStep \/ DropBackupStep \/ RemoveStep \/ EvictStep \/ ReinstateStep \/ SettleStep
           \/ ExamineStep
    PROVE  Happening /\ DiskHolds
<1>1. CASE CloneStep \/ LogBackupStep \/ SnapshotStep \/ DropBackupStep \/ SettleStep
  <2>1. UNCHANGED <<projected, workspace, proposal>>
    BY <1>1 DEF CloneStep, LogBackupStep, SnapshotStep, DropBackupStep, SettleStep, BACKUP_CREATED, Fold,
         logVars, projected, disk
  <2> QED BY <2>1, NothingHappens, DiskHeld DEF projected
<1>2. CASE BackupStep \/ EvictStep \/ ExamineStep
  <2>1. UNCHANGED <<projected, proposal>> /\ workspace' \in {workspace, None, Materialized}
    BY <1>2 DEF BackupStep, EvictStep, ExamineStep, logVars, projected, disk
  <2> QED BY <2>1, NothingHappens, DiskHeld DEF projected
<1>3. CASE SwapStep \/ ReinstateStep
  <2>1. UNCHANGED <<projected, proposal>> /\ ~archived
    BY <1>3, Shifting DEF SwapStep, ReinstateStep, logVars, projected
  <2> QED BY <2>1, NothingHappens, DiskHeld DEF projected
<1>4. CASE RemoveStep
  <2>1. UNCHANGED <<projected, workspace>>
    BY <1>4 DEF RemoveStep, logVars, projected, disk
  <2>2. \A t \in Txn : proposal'[t] \in {proposal[t], None}
    BY <1>4 DEF RemoveStep, disk, Promising, Charting, Inductive, DiskTypeOK
  <2> QED BY <2>1, <2>2, ProposalDropped
<1>5. ASSUME NEW s \in SealSteps, At(s)
      PROVE  op.txn \in Txn /\ pending = {} /\ op.txn \notin Rollbacks
  <2>1. s \in Steps \ TxnFreeSteps
    BY DEF SealSteps, Steps, TxnFreeSteps
  <2>2. op.kind = "seal" /\ op.txn \in Txn /\ op.plan # <<>> /\ Head(op.plan) = s
    BY <1>5, <2>1, Confronted DEF Follows, SealSteps, Promising
  <2> QED BY <2>2 DEF Promising, PromiseFits, QueuePromise, First, IsRun
<1>6. CASE ImportProposalStep
  <2>1. op.txn \notin Rollbacks
    BY <1>5, <1>6 DEF ImportProposalStep, SealSteps
  <2>2. \A t \in Rollbacks : proposal'[t] = proposal[t]
    BY <1>6, <2>1, LogAssumption DEF ImportProposalStep, Promising, Charting, Inductive, DiskTypeOK
  <2>3. \A t \in Rollbacks : proposal'[t] = None
    BY <2>2 DEF Promising, PromiseFits, DiskPromise
  <2>4. archived => workspace' \notin Tree
    BY <1>6 DEF ImportProposalStep, Promising, PromiseFits, DiskPromise
  <2>5. UNCHANGED projected
    BY <1>6 DEF ImportProposalStep, logVars, projected
  <2> QED BY <2>3, <2>4, <2>5, NothingHappens DEF DiskHolds
<1>7. CASE LogSealStep
  <2>1. pending = {} /\ UNCHANGED <<proposal, workspace>>
    BY <1>5, <1>7 DEF LogSealStep, SealSteps, disk
  <2>2. PICK intent : INTENT_PREPARED(intent) /\ intent.kind = "seal"
    BY <1>7 DEF LogSealStep
  <2>3. Happening
    BY <2>1, <2>2 DEF Happening
  <2> QED BY <2>1, <2>3, DiskHeld
<1> QED BY <1>1, <1>2, <1>3, <1>4, <1>6, <1>7

LEMMA AuthorizeStepHappens ==
    ASSUME Promising, AuthorizeStep
    PROVE  Happening
<1> DEFINE t == op.txn
<1>1. At("authorize") /\ "authorize" \in Steps \ TxnFreeSteps
  BY DEF AuthorizeStep, Steps, TxnFreeSteps
<1>2. op.plan # <<>> /\ Head(op.plan) = "authorize" /\ t \in Txn
  BY <1>1, Confronted DEF Promising
<1>3. Authorizing
  BY <1>1, <1>2, FirstStep DEF Promising, Charting, Inductive
<1>4. ~IsRun(t) /\ tx[t].base = head /\ (tx[t].state = "PERMITTED" => tx[t].artifact = op.tree)
  BY <1>3 DEF Authorizing
<1>5. Moving = {} /\ ~archived
  BY <1>4 DEF IsRun, Promising, PromiseFits, LogPromise, Apart
<1>6. PROPOSAL_SEALED(t, op.tree, TRUE) \/ EVIDENCE_RECORDED(t, TRUE) \/ PERMIT_ISSUED(t) => Happening
  BY <1>2, <1>5, Opens DEF Opening
<1>7. CASE tx[t].state = "PERMITTED" /\ PERMIT_CONSUMING(t, NextView(t, op.tree, 1))
  <2>1. NextView(t, op.tree, 1) = NextView(t, tx[t].artifact, IF IsRun(t) THEN 0 ELSE 1)
    BY <1>4, <1>7
  <2> QED BY <1>2, <1>4, <1>5, <1>7, <2>1 DEF Happening
<1> QED BY <1>6, <1>7 DEF AuthorizeStep

LEMMA EventStepHappens ==
    ASSUME Promising,
           PrepareStep \/ AuthorizeStep \/ ApplyStep \/ AckStep \/ LogDestroyedStep \/ LogRepairStep
    PROVE  Happening /\ DiskHolds
<1>1. DiskHolds
  BY DiskHeld DEF PrepareStep, AuthorizeStep, ApplyStep, AckStep, LogDestroyedStep, LogRepairStep, disk
<1>2. ASSUME NEW s \in {"prepare", "apply", "ack", "logDestroyed", "logRepair"}, At(s)
      PROVE  op.plan # <<>> /\ Head(op.plan) = s /\ op.txn \in Txn /\ Follows(op.kind, s, Second)
  <2>1. s \in Steps \ TxnFreeSteps
    BY DEF Steps, ApplySteps, TxnFreeSteps
  <2> QED BY <1>2, <2>1, Confronted DEF Promising
<1>3. PrepareStep => Happening
  <2> HAVE PrepareStep
  <2>1. op.txn \in Txn /\ op.kind = "prepareRun"
    BY <1>2 DEF PrepareStep, Follows
  <2>2. \A u \in Txn : ~Live(u)
    BY <2>1 DEF Promising, Charting, AdmittingFits
  <2> QED BY <2>1, <2>2 DEF PrepareStep, Happening
<1>4. ApplyStep \/ AckStep => Happening
  BY <1>2 DEF ApplyStep, AckStep, Happening
<1>5. LogDestroyedStep => Happening
  <2> HAVE LogDestroyedStep
  <2>1. op.txn \in Txn
    BY <1>2 DEF LogDestroyedStep
  <2>2. UNCHANGED projected \/ RUN_ARTIFACTS_DESTROYED(op.txn)
    BY DEF LogDestroyedStep, logVars, projected
  <2> QED BY <2>1, <2>2, NothingHappens, Opens DEF Opening
<1>6. LogRepairStep => Happening
  <2> HAVE LogRepairStep
  <2>1. op.txn \in Txn /\ op.plan # <<>> /\ Head(op.plan) = "logRepair"
    BY <1>2 DEF LogRepairStep
  <2>2. Crossing(op.txn)
    BY <2>1, FirstStep DEF Promising, Charting, Inductive, Crossing, CrossingStates
  <2> QED BY <2>1, <2>2 DEF LogRepairStep, Happening
<1> QED BY <1>1, <1>3, <1>4, <1>5, <1>6, AuthorizeStepHappens

LEMMA DisposeStepHappens ==
    ASSUME Promising, NEW restored \in BOOLEAN, At(IF restored THEN "restore" ELSE "reject"),
           DisposeStep(restored)
    PROVE  Happening /\ DiskHolds
<1> DEFINE decision == IF restored THEN "ABORTED" ELSE op.decision
<1>1. /\ op.txn \in Txn /\ decision \in NonCommits
      /\ tx[op.txn].state \in (IF restored THEN CrossingStates ELSE OpenStates)
  BY Disposing DEF Promising
<1>2. UNCHANGED logVars \/ NON_COMMIT_DISPOSITIONED(op.txn, decision, restored)
  BY DEF DisposeStep
<1> HIDE DEF decision
<1>3. Happening
  BY <1>1, <1>2, NothingHappens DEF Happening, logVars, projected
<1> QED BY <1>3, DiskHeld DEF DisposeStep

LEMMA FinishIntentStepHappens ==
    ASSUME Promising, FinishIntentStep
    PROVE  Happening /\ DiskHolds
<1>1. LogInv /\ pending \subseteq Intent
  BY DEF Promising, Charting, Inductive, LogInv, LogTypeOK
<1>2. CASE UNCHANGED projected /\ UNCHANGED <<workspace, proposal>>
  BY <1>2, NothingHappens, DiskHeld
<1>3. pending = {} => UNCHANGED <<projected, workspace, proposal>>
  BY DEF FinishIntentStep, logVars, projected, disk
<1>4. ASSUME NEW intent \in pending, intent.kind = "seal", FinishSeal(intent)
      PROVE  Happening /\ DiskHolds
  <2>1. intent.txn \in Txn
    BY <1>1, <1>4, IntentParts
  <2>2. Moving = {}
    BY <1>4 DEF Promising, PromiseFits, LogPromise, OneIntent, Moving
  <2>3. UNCHANGED <<workspace, proposal>>
    BY <1>4 DEF FinishSeal, disk
  <2>4. UNCHANGED projected \/ PROPOSAL_SEALED(intent.txn, proposal[intent.txn], intent.clean)
    BY <1>4 DEF FinishSeal, logVars, projected
  <2> QED BY <2>1, <2>2, <2>3, <2>4, NothingHappens, Opens, DiskHeld DEF Opening
<1>5. ASSUME NEW intent \in pending, intent.kind = "export", FinishExport(intent)
      PROVE  Happening /\ DiskHolds
  <2>1. intent.txn \in Txn
    BY <1>1, <1>5, IntentParts
  <2>2. UNCHANGED <<workspace, proposal>>
    BY <1>5 DEF FinishExport, disk
  <2>3. UNCHANGED projected \/ PROPOSAL_EXPORTED(intent.txn)
    BY <1>5 DEF FinishExport, logVars, projected
  <2> QED BY <2>1, <2>2, <2>3, NothingHappens, Opens, DiskHeld DEF Opening
<1>6. ASSUME NEW intent \in pending, intent.kind \in {"platform", "archive"}
      PROVE  ~archived
  BY <1>6 DEF Promising, PromiseFits, LogPromise, Apart, Moving
<1>7. ASSUME NEW intent \in pending, intent.kind = "platform", FinishPlatformRegeneration(intent)
      PROVE  Happening /\ DiskHolds
  <2>1. UNCHANGED proposal
    BY <1>7 DEF FinishPlatformRegeneration, disk
  <2>2. UNCHANGED logVars => Happening
    BY NothingHappens DEF logVars, projected
  <2>3. head = intent.base /\ PLATFORM_STATE_REGENERATED(intent.view) => Happening
    BY <1>7 DEF Happening
  <2>4. Happening
    BY <1>7, <2>2, <2>3 DEF FinishPlatformRegeneration
  <2> QED BY <1>6, <1>7, <2>1, <2>4, DiskHeld
<1>8. ASSUME NEW intent \in pending, intent.kind = "archive", FinishArchive(intent)
      PROVE  Happening /\ DiskHolds
  <2>1. UNCHANGED proposal
    BY <1>8 DEF FinishArchive, disk
  <2>2. UNCHANGED projected \/ (AGENT_ARCHIVED /\ UNCHANGED workspace /\ workspace = None)
    BY <1>8 DEF FinishArchive, logVars, projected, disk
  <2>3. None \notin Tree
    BY LogAssumption DEF Tree
  <2>4. Happening
    BY <1>8, <2>2, <2>3, NothingHappens DEF Happening
  <2> QED BY <1>6, <1>8, <2>1, <2>4, DiskHeld
<1>9. CASE pending = {}
  BY <1>2, <1>3, <1>9
<1>10. CASE pending # {}
  <2>1. PICK intent \in pending :
          \/ intent.kind = "seal" /\ FinishSeal(intent)
          \/ intent.kind = "export" /\ FinishExport(intent)
          \/ intent.kind = "platform" /\ FinishPlatformRegeneration(intent)
          \/ intent.kind = "archive" /\ FinishArchive(intent)
    BY <1>10 DEF FinishIntentStep
  <2> QED BY <1>4, <1>5, <1>7, <1>8, <2>1
<1> QED BY <1>9, <1>10

LEMMA StepHappens ==
    ASSUME Promising, Step
    PROVE  Happening /\ DiskHolds
<1>1. RejectStep => At(IF FALSE THEN "restore" ELSE "reject") /\ DisposeStep(FALSE)
  BY DEF RejectStep
<1>2. RestoreStep => At(IF TRUE THEN "restore" ELSE "reject") /\ DisposeStep(TRUE)
  BY DEF RestoreStep
<1>3. RejectStep \/ RestoreStep => Happening /\ DiskHolds
  BY <1>1, <1>2, DisposeStepHappens
<1> QED BY <1>3, QuietStepHappens, EventStepHappens, FinishIntentStepHappens DEF Step

\* A compare-and-set succeeds on a workspace that is there.
LEMMA CasUnarchived ==
    ASSUME Promising, NEW view \in View, CurrentCas(view)
    PROVE  ~archived
<1>1. Empty \notin Tree
  BY WorkerAssumption
<1> QED BY <1>1 DEF CurrentCas, Materialized, View, Promising, PromiseFits, DiskPromise

LEMMA RequestHappens ==
    ASSUME Promising, NEW t \in Txn, Request(t)
    PROVE  Happening /\ DiskHolds
<1>1. DiskHolds
  <2>1. UNCHANGED proposal /\ workspace' \in {workspace, Materialized}
    BY DEF Request, PrepareRun, CancelRun, SealProposal, ExportProposal, RecordRuntimeTeardown,
         RecordEvidence, IssuePermit, ApplyPromotion, PromotionCasConflict, Prepare, ApplyRollback,
         DisposeRun, DisposeReplay, RepairRollback, RepairForward, RepairRequest, disk
  <2> QED BY <2>1, DiskHeld
<1>2. CASE UNCHANGED logVars
  BY <1>1, <1>2, NothingHappens DEF logVars, projected
<1>3. CancelRun(t) \/ IssuePermit(t) => Happening
  BY Opens DEF CancelRun, IssuePermit, Opening
<1>4. ASSUME NEW scope \in {"AGENT", "ALL"}, RecordRuntimeTeardown(t, scope) PROVE Happening
  BY <1>4, Opens DEF RecordRuntimeTeardown, Opening
<1>5. ASSUME NEW passed \in BOOLEAN, RecordEvidence(t, passed) PROVE Happening
  BY <1>5, Opens DEF RecordEvidence, Opening
<1>6. ExportProposal(t) => Happening
  <2> HAVE ExportProposal(t)
  <2> DEFINE intent == [kind |-> "export", txn |-> t, clean |-> TRUE]
  <2>1. INTENT_PREPARED(intent) /\ pending = {} /\ intent.kind = "export"
    BY DEF ExportProposal
  <2> HIDE DEF intent
  <2> QED BY <2>1 DEF Happening
<1>7. Prepare(t) => Happening
  <2> HAVE Prepare(t)
  <2>1. \A u \in Txn : ~Live(u)
    BY DEF Prepare, Admissible, Live, Promising
  <2> QED BY <2>1 DEF Prepare, Happening
<1>8. ApplyPromotion(t) => Happening
  <2> HAVE ApplyPromotion(t)
  <2>1. PERMIT_CONSUMING(t, NextView(t, tx[t].artifact, 0)) /\ tx[t].base = head
    BY DEF ApplyPromotion, CurrentCas
  <2>2. tx[t].artifact \in Tree /\ proposal[t] = tx[t].artifact
    <3>1. FactsFit(t, tx[t]) /\ tx[t].state = "PERMITTED"
      BY RecordAt DEF ApplyPromotion, HoldsPermit, Promising, Charting, Inductive
    <3> QED BY <3>1 DEF FactsFit, Sealed, ApplyPromotion
  <2>3. IsRun(t)
    BY <2>2, LogAssumption DEF IsRun, Promising, PromiseFits, DiskPromise, Tree
  <2>4. ~archived
    <3>1. tx[t].base \in View /\ CurrentCas(tx[t].base)
      BY <2>1 DEF ApplyPromotion, Promising, Charting, Inductive, LogInv, LogTypeOK
    <3> QED BY <3>1, CasUnarchived
  <2> QED BY <2>1, <2>3, <2>4 DEF Happening
<1>9. \/ UNCHANGED logVars \/ CancelRun(t) \/ IssuePermit(t) \/ ExportProposal(t) \/ Prepare(t) \/ ApplyPromotion(t)
      \/ \E scope \in {"AGENT", "ALL"} : RecordRuntimeTeardown(t, scope)
      \/ \E passed \in BOOLEAN : RecordEvidence(t, passed)
  BY DEF Request, PrepareRun, SealProposal, PromotionCasConflict, ApplyRollback,
         DisposeRun, DisposeReplay, RepairRollback, RepairForward, RepairRequest
<1> QED BY <1>1, <1>2, <1>3, <1>4, <1>5, <1>6, <1>7, <1>8, <1>9

LEMMA Happens ==
    ASSUME Promising, [Next]_vars
    PROVE  Happening /\ DiskHolds
<1>1. CASE UNCHANGED <<projected, workspace, proposal>>
  BY <1>1, NothingHappens, DiskHeld DEF projected
<1>2. UNCHANGED vars \/ RecoverPendingWorkerIntents \/ RecoverAgent \/ Start \/ Crash \/ InitializeThrows =>
        UNCHANGED <<projected, workspace, proposal>>
  BY DEF vars, RecoverPendingWorkerIntents, RecoverAgent, Start, BeginRecovery, Crash, InitializeThrows,
         logVars, projected, disk
<1>11. Sweep => Happening /\ DiskHolds
  BY ProposalDropped DEF Sweep, logVars, projected, Promising, Charting, Inductive, DiskTypeOK
<1>3. ASSUME NEW t \in Txn, NEW tree \in Tree, AgentEdits(t, tree)
      PROVE  UNCHANGED <<projected, workspace, proposal>>
  BY <1>3 DEF AgentEdits, logVars, projected
<1>4. CurrentCas(head) => ~archived
  BY CasUnarchived DEF Promising, Charting, Inductive, LogInv, LogTypeOK
<1>5. Admissible => \A u \in Txn : ~Live(u)
  BY DEF Admissible, Live, Promising
<1>6. ASSUME NEW p \in Platform, RegeneratePlatformState(p) PROVE Happening /\ DiskHolds
  <2> DEFINE intent == [kind |-> "platform", base |-> head,
                        view |-> [ver |-> head.ver, gen |-> head.gen + 1, tree |-> [workspace EXCEPT !.p = p],
                                  epoch |-> head.epoch + 1, cfg |-> head.cfg + 1]]
  <2>1. INTENT_PREPARED(intent) /\ pending = {} /\ UNCHANGED <<workspace, proposal>>
    BY <1>6 DEF RegeneratePlatformState
  <2>2. ~Still /\ ~archived /\ \A u \in Txn : ~Live(u)
    BY <1>4, <1>5, <1>6 DEF RegeneratePlatformState, Still
  <2> HIDE DEF intent
  <2> QED BY <2>1, <2>2, DiskHeld DEF Happening
<1>7. ArchiveAgent => Happening /\ DiskHolds
  <2> HAVE ArchiveAgent
  <2> DEFINE intent == [kind |-> "archive", view |-> head]
  <2>1. INTENT_PREPARED(intent) /\ pending = {} /\ UNCHANGED <<workspace, proposal>>
    BY DEF ArchiveAgent, disk
  <2>2. ~Still /\ ~archived /\ \A u \in Txn : ~Live(u)
    BY <1>5 DEF ArchiveAgent, Still
  <2> HIDE DEF intent
  <2> QED BY <2>1, <2>2, DiskHeld DEF Happening
<1>8. ProbeWorkspace => Happening /\ DiskHolds
  BY NothingHappens, DiskHeld DEF ProbeWorkspace, logVars, projected
<1>9. ASSUME NEW tree \in Tree, Drift(tree) PROVE Happening /\ DiskHolds
  <2>1. UNCHANGED <<projected, proposal>> /\ workspace \in Tree
    BY <1>9 DEF Drift, logVars, projected
  <2>2. ~archived
    BY <2>1 DEF Promising, PromiseFits, DiskPromise
  <2> QED BY <2>1, <2>2, NothingHappens, DiskHeld
<1>10. Fault => Happening /\ DiskHolds
  <2> HAVE Fault
  <2>1. UNCHANGED <<projected, proposal>>
    BY DEF Fault, logVars, projected
  <2>2. Head(op.plan) = "swap" => ~archived
    BY Shifting DEF Fault, At
  <2>3. UNCHANGED workspace \/ ~archived
    BY <2>2 DEF Fault
  <2> QED BY <2>1, <2>3, NothingHappens, DiskHeld
<1> QED BY <1>1, <1>2, <1>3, <1>6, <1>7, <1>8, <1>9, <1>10, <1>11, StepHappens, RequestHappens DEF Next

LEMMA DiskKept ==
    ASSUME Promising, Happening, DiskHolds
    PROVE  DiskPromise'
<1>1. archived' = archived \/ workspace' \notin Tree
  BY DEF Happening, Turned, INTENT_PREPARED, TRANSITION_PREPARED, PERMIT_CONSUMING, WORKSPACE_APPLIED,
         REPAIR_APPLIED, TRANSITION_ACKNOWLEDGED, NON_COMMIT_DISPOSITIONED, PLATFORM_STATE_REGENERATED,
         Fold, projected
<1> QED BY <1>1 DEF DiskHolds, DiskPromise

LEMMA QueueKept ==
    ASSUME Promising, Going
    PROVE  QueuePromise'
<1>1. CASE op'.kind \notin {"seal", "repair", "recover"}
  BY <1>1 DEF QueuePromise
<1>2. CASE op' = op /\ UNCHANGED <<tx, pending>>
  BY <1>2 DEF QueuePromise, Promising, PromiseFits, Crossing, First
<1>3. CASE op' = op /\ First({"finishIntent"})
  <2>1. op.plan # <<>> /\ Head(op.plan) = "finishIntent"
    BY <1>3 DEF First
  <2>2. op.kind # "repair"
    BY <2>1, Succession DEF Follows, Promising, Charting, Inductive
  <2>3. op.kind = "seal" => IsRun(op.txn)
    BY DEF QueuePromise, Promising, PromiseFits
  <2> QED BY <1>3, <2>1, <2>2, <2>3 DEF QueuePromise, First, SealSteps
<1>4. CASE /\ op.plan # <<>> /\ op'.plan # <<>> /\ op'.kind = op.kind /\ op'.txn = op.txn
           /\ Follows(op.kind, Head(op.plan), Head(op'.plan))
           /\ op.kind = "repair" => UNCHANGED tx
           /\ Head(op.plan) = "importProposal" => UNCHANGED pending
  <2>1. op.kind = "seal" /\ Head(op'.plan) \in SealSteps => pending' = {}
    BY <1>4 DEF Follows, SealSteps, First, QueuePromise, Promising, PromiseFits
  <2>2. op.kind = "recover" => Head(op'.plan) # "reinstate"
    BY <1>4 DEF Follows
  <2> QED BY <1>4, <2>1, <2>2 DEF QueuePromise, Promising, PromiseFits, Crossing, First
<1>5. CASE op'.kind = "seal" /\ IsRun(op'.txn) /\ pending' = {}
  BY <1>5 DEF QueuePromise
<1>6. CASE op'.kind = "repair" /\ Crossing(op'.txn) /\ UNCHANGED tx
  BY <1>6 DEF QueuePromise, Crossing
<1>7. CASE /\ op'.kind = "recover" /\ op'.plan # <<>>
           /\ Head(op'.plan) = "reinstate" => Crossing(op'.txn) /\ UNCHANGED tx
  BY <1>7 DEF QueuePromise, Crossing, First
<1> QED BY <1>1, <1>2, <1>3, <1>4, <1>5, <1>6, <1>7 DEF Going

\* The record of the only live transition changes.
LEMMA Recorded ==
    ASSUME Promising, NEW t \in Txn, NEW x, Update(t, x), UNCHANGED <<pending, archived>>,
           Live(t) \/ \A u \in Txn : ~Live(u),
           x.state \in CrossingStates => x.next = Committing(t, x) /\ ~archived /\ Moving = {},
           x.state = "CONSUMING" => x.base = head',
           x.state = "APPLIED" => x.next = head',
           x.state \in OpenStates => x.state = "PREPARED"
    PROVE  LogPromise'
<1>1. tx'[t] = x /\ \A u \in Txn \ {t} : tx'[u] = tx[u] /\ ~Live(u) /\ ~Live(u)'
  BY OnlyLive DEF Promising, Charting, Inductive, ChainFits
<1>2. Moving' = Moving
  BY DEF Moving
<1>3. CrossingFits'
  BY <1>1 DEF CrossingFits, Crossing, Live, CrossingStates
<1>4. OneIntent'
  BY DEF OneIntent, Promising, PromiseFits, LogPromise
<1>5. Apart'
  BY <1>1, <1>2 DEF Apart, Promising, PromiseFits, LogPromise, Live, Crossing
<1> QED BY <1>3, <1>4, <1>5 DEF LogPromise

LEMMA TurnedPromises ==
    ASSUME Promising, Turned(Moving = {})
    PROVE  LogPromise'
<1>1. /\ pending' \subseteq pending /\ Moving' \subseteq Moving /\ head' = head /\ archived' = archived
      /\ \A u \in Txn :
          \/ /\ tx'[u].state = tx[u].state /\ tx'[u].base = tx[u].base /\ tx'[u].next = tx[u].next
             /\ tx'[u].artifact = tx[u].artifact
          \/ tx[u].state \in OpenStates /\ tx'[u].state \in OpenStates
  BY DEF Turned, Unmoved, Moving
<1>2. \A u \in Txn : (Crossing(u)' <=> Crossing(u)) /\ (Live(u)' <=> Live(u))
  BY <1>1 DEF Crossing, Live, OpenStates, CrossingStates
<1>3. CrossingFits'
  <2> SUFFICES ASSUME NEW u \in Txn
               PROVE  /\ Crossing(u)' => tx'[u].next = Committing(u, tx'[u])
                      /\ tx'[u].state = "CONSUMING" => tx'[u].base = head'
                      /\ tx'[u].state = "APPLIED" => tx'[u].next = head'
    BY DEF CrossingFits, Committing
  <2>1. CASE ~Crossing(u)'
    BY <2>1 DEF Crossing, CrossingStates
  <2>2. CASE Crossing(u)'
    <3>1. /\ tx'[u].state = tx[u].state /\ tx'[u].base = tx[u].base /\ tx'[u].next = tx[u].next
          /\ tx'[u].artifact = tx[u].artifact /\ Crossing(u)
      BY <1>1, <1>2, <2>2 DEF Crossing, OpenStates, CrossingStates
    <3>2. Committing(u, tx'[u]) = Committing(u, tx[u])
      BY <3>1 DEF Committing
    <3> QED BY <1>1, <3>1, <3>2 DEF CrossingFits, Promising, PromiseFits, LogPromise
  <2> QED BY <2>1, <2>2
<1>4. OneIntent'
  BY <1>1 DEF OneIntent, Promising, PromiseFits, LogPromise
<1>5. Moving' # {} => \A u \in Txn : Live(u)' => tx'[u].state \in {"PREPARED", "CANCELLED"}
  <2> SUFFICES ASSUME Moving' # {}, NEW u \in Txn, Live(u)' PROVE tx'[u].state \in {"PREPARED", "CANCELLED"}
    OBVIOUS
  <2>1. Moving # {} /\ tx[u].state \in {"PREPARED", "CANCELLED"}
    BY <1>1, <1>2 DEF Apart, Promising, PromiseFits, LogPromise
  <2> QED BY <2>1 DEF Turned
<1>6. Apart'
  BY <1>1, <1>2, <1>5 DEF Apart, Promising, PromiseFits, LogPromise
<1> QED BY <1>3, <1>4, <1>6 DEF LogPromise

LEMMA IntentPromises ==
    ASSUME Promising, NEW intent, INTENT_PREPARED(intent), pending = {},
           intent.kind \in {"platform", "archive"} => ~Still /\ ~archived /\ \A u \in Txn : ~Live(u)
    PROVE  LogPromise'
<1>1. pending' = {intent} /\ UNCHANGED <<head, tx, archived>>
  BY DEF INTENT_PREPARED
<1>2. CrossingFits'
  BY <1>1 DEF CrossingFits, Crossing, Promising, PromiseFits, LogPromise
<1>3. Moving' # {} => ~Still /\ ~archived /\ \A u \in Txn : ~Live(u)
  BY <1>1 DEF Moving
<1>4. Apart'
  BY <1>1, <1>3 DEF Apart, Live, Crossing, Promising, PromiseFits, LogPromise
<1> QED BY <1>1, <1>2, <1>4 DEF LogPromise, OneIntent

\* A regeneration or an archival happens with nothing on the crossing.
LEMMA Shifted ==
    ASSUME Promising, NEW intent \in pending, intent.kind \in {"platform", "archive"}
    PROVE  /\ Moving # {} /\ ~Still /\ ~archived /\ pending = {intent}
           /\ \A u \in Txn : ~Crossing(u)
<1>1. Moving # {}
  BY DEF Moving
<1> QED BY <1>1 DEF Promising, PromiseFits, LogPromise, Apart, OneIntent, Live, Crossing, CrossingStates

LEMMA ShiftPromises ==
    ASSUME Promising, NEW intent \in pending,
           \/ intent.kind = "platform" /\ PLATFORM_STATE_REGENERATED(intent.view)
           \/ intent.kind = "archive" /\ AGENT_ARCHIVED
    PROVE  LogPromise'
<1>1. ~Still /\ pending = {intent} /\ \A u \in Txn : ~Crossing(u)
  BY Shifted
<1>2. UNCHANGED tx /\ pending' = {}
  BY <1>1 DEF PLATFORM_STATE_REGENERATED, AGENT_ARCHIVED, Without, Completing
<1>3. \A u \in Txn : ~Crossing(u)'
  BY <1>1, <1>2 DEF Crossing
<1>4. Moving' = {}
  BY <1>2 DEF Moving
<1> QED BY <1>1, <1>2, <1>3, <1>4 DEF LogPromise, CrossingFits, Crossing, CrossingStates, OneIntent, Apart

LEMMA ConsumingPromises ==
    ASSUME Promising, ~corrupt', NEW t \in Txn, tx[t].base = head, ~archived,
           PERMIT_CONSUMING(t, NextView(t, tx[t].artifact, IF IsRun(t) THEN 0 ELSE 1))
    PROVE  LogPromise'
<1> DEFINE next == NextView(t, tx[t].artifact, IF IsRun(t) THEN 0 ELSE 1)
           x == [tx[t] EXCEPT !.state = "CONSUMING", !.permit = "CONSUMING", !.next = next]
<1>1. tx[t].permit = "ISSUED" /\ Update(t, x) /\ UNCHANGED <<head, pending, archived>>
  BY DEF PERMIT_CONSUMING, Fold
<1>2. tx[t] \in Transition /\ tx[t].state = "PERMITTED" /\ head \in View
  BY <1>1, RecordAt DEF Promising, Charting, Inductive, PermitFits, LogInv, LogTypeOK
<1>3. x.state = "CONSUMING" /\ x.base = head /\ x.artifact = tx[t].artifact /\ x.next = next
  BY <1>2 DEF Transition
<1>4. next = Committing(t, x)
  <2>1. head.epoch + 0 = head.epoch
    BY <1>2, ViewFields
  <2> HIDE DEF x
  <2> QED BY <1>3, <2>1 DEF NextView, Committing
<1>5. Live(t) /\ Moving = {}
  BY <1>2 DEF Live, OpenStates, Promising, PromiseFits, LogPromise, Apart
<1> HIDE DEF x, next
<1> QED BY <1>1, <1>3, <1>4, <1>5, Recorded DEF OpenStates

LEMMA PreparedPromises ==
    ASSUME Promising, ~corrupt', NEW t \in Txn, TRANSITION_PREPARED(t), \A u \in Txn : ~Live(u)
    PROVE  LogPromise'
<1> DEFINE x == [Unprepared EXCEPT !.state = "PREPARED", !.base = head]
<1>1. Update(t, x) /\ UNCHANGED <<pending, archived>>
  BY DEF TRANSITION_PREPARED, Fold
<1>2. x.state = "PREPARED"
  BY DEF Unprepared
<1> HIDE DEF x
<1> QED BY <1>1, <1>2, Recorded DEF CrossingStates

LEMMA AppliedPromises ==
    ASSUME Promising, ~corrupt', NEW t \in Txn, WORKSPACE_APPLIED(t)
    PROVE  LogPromise'
<1> DEFINE x == [tx[t] EXCEPT !.state = "APPLIED"]
<1>1. /\ tx[t].state \in {"CONSUMING", "REPAIRED"} /\ Update(t, x) /\ head' = tx[t].next
      /\ UNCHANGED <<pending, archived>>
  BY DEF WORKSPACE_APPLIED, Fold
<1>2. tx[t] \in Transition
  BY RecordAt DEF Promising, Charting, Inductive
<1>3. /\ x.state = "APPLIED" /\ x.base = tx[t].base /\ x.artifact = tx[t].artifact
      /\ x.next = tx[t].next
  BY <1>2 DEF Transition
<1>4. Crossing(t) /\ Live(t)
  BY <1>1 DEF Crossing, CrossingStates, Live
<1>5. Moving = {} /\ ~archived /\ tx[t].next = Committing(t, tx[t])
  BY <1>1, <1>4 DEF Promising, PromiseFits, LogPromise, Apart, CrossingFits
<1> HIDE DEF x
<1>6. x.next = Committing(t, x)
  BY <1>3, <1>5 DEF Committing
<1> QED BY <1>1, <1>3, <1>4, <1>5, <1>6, Recorded DEF OpenStates

LEMMA RepairedPromises ==
    ASSUME Promising, ~corrupt', NEW t \in Txn, REPAIR_APPLIED(t), Crossing(t)
    PROVE  LogPromise'
<1> DEFINE x == [tx[t] EXCEPT !.state = "REPAIRED"]
<1>1. Update(t, x) /\ UNCHANGED <<pending, archived>>
  BY DEF REPAIR_APPLIED, Fold
<1>2. tx[t] \in Transition
  BY RecordAt DEF Promising, Charting, Inductive
<1>3. /\ x.state = "REPAIRED" /\ x.base = tx[t].base /\ x.artifact = tx[t].artifact
      /\ x.next = tx[t].next
  BY <1>2 DEF Transition
<1>4. Live(t) /\ tx[t].state \notin {"PREPARED", "CANCELLED"}
  BY DEF Crossing, CrossingStates, Live
<1>5. Moving = {} /\ ~archived /\ tx[t].next = Committing(t, tx[t])
  BY <1>4 DEF Promising, PromiseFits, LogPromise, Apart, CrossingFits
<1> HIDE DEF x
<1>6. x.next = Committing(t, x)
  BY <1>3, <1>5 DEF Committing
<1> QED BY <1>1, <1>3, <1>4, <1>5, <1>6, Recorded DEF OpenStates

\* A decision leaves nothing open.
LEMMA DecidedPromises ==
    ASSUME Promising, ~corrupt', NEW t \in Txn,
           \/ TRANSITION_ACKNOWLEDGED(t)
           \/ /\ Live(t)
              /\ \E decision, restored : NON_COMMIT_DISPOSITIONED(t, decision, restored)
    PROVE  LogPromise'
<1>1. tx[t] \in Transition
  BY RecordAt DEF Promising, Charting, Inductive
<1>2. ASSUME NEW x, Update(t, x), UNCHANGED <<pending, archived>>, Live(t), x.state \in Terminal
      PROVE  LogPromise'
  BY <1>2, Recorded DEF Terminal, CrossingStates, OpenStates
<1>3. CASE TRANSITION_ACKNOWLEDGED(t)
  <2> DEFINE x == [tx[t] EXCEPT !.state = "ACKNOWLEDGED", !.permit = IF @ = "NONE" THEN @ ELSE "CONSUMED"]
  <2>1. Update(t, x) /\ UNCHANGED <<pending, archived>> /\ Live(t)
    BY <1>3 DEF TRANSITION_ACKNOWLEDGED, Fold, Live, CrossingStates
  <2>2. x.state \in Terminal
    BY <1>1 DEF Transition, Terminal
  <2> HIDE DEF x
  <2> QED BY <1>2, <2>1, <2>2
<1>4. ASSUME NEW decision, NEW restored, NON_COMMIT_DISPOSITIONED(t, decision, restored), Live(t)
      PROVE  LogPromise'
  <2> DEFINE x == [tx[t] EXCEPT !.state = "ROLLED_BACK", !.permit = IF @ = "NONE" THEN @ ELSE "REVOKED"]
  <2>1. Update(t, x) /\ UNCHANGED <<pending, archived>>
    BY <1>4 DEF NON_COMMIT_DISPOSITIONED, Fold
  <2>2. x.state \in Terminal
    BY <1>1 DEF Transition, Terminal
  <2> HIDE DEF x
  <2> QED BY <1>2, <1>4, <2>1, <2>2
<1> QED BY <1>3, <1>4

LEMMA LogPromiseKept ==
    ASSUME Promising, ~corrupt', Happening
    PROVE  LogPromise'
<1>1. ASSUME NEW t \in Txn, NEW decision \in NonCommits, NEW restored \in BOOLEAN,
             NON_COMMIT_DISPOSITIONED(t, decision, restored),
             tx[t].state \in (IF restored THEN CrossingStates ELSE OpenStates)
      PROVE  LogPromise'
  <2>1. Live(t)
    BY <1>1 DEF Live
  <2> QED BY <1>1, <2>1, DecidedPromises
<1>2. ASSUME NEW t \in Txn,
             \/ TRANSITION_PREPARED(t) /\ \A u \in Txn : ~Live(u)
             \/ /\ PERMIT_CONSUMING(t, NextView(t, tx[t].artifact, IF IsRun(t) THEN 0 ELSE 1))
                /\ tx[t].base = head /\ ~archived
             \/ WORKSPACE_APPLIED(t)
             \/ REPAIR_APPLIED(t) /\ Crossing(t)
             \/ TRANSITION_ACKNOWLEDGED(t)
      PROVE  LogPromise'
  BY <1>2, PreparedPromises, ConsumingPromises, AppliedPromises, RepairedPromises, DecidedPromises
<1> QED BY <1>1, <1>2, TurnedPromises, IntentPromises, ShiftPromises DEF Happening

LEMMA PromiseKept ==
    ASSUME Promising, ~corrupt', [Next]_vars
    PROVE  PromiseFits'
BY Happens, Goes, LogPromiseKept, DiskKept, QueueKept DEF PromiseFits, Promising

LEMMA InitPromises == Init => PromiseFits
<1> SUFFICES ASSUME Init PROVE PromiseFits
  OBVIOUS
<1>1. \A t \in Txn : tx[t].state = "NONE"
  BY DEF Init, LogInit, Unprepared
<1>2. pending = {} /\ archived = FALSE /\ op = Idle /\ \A t \in Txn : proposal[t] = None
  BY DEF Init, LogInit
<1>3. LogPromise
  BY <1>1, <1>2 DEF LogPromise, CrossingFits, OneIntent, Apart, Moving, Crossing, CrossingStates
<1>4. DiskPromise /\ QueuePromise
  BY <1>2, LogAssumption DEF DiskPromise, QueuePromise, Idle
<1> QED BY <1>3, <1>4 DEF PromiseFits

\* HEAD as the receipts know it, in these records.
AcknowledgedIn(records, moved) ==
    IF \E t \in Txn : records[t].state \in {"APPLIED", "REPAIRED"}
    THEN records[CHOOSE t \in Txn : records[t].state \in {"APPLIED", "REPAIRED"}].base
    ELSE moved

LEMMA AcknowledgedNone ==
    ASSUME NEW records, NEW moved, \A t \in Txn : records[t].state \notin {"APPLIED", "REPAIRED"}
    PROVE  AcknowledgedIn(records, moved) = moved
BY DEF AcknowledgedIn

LEMMA AcknowledgedOne ==
    ASSUME NEW records, NEW moved, NEW t \in Txn, records[t].state \in {"APPLIED", "REPAIRED"},
           \A u \in Txn \ {t} : records[u].state \notin {"APPLIED", "REPAIRED"}
    PROVE  AcknowledgedIn(records, moved) = records[t].base
<1>1. \A u \in Txn : records[u].state \in {"APPLIED", "REPAIRED"} <=> u = t
  OBVIOUS
<1>2. (CHOOSE u \in Txn : records[u].state \in {"APPLIED", "REPAIRED"}) = t
  BY <1>1
<1> QED BY <1>2 DEF AcknowledgedIn

LEMMA HeadNow ==
    ASSUME Promising
    PROVE  /\ (\A u \in Txn : ~Crossing(u)) => AcknowledgedHead = head
           /\ \A t \in Txn : Crossing(t) => AcknowledgedHead = tx[t].base
<1>1. AcknowledgedHead = AcknowledgedIn(tx, head)
  BY DEF AcknowledgedHead, AcknowledgedIn
<1>2. (\A u \in Txn : ~Crossing(u)) => AcknowledgedHead = head
  BY <1>1, AcknowledgedNone DEF Crossing, CrossingStates
<1>3. ASSUME NEW t \in Txn, Crossing(t) PROVE AcknowledgedHead = tx[t].base
  <2>1. \A u \in Txn \ {t} : ~Crossing(u)
    BY <1>3 DEF Promising, Charting, ChainFits, OneLive, Live, Crossing
  <2>2. CASE tx[t].state = "CONSUMING"
    <3>1. \A u \in Txn : tx[u].state \notin {"APPLIED", "REPAIRED"}
      BY <2>1, <2>2 DEF Crossing, CrossingStates
    <3>2. tx[t].base = head
      BY <2>2 DEF Promising, PromiseFits, LogPromise, CrossingFits
    <3> QED BY <1>1, <3>1, <3>2, AcknowledgedNone
  <2>3. CASE tx[t].state \in {"APPLIED", "REPAIRED"}
    BY <1>1, <2>1, <2>3, AcknowledgedOne DEF Crossing, CrossingStates
  <2> QED BY <1>3, <2>2, <2>3 DEF Crossing, CrossingStates
<1> QED BY <1>2, <1>3

\* ... once the record of the only live transition has changed.
LEMMA HeadNext ==
    ASSUME Promising, NEW t \in Txn, NEW x, Update(t, x), Live(t) \/ \A u \in Txn : ~Live(u)
    PROVE  AcknowledgedHead' = IF x.state \in {"APPLIED", "REPAIRED"} THEN x.base ELSE head'
<1>1. AcknowledgedHead' = AcknowledgedIn(tx', head')
  BY DEF AcknowledgedHead, AcknowledgedIn
<1>2. tx'[t] = x /\ \A u \in Txn \ {t} : ~Live(u)'
  BY OnlyLive DEF Promising, Charting, Inductive, ChainFits
<1>3. \A u \in Txn \ {t} : tx'[u].state \notin {"APPLIED", "REPAIRED"}
  BY <1>2 DEF Live, CrossingStates
<1> QED BY <1>1, <1>2, <1>3, AcknowledgedNone, AcknowledgedOne

LEMMA HeadUnmoved ==
    ASSUME Promising, Unmoved
    PROVE  AcknowledgedHead' = AcknowledgedHead
<1>1. AcknowledgedHead' = AcknowledgedIn(tx', head') /\ head' = head
  BY DEF AcknowledgedHead, AcknowledgedIn, Unmoved
<1>2. \A u \in Txn : /\ tx'[u].state \in {"APPLIED", "REPAIRED"} <=> tx[u].state \in {"APPLIED", "REPAIRED"}
                     /\ tx[u].state \in {"APPLIED", "REPAIRED"} => tx'[u].base = tx[u].base
  BY DEF Unmoved, OpenStates
<1>3. AcknowledgedHead = AcknowledgedIn(tx, head)
  BY DEF AcknowledgedHead, AcknowledgedIn
<1>4. CASE \E u \in Txn : tx[u].state \in {"APPLIED", "REPAIRED"}
  <2>1. PICK t \in Txn : tx[t].state \in {"APPLIED", "REPAIRED"}
    BY <1>4
  <2>2. \A u \in Txn \ {t} : tx[u].state \notin {"APPLIED", "REPAIRED"}
    BY <2>1 DEF Promising, Charting, ChainFits, OneLive, Live, CrossingStates
  <2>3. AcknowledgedHead = tx[t].base
    BY <1>3, <2>1, <2>2, AcknowledgedOne
  <2>4. /\ tx'[t].state \in {"APPLIED", "REPAIRED"} /\ tx'[t].base = tx[t].base
        /\ \A u \in Txn \ {t} : tx'[u].state \notin {"APPLIED", "REPAIRED"}
    BY <1>2, <2>1, <2>2
  <2>5. AcknowledgedHead' = tx'[t].base
    BY <1>1, <2>4, AcknowledgedOne
  <2> QED BY <2>3, <2>4, <2>5
<1>5. CASE \A u \in Txn : tx[u].state \notin {"APPLIED", "REPAIRED"}
  BY <1>1, <1>2, <1>3, <1>5, AcknowledgedNone
<1> QED BY <1>4, <1>5

\* The decision these receipts hold.
DecisionIn(rcpts, t) ==
    IF \E i \in DOMAIN rcpts : rcpts[i].txn = t
    THEN rcpts[CHOOSE i \in DOMAIN rcpts : rcpts[i].txn = t].decision
    ELSE "OPEN"

LEMMA DecisionAppended ==
    ASSUME NEW rcpts \in Seq(Receipt), NEW rcpt \in Receipt,
           \A i, j \in DOMAIN rcpts : rcpts[i].txn = rcpts[j].txn => i = j,
           \A i \in DOMAIN rcpts : rcpts[i].txn # rcpt.txn
    PROVE  \A t \in Txn : DecisionIn(Append(rcpts, rcpt), t) =
                            IF t = rcpt.txn THEN rcpt.decision ELSE DecisionIn(rcpts, t)
<1> DEFINE longer == Append(rcpts, rcpt)
<1>1. /\ Len(rcpts) \in Nat /\ DOMAIN rcpts = 1..Len(rcpts) /\ DOMAIN longer = 1..(Len(rcpts) + 1)
      /\ longer[Len(rcpts) + 1] = rcpt /\ \A i \in DOMAIN rcpts : longer[i] = rcpts[i]
  OBVIOUS
<1> HIDE DEF longer
<1>2. \A i \in DOMAIN longer : i \in DOMAIN rcpts \/ i = Len(rcpts) + 1
  BY <1>1
<1>3. DOMAIN rcpts \subseteq DOMAIN longer /\ Len(rcpts) + 1 \in DOMAIN longer
  BY <1>1
<1>4. ASSUME NEW t \in Txn
      PROVE  DecisionIn(longer, t) = IF t = rcpt.txn THEN rcpt.decision ELSE DecisionIn(rcpts, t)
  <2>1. CASE t = rcpt.txn
    <3>1. \A i \in DOMAIN longer : longer[i].txn = t <=> i = Len(rcpts) + 1
      BY <1>1, <1>2, <2>1
    <3>2. (CHOOSE i \in DOMAIN longer : longer[i].txn = t) = Len(rcpts) + 1
      BY <1>3, <3>1
    <3> QED BY <1>1, <1>3, <2>1, <3>1, <3>2 DEF DecisionIn
  <2>2. CASE t # rcpt.txn /\ \A i \in DOMAIN rcpts : rcpts[i].txn # t
    <3>1. \A i \in DOMAIN longer : longer[i].txn # t
      BY <1>1, <1>2, <2>2
    <3> QED BY <2>2, <3>1 DEF DecisionIn
  <2>3. ASSUME t # rcpt.txn, NEW j \in DOMAIN rcpts, rcpts[j].txn = t
        PROVE  DecisionIn(longer, t) = DecisionIn(rcpts, t)
    <3>1. \A i \in DOMAIN longer : longer[i].txn = t <=> i = j
      BY <1>1, <1>2, <1>3, <2>3
    <3>2. \A i \in DOMAIN rcpts : rcpts[i].txn = t <=> i = j
      BY <2>3
    <3>3. (CHOOSE i \in DOMAIN longer : longer[i].txn = t) = j
      BY <1>3, <2>3, <3>1
    <3>4. (CHOOSE i \in DOMAIN rcpts : rcpts[i].txn = t) = j
      BY <2>3, <3>2
    <3> QED BY <1>1, <1>3, <2>3, <3>1, <3>3, <3>4 DEF DecisionIn
  <2> QED BY <2>1, <2>2, <2>3
<1> QED BY <1>4 DEF longer

\* A receipt more is the decision of a transition that was open.
LEMMA DecidedOnce ==
    ASSUME LogInv, NEW rcpt \in Receipt, receipts' = Append(receipts, rcpt), Live(rcpt.txn)
    PROVE  /\ Decision(rcpt.txn) = "OPEN"
           /\ \A t \in Txn : Decision(t)' = IF t = rcpt.txn THEN rcpt.decision ELSE Decision(t)
<1>1. /\ receipts \in Seq(Receipt)
      /\ \A i, j \in DOMAIN receipts : receipts[i].txn = receipts[j].txn => i = j
  BY DEF LogInv, LogTypeOK, ReceiptsFitState
<1>2. \A i \in DOMAIN receipts : tx[receipts[i].txn].state \in Terminal
  BY DEF LogInv, ReceiptsFitState, Terminal
<1>3. \A i \in DOMAIN receipts : receipts[i].txn # rcpt.txn
  BY <1>2 DEF Live, OpenStates, CrossingStates, Terminal
<1>4. \A t : Decision(t) = DecisionIn(receipts, t) /\ Decision(t)' = DecisionIn(receipts', t)
  BY DEF Decision, DecisionIn, HasReceipt
<1>5. Decision(rcpt.txn) = "OPEN"
  BY <1>3, <1>4 DEF DecisionIn
<1> QED BY <1>1, <1>3, <1>4, <1>5, DecisionAppended

----------------------------------------------------------------------------
(* The steps of the authority.                                             *)

Simulated == [Authority!Next]_(Authority!authorityVars)

LEMMA Stutters ==
    ASSUME AcknowledgedHead' = AcknowledgedHead, UNCHANGED <<receipts, archived>>
    PROVE  Simulated
<1>1. \A t \in Txn : Decision(t)' = Decision(t)
  BY DEF Decision, HasReceipt
<1> QED BY <1>1 DEF Simulated, Authority!authorityVars

\* Decisions taken one by one are the function of them updated.
LEMMA DecisionsUpdated ==
    ASSUME NEW t \in Txn, NEW outcome, Decision(t) = "OPEN",
           \A u \in Txn : Decision(u)' = IF u = t THEN outcome ELSE Decision(u)
    PROVE  Authority!Decide(t, outcome)
BY DEF Authority!Decide

LEMMA Commits ==
    ASSUME Promising, NEW t \in Txn, TRANSITION_ACKNOWLEDGED(t)
    PROVE  Simulated
<1> DEFINE x == [tx[t] EXCEPT !.state = "ACKNOWLEDGED", !.permit = IF @ = "NONE" THEN @ ELSE "CONSUMED"]
           rcpt == [txn |-> t, decision |-> "COMMITTED", view |-> tx[t].next, prior |-> tx[t].base]
<1>1. tx[t] \in Transition /\ FactsFit(t, tx[t])
  BY RecordAt DEF Promising, Charting, Inductive
<1>2. x.state = "ACKNOWLEDGED" /\ rcpt.txn = t /\ rcpt.decision = "COMMITTED"
  BY <1>1 DEF Transition
<1>3. UNCHANGED projected => Simulated
  BY HeadUnmoved, Stutters DEF projected, Unmoved
<1>4. CASE /\ tx[t].state = "APPLIED" /\ Update(t, x) /\ receipts' = Append(receipts, rcpt)
           /\ UNCHANGED <<head, archived>>
  <2>1. Crossing(t) /\ Live(t)
    BY <1>4 DEF Crossing, Live, CrossingStates
  <2>2. tx[t].next \in View /\ tx[t].next.tree = tx[t].artifact /\ tx[t].base \in View
    BY <1>1, <1>4 DEF FactsFit, Bound, CrossingStates
  <2>3. rcpt \in Receipt /\ tx[t].artifact \in Tree
    BY <2>2 DEF Receipt, View
  <2> HIDE DEF x, rcpt
  <2>4. Authority!Decide(t, "COMMITTED")
    BY <1>2, <1>4, <2>1, <2>3, DecidedOnce, DecisionsUpdated DEF Promising, Charting, Inductive
  <2>5. AcknowledgedHead = tx[t].base
    BY <2>1, HeadNow
  <2>6. AcknowledgedHead' = tx[t].next
    BY <1>2, <1>4, <2>1, HeadNext DEF Promising, PromiseFits, LogPromise, CrossingFits
  <2>7. ~archived /\ tx[t].next = Committing(t, tx[t])
    BY <2>1 DEF Promising, PromiseFits, LogPromise, CrossingFits, Apart
  <2>8. AcknowledgedHead' = [AcknowledgedHead EXCEPT !.ver = t, !.gen = @ + 1, !.tree = tx[t].artifact,
                               !.epoch = IF t \in Rollbacks THEN @ + 1 ELSE @]
    <3> DEFINE base == tx[t].base
    <3>1. base \in View /\ Committing(t, tx[t]) =
            [ver |-> t, gen |-> base.gen + 1, tree |-> tx[t].artifact,
             epoch |-> IF t \in Rollbacks THEN base.epoch + 1 ELSE base.epoch, cfg |-> base.cfg]
      BY <2>2 DEF Committing, IsRun
    <3> HIDE DEF base
    <3> DEFINE next == [base EXCEPT !.ver = t, !.gen = @ + 1, !.tree = tx[t].artifact,
                          !.epoch = IF t \in Rollbacks THEN @ + 1 ELSE @]
    <3>2. ASSUME NEW n, n = next
          PROVE  n = [ver |-> t, gen |-> base.gen + 1, tree |-> tx[t].artifact,
                      epoch |-> IF t \in Rollbacks THEN base.epoch + 1 ELSE base.epoch, cfg |-> base.cfg]
      BY <3>1, <3>2 DEF View
    <3> HIDE DEF next
    <3>3. AcknowledgedHead' = next
      BY <2>6, <2>7, <3>1, <3>2
    <3> QED BY <2>5, <3>3 DEF next, base
  <2>9. Authority!Commit(t, tx[t].artifact)
    BY <1>4, <2>4, <2>7, <2>8 DEF Authority!Commit
  <2> QED BY <2>3, <2>9 DEF Simulated, Authority!Next
<1> QED BY <1>3, <1>4 DEF TRANSITION_ACKNOWLEDGED, Fold

LEMMA Rejects ==
    ASSUME Promising, NEW t \in Txn, NEW decision \in NonCommits, NEW restored \in BOOLEAN,
           NON_COMMIT_DISPOSITIONED(t, decision, restored),
           tx[t].state \in (IF restored THEN CrossingStates ELSE OpenStates)
    PROVE  Simulated
<1> DEFINE authority == DispositionBase(t, restored)
           view == [authority EXCEPT !.epoch = @ + 1]
           x == [tx[t] EXCEPT !.state = "ROLLED_BACK", !.permit = IF @ = "NONE" THEN @ ELSE "REVOKED"]
           rcpt == [txn |-> t, decision |-> decision, view |-> view, prior |-> authority]
<1>1. tx[t] \in Transition /\ FactsFit(t, tx[t])
  BY RecordAt DEF Promising, Charting, Inductive
<1>2. x.state = "ROLLED_BACK" /\ rcpt.txn = t /\ rcpt.decision = decision
  BY <1>1 DEF Transition
<1>3. Live(t)
  BY DEF Live
<1>4. authority = AcknowledgedHead
  <2>1. CASE restored
    BY <2>1, HeadNow DEF DispositionBase, Crossing
  <2>2. CASE ~restored
    <3>1. \A u \in Txn : ~Crossing(u)
      BY <1>3, <2>2 DEF Promising, Charting, ChainFits, OneLive, Live, Crossing, OpenStates, CrossingStates
    <3> QED BY <2>2, <3>1, HeadNow DEF DispositionBase
  <2> QED BY <2>1, <2>2
<1>5. authority \in View
  BY <1>1 DEF DispositionBase, Promising, Charting, Inductive, LogInv, LogTypeOK, FactsFit, CrossingStates
<1>6. view \in View
  BY <1>5 DEF View
<1>7. rcpt \in Receipt
  BY <1>5, <1>6 DEF Receipt
<1>8. UNCHANGED projected => Simulated
  BY HeadUnmoved, Stutters DEF projected, Unmoved
<1>9. CASE Update(t, x) /\ receipts' = Append(receipts, rcpt) /\ head' = view /\ UNCHANGED archived
  <2> HIDE DEF x, rcpt, authority
  <2>1. Authority!Decide(t, decision)
    BY <1>2, <1>3, <1>7, <1>9, DecidedOnce, DecisionsUpdated DEF Promising, Charting, Inductive
  <2>2. AcknowledgedHead' = view
    BY <1>2, <1>3, <1>9, HeadNext
  <2>3. AcknowledgedHead' = [AcknowledgedHead EXCEPT !.epoch = @ + 1]
    BY <1>4, <2>2
  <2>4. Authority!Reject(t)
    BY <1>9, <2>1, <2>3 DEF Authority!Reject, NonCommits
  <2> QED BY <2>4 DEF Simulated, Authority!Next
<1> QED BY <1>8, <1>9 DEF NON_COMMIT_DISPOSITIONED, Fold

LEMMA Configures ==
    ASSUME Promising, NEW intent \in pending, intent.kind = "platform", head = intent.base,
           PLATFORM_STATE_REGENERATED(intent.view)
    PROVE  Simulated
<1>1. ~archived /\ \A u \in Txn : ~Crossing(u)
  BY Shifted
<1>2. PICK p \in Platform : intent.view = Configured(head, p)
  BY DEF Promising, Charting, ChainFits, RegenerationsFit
<1>3. UNCHANGED <<tx, receipts, archived>> /\ head' = intent.view
  BY DEF PLATFORM_STATE_REGENERATED
<1>4. AcknowledgedHead = head
  BY <1>1, HeadNow
<1>5. AcknowledgedHead' = Configured(head, p)
  <2>1. AcknowledgedHead' = AcknowledgedIn(tx', head')
    BY DEF AcknowledgedHead, AcknowledgedIn
  <2>2. \A u \in Txn : tx'[u].state \notin {"APPLIED", "REPAIRED"}
    BY <1>1, <1>3 DEF Crossing, CrossingStates
  <2> QED BY <1>2, <1>3, <2>1, <2>2, AcknowledgedNone
<1>6. head \in View
  BY DEF Promising, Charting, Inductive, LogInv, LogTypeOK
<1>7. Configured(head, p) = [head EXCEPT !.gen = @ + 1, !.tree.p = p, !.epoch = @ + 1, !.cfg = @ + 1]
  <2> DEFINE tree == [head.tree EXCEPT !.p = p]
             next == [head EXCEPT !.gen = @ + 1, !.tree = tree, !.epoch = @ + 1, !.cfg = @ + 1]
  <2>1. tree = [v |-> head.tree.v, p |-> p]
    BY <1>6 DEF View, Tree
  <2>2. next = [head EXCEPT !.gen = @ + 1, !.tree.p = p, !.epoch = @ + 1, !.cfg = @ + 1]
    OBVIOUS
  <2> HIDE DEF tree
  <2>3. ASSUME NEW n, n = next
        PROVE  n = [ver |-> head.ver, gen |-> head.gen + 1, tree |-> tree,
                    epoch |-> head.epoch + 1, cfg |-> head.cfg + 1]
    BY <1>6, <2>3 DEF View
  <2> HIDE DEF next
  <2>4. next = Configured(head, p)
    BY <2>1, <2>3 DEF Configured
  <2> QED BY <2>2, <2>4
<1>8. \A t \in Txn : Decision(t)' = Decision(t)
  BY <1>3 DEF Decision, HasReceipt
<1>9. Authority!Configure(p)
  BY <1>1, <1>3, <1>4, <1>5, <1>7, <1>8 DEF Authority!Configure
<1> QED BY <1>9 DEF Simulated, Authority!Next

LEMMA Retires ==
    ASSUME AGENT_ARCHIVED
    PROVE  Simulated
<1>1. UNCHANGED <<head, tx, receipts>> /\ archived' = TRUE
  BY DEF AGENT_ARCHIVED
<1>2. AcknowledgedHead' = AcknowledgedHead
  BY <1>1 DEF AcknowledgedHead
<1>3. \A t \in Txn : Decision(t)' = Decision(t)
  BY <1>1 DEF Decision, HasReceipt
<1>4. Authority!Retire
  BY <1>1, <1>2, <1>3 DEF Authority!Retire
<1> QED BY <1>4 DEF Simulated, Authority!Next

\* On its way from the admission to the acknowledgement a transition moves
\* HEAD, but not what the receipts know of it.
LEMMA CrossingStutters ==
    ASSUME Promising, NEW t \in Txn,
           \/ TRANSITION_PREPARED(t) /\ \A u \in Txn : ~Live(u)
           \/ \E next : PERMIT_CONSUMING(t, next)
           \/ WORKSPACE_APPLIED(t)
           \/ REPAIR_APPLIED(t) /\ Crossing(t)
    PROVE  Simulated
<1>1. tx[t] \in Transition /\ PermitFits(tx[t])
  BY RecordAt DEF Promising, Charting, Inductive
<1>2. UNCHANGED projected => Simulated
  BY HeadUnmoved, Stutters DEF projected, Unmoved
<1>3. ASSUME NEW x, Update(t, x), UNCHANGED <<head, receipts, archived>>, \A u \in Txn : ~Crossing(u),
             Live(t) \/ \A u \in Txn : ~Live(u), x.state \notin {"APPLIED", "REPAIRED"}
      PROVE  Simulated
  BY <1>3, HeadNow, HeadNext, Stutters
<1>4. ASSUME NEW x, Update(t, x), UNCHANGED <<receipts, archived>>, Crossing(t),
             x.base = tx[t].base, x.state \in {"APPLIED", "REPAIRED"}
      PROVE  Simulated
  BY <1>4, HeadNow, HeadNext, Stutters DEF Live, Crossing
<1>5. TRANSITION_PREPARED(t) /\ (\A u \in Txn : ~Live(u)) => Simulated
  <2> HAVE TRANSITION_PREPARED(t) /\ (\A u \in Txn : ~Live(u))
  <2> DEFINE x == [Unprepared EXCEPT !.state = "PREPARED", !.base = head]
  <2>1. x.state \notin {"APPLIED", "REPAIRED"} /\ \A u \in Txn : ~Crossing(u)
    BY DEF Unprepared, Live, Crossing
  <2>2. CASE Update(t, x) /\ UNCHANGED <<head, receipts, archived>>
    <3> HIDE DEF x
    <3> QED BY <1>3, <2>1, <2>2
  <2> QED BY <1>2, <2>2 DEF TRANSITION_PREPARED, Fold
<1>6. ASSUME NEW next, PERMIT_CONSUMING(t, next)
      PROVE  Simulated
  <2> DEFINE x == [tx[t] EXCEPT !.state = "CONSUMING", !.permit = "CONSUMING", !.next = next]
  <2>1. x.state \notin {"APPLIED", "REPAIRED"}
    BY <1>1 DEF Transition
  <2>2. CASE tx[t].permit = "ISSUED" /\ Update(t, x) /\ UNCHANGED <<head, receipts, archived>>
    <3>1. tx[t].state = "PERMITTED" /\ Live(t)
      BY <1>1, <2>2 DEF PermitFits, Live, OpenStates
    <3>2. \A u \in Txn : ~Crossing(u)
      BY <3>1 DEF Promising, Charting, ChainFits, OneLive, Live, Crossing, CrossingStates
    <3> HIDE DEF x
    <3> QED BY <1>3, <2>1, <2>2, <3>1, <3>2
  <2> QED BY <1>2, <1>6, <2>2 DEF PERMIT_CONSUMING, Fold
<1>7. WORKSPACE_APPLIED(t) => Simulated
  <2> HAVE WORKSPACE_APPLIED(t)
  <2> DEFINE x == [tx[t] EXCEPT !.state = "APPLIED"]
  <2>1. x.state = "APPLIED" /\ x.base = tx[t].base
    BY <1>1 DEF Transition
  <2>2. CASE tx[t].state \in {"CONSUMING", "REPAIRED"} /\ Update(t, x) /\ UNCHANGED <<receipts, archived>>
    <3>1. Crossing(t)
      BY <2>2 DEF Crossing, CrossingStates
    <3> HIDE DEF x
    <3> QED BY <1>4, <2>1, <2>2, <3>1
  <2> QED BY <1>2, <2>2 DEF WORKSPACE_APPLIED, Fold
<1>8. REPAIR_APPLIED(t) /\ Crossing(t) => Simulated
  <2> HAVE REPAIR_APPLIED(t) /\ Crossing(t)
  <2> DEFINE x == [tx[t] EXCEPT !.state = "REPAIRED"]
  <2>1. x.state = "REPAIRED" /\ x.base = tx[t].base
    BY <1>1 DEF Transition
  <2>2. CASE Update(t, x) /\ UNCHANGED <<receipts, archived>>
    <3> HIDE DEF x
    <3> QED BY <1>4, <2>1, <2>2
  <2> QED BY <1>2, <2>2 DEF REPAIR_APPLIED, Fold
<1> QED BY <1>5, <1>6, <1>7, <1>8

LEMMA HappeningSimulates ==
    ASSUME Promising, Happening
    PROVE  Simulated
<1>1. Turned(Moving = {}) => Simulated
  BY HeadUnmoved, Stutters DEF Turned, Unmoved
<1>2. ASSUME NEW intent, INTENT_PREPARED(intent) PROVE Simulated
  <2>1. UNCHANGED <<head, tx, receipts, archived>>
    BY <1>2 DEF INTENT_PREPARED
  <2>2. AcknowledgedHead' = AcknowledgedHead
    BY <2>1 DEF AcknowledgedHead
  <2> QED BY <2>1, <2>2, Stutters
<1>3. ASSUME NEW t \in Txn, NEW decision \in NonCommits, NEW restored \in BOOLEAN,
             NON_COMMIT_DISPOSITIONED(t, decision, restored),
             tx[t].state \in (IF restored THEN CrossingStates ELSE OpenStates)
      PROVE  Simulated
  BY <1>3, Rejects
<1>4. ASSUME NEW t \in Txn,
             \/ TRANSITION_PREPARED(t) /\ \A u \in Txn : ~Live(u)
             \/ PERMIT_CONSUMING(t, NextView(t, tx[t].artifact, IF IsRun(t) THEN 0 ELSE 1))
             \/ WORKSPACE_APPLIED(t)
             \/ REPAIR_APPLIED(t) /\ Crossing(t)
             \/ TRANSITION_ACKNOWLEDGED(t)
      PROVE  Simulated
  BY <1>4, CrossingStutters, Commits
<1> QED BY <1>1, <1>2, <1>3, <1>4, Configures, Retires DEF Happening

LEMMA NextSimulates ==
    ASSUME Inductive, Inductive', OrderFits, OrderFits', HistoryFits, corrupt \/ PromiseFits,
           ~Overlap, Rollbacks = {} \/ Still, [Next]_vars
    PROVE  Simulated /\ (corrupt \/ PromiseFits)'
<1>1. CASE corrupt
  <2>1. UNCHANGED logVars
    BY <1>1, CorruptStays
  <2>2. UNCHANGED <<head, tx, receipts, archived, corrupt>>
    BY <2>1 DEF logVars
  <2>3. AcknowledgedHead' = AcknowledgedHead
    BY <2>2 DEF AcknowledgedHead
  <2> QED BY <1>1, <2>2, <2>3, Stutters
<1>2. CASE ~corrupt
  <2>1. Promising
    BY <1>2 DEF Promising, Charting, HistoryFits
  <2> QED BY <2>1, Happens, HappeningSimulates, PromiseKept
<1> QED BY <1>1, <1>2

LEMMA InitSimulates == Init => Authority!Init
<1> SUFFICES ASSUME Init PROVE Authority!Init
  OBVIOUS
<1>1. head = InitialView /\ receipts = <<>> /\ archived = FALSE /\ \A t \in Txn : tx[t].state = "NONE"
  BY DEF Init, LogInit, Unprepared
<1>2. AcknowledgedHead = InitialView
  BY <1>1 DEF AcknowledgedHead
<1>3. \A t \in Txn : Decision(t) = "OPEN"
  <2>1. DOMAIN receipts = {}
    BY <1>1, EmptySeq
  <2> QED BY <2>1 DEF Decision, HasReceipt
<1> QED BY <1>1, <1>2, <1>3 DEF Authority!Init

\* The Worker implements the atomic authority: what its receipts make of HEAD
\* changes in the steps of StateAuthority only, one decision at a time against
\* the View of that instant, whatever is killed, fails, drifts or is repaired in
\* between.  Transitions are admitted one at a time (assertNoActiveMutation); and
\* either there are no rollbacks, or nothing that moves the workspace beside them
\* (prepare and applyRollback leave a pending regeneration to be finished later).
THEOREM WorkerImplementsAuthority ==
    ~Overlap /\ (Rollbacks = {} \/ Requests \cap {"platform", "archive"} = {}) =>
        (Spec => ImplementsAuthority)
<1> SUFFICES ASSUME ~Overlap, Rollbacks = {} \/ Requests \cap {"platform", "archive"} = {}
             PROVE  Spec => ImplementsAuthority
  OBVIOUS
<1> DEFINE Inv == Inductive /\ OrderFits /\ HistoryFits /\ (corrupt \/ PromiseFits)
<1>1. Init => Inv
  BY InitInductive, InitFits, InitCharts, InitPromises
<1>2. Inv /\ [Next]_vars => Inv' /\ Simulated
  <2> SUFFICES ASSUME Inv, [Next]_vars PROVE Inv' /\ Simulated
    OBVIOUS
  <2>1. Inductive' /\ OrderFits'
    BY NextInductive, OrderKept
  <2>2. HistoryFits'
    BY <2>1, HistoryKept
  <2>3. Simulated /\ (corrupt \/ PromiseFits)'
    BY <2>1, NextSimulates DEF Still
  <2> QED BY <2>1, <2>2, <2>3
<1>3. Simulated => [Authority!Next]_(Authority!authorityVars)
  BY DEF Simulated
<1>4. Init => Authority!Init
  BY InitSimulates
<1> HIDE DEF Inv
<1> QED BY <1>1, <1>2, <1>3, <1>4, PTL DEF Spec, ImplementsAuthority, Authority!Spec
==============================================================================
