------------------------- MODULE AuthorityInvariant -------------------------
(***************************************************************************)
(* What keeps the Worker's decisions one chain while an Agent has one open *)
(* transition at a time: which View the chain has reached, in each state   *)
(* a transition can be left in by a kill, an I/O error, a drift or a       *)
(* repair.                                                                 *)
(***************************************************************************)
EXTENDS RecoveryInvariant

Live(t) == tx[t].state \in OpenStates \cup CrossingStates
Crossing(t) == tx[t].state \in CrossingStates

\* The View a platform regeneration of this one leaves.
Configured(view, p) ==
    [ver |-> view.ver, gen |-> view.gen + 1, tree |-> [v |-> view.tree.v, p |-> p],
     epoch |-> view.epoch + 1, cfg |-> view.cfg + 1]

\* What the last decision left.
LastView == IF receipts = <<>> THEN InitialView ELSE receipts[Len(receipts)].view

OneLive == \A t, u \in Txn : Live(t) /\ Live(u) => t = u

RegenerationsFit ==
    \A i \in pending : i.kind = "platform" =>
        i.base \in View /\ \E p \in Platform : i.view = Configured(i.base, p)

\* How far the chain has come: a HEAD moved by WORKSPACE_APPLIED is not in it yet.
ViewsFit ==
    /\ \A t \in Txn : Crossing(t) => Leads(LastView, tx[t].base)
    /\ \A t \in Txn : tx[t].state = "APPLIED" => Leads(tx[t].next, head)
    /\ (\A t \in Txn : tx[t].state \notin {"APPLIED", "REPAIRED"}) => Leads(LastView, head)

\* The part the log alone tells.
ChainFits == OneLive /\ RegenerationsFit /\ ViewsFit /\ SerialHistory

\* What an operation has still to do fits what its transition has come to:
\* nothing is open while a run is admitted, and what is about to be decided is.
DecidingFits ==
    LET state == tx[op.txn].state
    IN  /\ op.kind = "apply" /\ First(ApplySteps) => state \in CrossingStates
        /\ op.kind = "undo" => state \in CrossingStates
        /\ op.kind = "conflict" /\ First({"reject"}) => state \in OpenStates
        /\ op.kind = "dispose" => state \in OpenStates
        /\ op.kind = "repaired" /\ First({"remove", "logDestroyed", "restore"}) =>
             state \in CrossingStates
        /\ op.kind = "recover" /\ Some({"reject"}) => state \in OpenStates
        /\ op.kind = "recover" /\ Some({"restore"}) => state \in CrossingStates
        /\ op.kind = "recover" /\ First({"apply", "snapshot", "ack"}) =>
             ~Some({"reject"}) /\ ~Some({"restore"})

AdmittingFits == op.kind = "prepareRun" => \A t \in Txn : ~Live(t)

\* Once the log cannot be folded no step is taken any more.
HistoryFits == ChainFits /\ (corrupt \/ (DecidingFits /\ AdmittingFits))

----------------------------------------------------------------------------
(* What the refinement of StateAuthority needs.                            *)

\* The View a commit of t, whose record is x, installs on the base it was
\* admitted on.
Committing(t, x) ==
    [ver |-> t, gen |-> x.base.gen + 1, tree |-> x.artifact,
     epoch |-> IF IsRun(t) THEN x.base.epoch ELSE x.base.epoch + 1, cfg |-> x.base.cfg]

\* The crossing transition installs that View, on HEAD.
CrossingFits ==
    \A t \in Txn :
        /\ Crossing(t) => tx[t].next = Committing(t, tx[t])
        /\ tx[t].state = "CONSUMING" => tx[t].base = head
        /\ tx[t].state = "APPLIED" => tx[t].next = head

\* The intents that move the workspace.
Moving == {i \in pending : i.kind \in {"platform", "archive"}}

Still == Requests \cap {"platform", "archive"} = {}

\* One intent is finished before the next is prepared.
OneIntent == \A i, j \in pending : i = j

\* Nothing is regenerated while a transition is past its admission, and nothing
\* crosses once the Agent is archived.
Apart ==
    /\ Moving # {} => \A t \in Txn : Live(t) => tx[t].state \in {"PREPARED", "CANCELLED"}
    /\ archived => Moving = {} /\ \A t \in Txn : ~Crossing(t)
    /\ Still => Moving = {} /\ ~archived

LogPromise == CrossingFits /\ OneIntent /\ Apart

\* Only runs have proposals of their own, and an archived workspace is gone.
DiskPromise ==
    /\ \A t \in Rollbacks : proposal[t] = None
    /\ archived => workspace \notin Tree

\* A seal is of a run, with no intent left to finish; the transition whose
\* directories an operation moves is on the crossing.
QueuePromise ==
    /\ op.kind = "seal" => IsRun(op.txn)
    /\ op.kind = "seal" /\ First(SealSteps) => pending = {}
    /\ op.kind = "repair" => Crossing(op.txn)
    /\ op.kind = "recover" /\ First({"reinstate"}) => Crossing(op.txn)

PromiseFits == LogPromise /\ DiskPromise /\ QueuePromise
=============================================================================
