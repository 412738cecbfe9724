-------------------------- MODULE WorkerProperties --------------------------
(***************************************************************************)
(* What must hold of the Transition Authority Worker.                      *)
(***************************************************************************)
EXTENDS TransitionWorker

LogTypeOK ==
    /\ head \in View
    /\ tx \in [Txn -> Transition]
    /\ order \in Seq(Txn)
    /\ receipts \in Seq(Receipt)
    /\ pending \subseteq Intent
    /\ archived \in BOOLEAN
    /\ corrupt \in BOOLEAN

DiskTypeOK ==
    /\ workspace \in Dir
    /\ backup \in [Txn -> Dir]
    /\ {candidate, proposal, export} \subseteq [Txn -> Tree \cup {None}]
    /\ snapshots \subseteq Dir
    /\ {staged, retired, archive} \subseteq Dir

Operation ==
    [kind : Kinds, txn : Txn \cup {None}, plan : Seq(Steps),
     tree : Dir, decision : NonCommits \cup {None}]

ControlTypeOK ==
    /\ up \in {"down", "starting", "sweeping", "serving"}
    /\ op \in Operation
    /\ todo \in Seq(Txn)
    /\ refusal \in {"none", "IO", "WORKSPACE_CAS_MISMATCH", "RECOVERY_REQUIRED",
                     "RUNTIME_TEARDOWN_REQUIRED"}
    /\ {crashes, faults, drifts} \subseteq Nat

\* Every variable holds a value of its kind.
TypeOK == LogTypeOK /\ DiskTypeOK /\ ControlTypeOK

\* The log stays replayable: no handler, whatever was interrupted before it,
\* appends an event that rebuildWorkerProjection rejects.  One such event
\* makes every later read of this Agent throw, for good.
LogReplayable == ~corrupt

\* One-shot authority: a transition has at most one terminal receipt; its
\* permit is CONSUMED exactly if that receipt is COMMITTED, and never live
\* once there is a receipt.
OneShot ==
    /\ \A i, j \in DOMAIN receipts : receipts[i].txn = receipts[j].txn => i = j
    /\ \A t \in Txn :
        /\ tx[t].permit = "CONSUMED" <=> Committed(t)
        /\ HasReceipt(t) => tx[t].permit \notin {"ISSUED", "CONSUMING"}

\* The View is what platform regenerations alone leave of the other.
Regenerated(from, to) ==
    /\ to.cfg > from.cfg /\ to.ver = from.ver /\ to.tree.v = from.tree.v
    /\ to.gen = from.gen + (to.cfg - from.cfg)
    /\ to.epoch = from.epoch + (to.cfg - from.cfg)

Leads(from, to) == from = to \/ Regenerated(from, to)

\* Receipts chain: each decision was taken against the View the decision
\* before it left (or a platform regeneration of that View), so no commit
\* rests on a stale base and none is lost.  This is the compare-and-set of
\* applyPromotion, applyRollback and disposeRun across every interruption.
SerialHistory ==
    \A i \in DOMAIN receipts :
        Leads(IF i = 1 THEN InitialView ELSE receipts[i - 1].view, receipts[i].prior)

\* A COMMITTED receipt binds the sealed artifact, and it alone: the tree it
\* installed is the one that was sealed and permitted, one generation above
\* the base it was admitted on.
CommitBindsSeal ==
    \A i \in DOMAIN receipts : receipts[i].decision = "COMMITTED" =>
        LET t == receipts[i].txn IN
        /\ receipts[i].view.tree = tx[t].artifact
        /\ receipts[i].view.gen = tx[t].base.gen + 1
        /\ IsRun(t) => tx[t].clean /\ tx[t].passed /\ TeardownRecorded(t, "ALL")

\* Between operations the directory holds what HEAD says, unless a transition
\* was left on the crossing, an intent is pending, or the Agent is archived:
\* a non-commit never leaves other bytes behind than the ones it started from.
\* And a single I/O error, wherever it strikes, leaves no transition on the
\* crossing: the handler undoes the swap and decides (applyTreeAndAcknowledge).
\* An archived Agent's archive is HEAD, whatever is asked of the Agent later.
WorkspaceIsHead ==
    LET Crossing == {t \in Txn : tx[t].state \in CrossingStates}
    IN  /\ Ready /\ pending = {} /\ ~archived /\ Crossing = {} => workspace = head.tree
        /\ Ready /\ crashes = 0 /\ faults < 2 => Crossing = {}
        /\ Ready /\ archived => archive = head.tree

\* RUN_ARTIFACTS_DESTROYED and a QUARANTINED or ABORTED receipt claim that the
\* run's artifacts are destroyed.  Whenever requests are served that is the truth:
\* neither the candidate nor the sealed copy nor the verifier export is on disk,
\* or put back by a clone, an import or an export that comes later.  Before, a
\* startup may make the claim while a copy is left that no event names, because a
\* kill came between its rename and PROPOSAL_SEAL_PREPARED: gcStartupOrphans
\* deletes it before the first request.  And without the handshake the candidate
\* can change under an import, whose copy then stays until the next startup.
DestroyedLeavesNothing ==
    LET Refused(t) == \E i \in DOMAIN receipts :
            receipts[i].txn = t /\ receipts[i].decision \in {"QUARANTINED", "ABORTED"}
    IN  \A t \in Txn : tx[t].destroyed \/ Refused(t) =>
            /\ candidate[t] = None /\ export[t] = None
            /\ proposal[t] # None =>
                 tx[t].artifact = None /\ (Handshake => up # "serving")

\* A cancelled run is never promoted: once RUN_CANCELLED is durable the only
\* decision left is a non-commit (the irreversible-boundary fence of cancelRun).
CancelIsFinal ==
    [][\A t \in Txn : tx[t].state = "CANCELLED"
         => /\ tx'[t].state \in {"CANCELLED", "ROLLED_BACK"}
            /\ tx'[t].permit \notin {"ISSUED", "CONSUMING", "CONSUMED"}]_vars

\* Every version in the history can be rolled back to: the snapshot of an
\* acknowledged commit is on disk by the time the commit is acknowledged.
VersionsRestorable == VersionTrees \subseteq snapshots

\* Recovery always finds a decision: neither a startup nor a recover request
\* ends in RECOVERY_REQUIRED.
RecoveryDecides == refusal # "RECOVERY_REQUIRED"

----------------------------------------------------------------------------

\* HEAD as the receipts know it: a HEAD moved by WORKSPACE_APPLIED is not
\* final before its transition is acknowledged.
AcknowledgedHead ==
    IF \E t \in Txn : tx[t].state \in {"APPLIED", "REPAIRED"}
    THEN tx[CHOOSE t \in Txn : tx[t].state \in {"APPLIED", "REPAIRED"}].base
    ELSE head

Decision(t) ==
    IF HasReceipt(t)
    THEN receipts[CHOOSE i \in DOMAIN receipts : receipts[i].txn = t].decision
    ELSE "OPEN"

\* The Worker with its disk, its log, its crashes and its recovery implements
\* the atomic authority.
Authority == INSTANCE StateAuthority WITH
    view <- AcknowledgedHead,
    decision <- [t \in Txn |-> Decision(t)],
    retired <- archived

ImplementsAuthority == Authority!Spec

----------------------------------------------------------------------------
(* Liveness: the Worker's own steps run, a killed process is restarted.     *)

Fairness == WF_vars(Step) /\ WF_vars(Start) /\ WF_vars(Sweep)

FairSpec == Spec /\ Fairness

\* Once a permit is being consumed the transition gets its receipt, through
\* any crash and any I/O error the bounds allow.
CrossingDecided ==
    \A t \in Txn : tx[t].state \in CrossingStates ~> HasReceipt(t)

\* A durable intent is carried to its completion event, by the handler that
\* appended it or by the next startup.
IntentsFinish == pending # {} ~> pending = {}

\* Nothing the log has begun stays open (recoverAgent, recoverPendingWorkerIntents).
Concludes == CrossingDecided /\ IntentsFinish
=============================================================================
