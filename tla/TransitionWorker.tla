-------------------------- MODULE TransitionWorker --------------------------
(***************************************************************************)
(* The Transition Authority Worker (transition-worker/worker.ts) for one   *)
(* Agent.  Agents share nothing the Worker orders, so one is enough.       *)
(*                                                                         *)
(* Every mutating RPC runs alone in the Agent's queue (serial).  A request *)
(* is one action: it evaluates the handler's guards and leaves in op.plan  *)
(* the durable steps the handler has still to take, in order.  Each step - *)
(* one rename, one recursive delete, one event append - is one action, so  *)
(* the process can be killed (Crash) or a step can fail with an I/O error  *)
(* (Fault) between any two of them.  A refused request changes nothing and *)
(* is not an action, except where refusing it has a side effect.           *)
(*                                                                         *)
(* An operator whose name ends in _Mutant states the bug a comment before  *)
(* it describes.  No specification uses one: each is put in the place of   *)
(* the operator it is named after to see which property notices.           *)
(***************************************************************************)
EXTENDS TransitionLog

CONSTANTS
    Empty,      \* the manifest of an empty directory
    Handshake,  \* requireRuntimeTeardownHandshake (TRUE in production)
    Requests,   \* the optional request families the clients of a run issue
    Overlap,    \* may clients start a mutation while a transition is open
    Dispositions, \* the decisions the clients of a run ask disposeRun for
    MaxCrashes, \* bound: kills of the Worker process
    MaxFaults,  \* bound: I/O errors met by the Worker's steps
    MaxDrifts,  \* bound: out-of-band writes to the authoritative workspace
    MaxConfigs  \* bound: platform regenerations

ASSUME WorkerAssumption ==
    /\ Empty \notin Tree \cup {None}
    /\ {Handshake, Overlap} \subseteq BOOLEAN
    /\ Requests \subseteq {"cancel", "export", "platform", "archive", "repair", "probe"}
    /\ Dispositions \subseteq NonCommits
    /\ {MaxCrashes, MaxFaults, MaxDrifts, MaxConfigs} \subseteq Nat

\* What a directory can hold; None where there is no directory.
Dir == Tree \cup {Empty, None}

ApplySteps == {"backup", "logBackup", "swap", "snapshot", "apply", "ack"}

Steps == ApplySteps \cup
    {"clone", "prepare", "importProposal", "logSeal", "logFlawed", "finishIntent", "authorize", "dropBackup",
     "remove", "logDestroyed", "reject", "restore", "evict", "reinstate",
     "logRepair", "examine", "settle"}

VARIABLES
    workspace, \* the authoritative directory
    backup,    \* backupPath of each transition
    snapshots, \* snapshot directories, named by their hash
    candidate, \* candidate-${runId} in the exchange inbox
    proposal,  \* the Worker-owned sealed copy, or what a failed import left of it
    export,    \* verify-${runId} in the exchange inbox
    staged,    \* staging tree of a platform regeneration
    retired,   \* its backup tree
    archive,   \* the archive directory
    up,        \* process: "down", "starting" (initialize recovers this Agent),
               \* "sweeping" (the rest of initialize) or "serving"
    op,        \* the operation at the head of the Agent's queue
    todo,      \* recoverAgent: the transitions it has still to examine
    refusal,   \* how the last recoverAgent ended
    crashes, faults, drifts \* counters of the bounds

disk == <<workspace, backup, snapshots, candidate, proposal, export,
          staged, retired, archive>>
control == <<up, op, todo, refusal>>
bounds == <<crashes, faults, drifts>>
vars == <<logVars, disk, control, bounds>>

\* The operations a plan can belong to: the RPCs, startup recovery, and the
\* parts of one that their own steps set off.
Kinds ==
    {"none", "prepareRun", "seal", "export", "rollback", "apply", "undo", "conflict",
     "dispose", "cleanup", "platform", "archive", "repair", "repaired", "intents", "recover"}

Idle == [kind |-> "none", txn |-> None, plan |-> <<>>, tree |-> None, decision |-> None]

Init ==
    /\ LogInit
    /\ workspace = InitialTree
    /\ backup = [t \in Txn |-> None]
    /\ snapshots = {InitialTree}
    /\ candidate = [t \in Txn |-> None]
    /\ proposal = [t \in Txn |-> None]
    /\ export = [t \in Txn |-> None]
    /\ staged = None /\ retired = None /\ archive = None
    /\ up = "serving" /\ op = Idle /\ todo = <<>> /\ refusal = "none"
    /\ crashes = 0 /\ faults = 0 /\ drifts = 0

----------------------------------------------------------------------------
(* The queue, the plan of the running operation, and how it can end. *)

Ready == up = "serving" /\ op = Idle /\ ~corrupt

\* currentWorkspaceHash: hashing a missing workspace first creates it, empty.
Materialized == IF workspace = None THEN Empty ELSE workspace

Run(kind, t, plan, tree, decision) ==
    op' = [kind |-> kind, txn |-> t, plan |-> plan, tree |-> tree, decision |-> decision]

\* The step just taken was the first of the plan.
Continue ==
    op' = IF Len(op.plan) = 1 THEN Idle ELSE [op EXCEPT !.plan = Tail(@)]

\* The handler throws.  A throw out of recoverAgent stops initialize, unless
\* the reason is RUNTIME_TEARDOWN_REQUIRED: then the startup goes on with the
\* transitions it had not yet examined left as they are.
Throw(reason) ==
    /\ op' = Idle
    /\ todo' = <<>>
    /\ refusal' = IF op.kind = "recover" THEN reason ELSE refusal
    /\ up' = IF up = "starting"
             THEN IF reason = "RUNTIME_TEARDOWN_REQUIRED" THEN "sweeping" ELSE "down"
             ELSE up

At(step) == op.plan # <<>> /\ Head(op.plan) = step /\ ~corrupt

TeardownRecorded(t, scope) == Handshake /\ IsRun(t) => scope \in tx[t].teardown

\* The API starts one mutation of an Agent at a time (assertNoActiveMutation);
\* but a mutation that failed may have left its transition open, and the Worker
\* itself asks for no such thing.
Admissible == Overlap \/ \A t \in Txn : tx[t].state \notin OpenStates \cup CrossingStates

\* Mutant: only the hash of the workspace is compared, not the View (ABA).
CurrentCas_Mutant(view) == Materialized = view.tree

\* expectedViewId and expectedWorkspaceHash of the request are those of view.
CurrentCas(view) == head = view /\ Materialized = view.tree

----------------------------------------------------------------------------
(* Requests of a run. *)

PrepareRun(t) ==
    /\ Ready /\ Admissible /\ IsRun(t) /\ tx[t].state = "NONE"
    /\ CurrentCas(head)
    /\ candidate[t] \in {None, head.tree}   \* an orphan clone is adopted if exact
    /\ Run("prepareRun", t, <<"clone", "prepare">>, head.tree, None)
    /\ UNCHANGED <<logVars, disk, up, todo, refusal, bounds>>

\* The Agent edits its candidate until the Broker has torn its container down.
AgentEdits(t, tree) ==
    /\ tx[t].state = "PREPARED" /\ "AGENT" \notin tx[t].teardown
    /\ candidate[t] = tx[t].base.tree /\ tree # candidate[t]
    /\ candidate' = [candidate EXCEPT ![t] = tree]
    /\ UNCHANGED <<logVars, workspace, backup, snapshots, proposal, export,
                   staged, retired, archive, control, bounds>>

\* The Broker attests a teardown at most once per scope here; a second
\* attestation only supersedes the digest of the first.  Without the
\* handshake nothing reads the attestation.
RecordRuntimeTeardown(t, scope) ==
    /\ Ready /\ IsRun(t) /\ Handshake /\ tx[t].state # "NONE"
    /\ scope \notin tx[t].teardown
    /\ scope = "AGENT" => tx[t].state = "PREPARED"
    /\ tx[t].state \notin CrossingStates
    /\ RUNTIME_TEARDOWN_RECORDED(t, scope)
    /\ UNCHANGED <<disk, control, bounds>>

CancelRun(t) ==
    /\ Ready /\ "cancel" \in Requests /\ IsRun(t)
    /\ tx[t].state \in OpenStates \ {"CANCELLED"}
    /\ RUN_CANCELLED(t)
    /\ UNCHANGED <<disk, control, bounds>>

\* sealProposal, exportProposal, regeneratePlatformState and archiveAgent
\* first finish the pending intents.
RecoverPendingWorkerIntents ==
    /\ Ready /\ pending # {}
    /\ Run("intents", None, <<"finishIntent">>, None, None)
    /\ UNCHANGED <<logVars, disk, up, todo, refusal, bounds>>

\* The candidate and the workspace are read here; their diff says whether a
\* platform-managed path changed.
SealProposal(t) ==
    LET clean == workspace \in Tree /\ candidate[t].p = workspace.p IN
    /\ Ready /\ pending = {}
    /\ tx[t].state = "PREPARED" /\ IsRun(t)
    /\ TeardownRecorded(t, "AGENT")
    /\ candidate[t] # None /\ workspace # None
    /\ Run("seal", t,
           <<"importProposal", IF clean THEN "logSeal" ELSE "logFlawed", "finishIntent">>,
           candidate[t], None)
    /\ UNCHANGED <<logVars, disk, up, todo, refusal, bounds>>

ExportProposal(t) ==
    /\ Ready /\ "export" \in Requests /\ pending = {} /\ IsRun(t)
    /\ tx[t].state \in {"SEALED", "EVIDENCED", "PERMITTED"}
    /\ export[t] = None /\ proposal[t] # None /\ proposal[t] = tx[t].artifact
    /\ INTENT_PREPARED([kind |-> "export", txn |-> t, clean |-> TRUE])
    /\ Run("export", t, <<"finishIntent">>, None, None)
    /\ UNCHANGED <<disk, up, todo, refusal, bounds>>

\* The verifier's input hash must be the sealed artifact's; whether every
\* required check passed is the Broker-attested outcome.
RecordEvidence(t, passed) ==
    /\ Ready /\ tx[t].state = "SEALED" /\ IsRun(t)
    /\ TeardownRecorded(t, "ALL")
    /\ EVIDENCE_RECORDED(t, passed)
    /\ UNCHANGED <<disk, control, bounds>>

\* Mutant: the outcome of the required checks is not looked at.
IssuePermit_Mutant(t) ==
    /\ Ready /\ tx[t].state = "EVIDENCED"
    /\ TeardownRecorded(t, "ALL")
    /\ PERMIT_ISSUED(t)
    /\ UNCHANGED <<disk, control, bounds>>

IssuePermit(t) ==
    /\ Ready /\ tx[t].state = "EVIDENCED"
    /\ TeardownRecorded(t, "ALL")
    /\ tx[t].clean /\ tx[t].passed
    /\ PERMIT_ISSUED(t)
    /\ UNCHANGED <<disk, control, bounds>>

----------------------------------------------------------------------------
(* Promotion, rollback, disposition. *)

Finished == <<"dropBackup", "remove", "logDestroyed">>

\* Mutant: the version is acknowledged before its snapshot is captured.
SwapAndAcknowledge_Mutant ==
    <<"backup", "logBackup", "swap", "apply", "ack", "snapshot">> \o Finished

SwapAndAcknowledge == <<"backup", "logBackup", "swap", "snapshot", "apply", "ack">>
                        \o Finished

\* Mutant: a rollback leaves the session epoch as it is.
NextView_Mutant(t, tree, epochs) ==
    [ver |-> t, gen |-> head.gen + 1, tree |-> tree, epoch |-> head.epoch, cfg |-> head.cfg]

\* The View a commit of this tree installs.
NextView(t, tree, epochs) ==
    [ver |-> t, gen |-> head.gen + 1, tree |-> tree,
     epoch |-> head.epoch + epochs, cfg |-> head.cfg]

HoldsPermit(t) ==
    /\ tx[t].state = "PERMITTED" /\ tx[t].permit = "ISSUED"
    /\ TeardownRecorded(t, "ALL")

ApplyPromotion(t) ==
    /\ Ready /\ HoldsPermit(t)
    /\ CurrentCas(tx[t].base) /\ head.gen = tx[t].base.gen
    /\ proposal[t] = tx[t].artifact
    /\ PERMIT_CONSUMING(t, NextView(t, tx[t].artifact, 0))
    /\ Run("apply", t, SwapAndAcknowledge, None, None)
    /\ UNCHANGED <<disk, up, todo, refusal, bounds>>

\* appendPromotionCasConflict: the stale permit's holder is told CONFLICTED,
\* durably, unless the workspace is not HEAD's.
PromotionCasConflict(t) ==
    /\ Ready /\ HoldsPermit(t) /\ ~HasReceipt(t)
    /\ ~CurrentCas(tx[t].base)
    /\ workspace = head.tree
    /\ Run("conflict", t, <<"reject", "remove", "logDestroyed">>, None, "CONFLICTED")
    /\ UNCHANGED <<logVars, disk, up, todo, refusal, bounds>>

\* prepare: the kind ROLLBACK is the only one production accepts.
Prepare(t) ==
    /\ Ready /\ Admissible /\ ~IsRun(t) /\ tx[t].state = "NONE"
    /\ CurrentCas(head)
    /\ TRANSITION_PREPARED(t)
    /\ UNCHANGED <<disk, control, bounds>>

\* The trees of the versions: the initial one and every acknowledged commit.
VersionTrees ==
    {InitialTree} \cup {receipts[i].view.tree : i \in
        {j \in DOMAIN receipts : receipts[j].decision = "COMMITTED"}}

ApplyRollback(t, tree) ==
    /\ Ready /\ ~IsRun(t) /\ tx[t].state = "PREPARED"
    /\ CurrentCas(tx[t].base) /\ head.gen = tx[t].base.gen
    /\ tree \in VersionTrees \cap snapshots
    /\ Run("rollback", t, <<"authorize", "authorize", "authorize", "authorize">>, tree, None)
    /\ UNCHANGED <<logVars, disk, up, todo, refusal, bounds>>

\* Mutant: the receipt is appended before the artifacts are destroyed.
DisposeRun_Mutant(t, decision) ==
    /\ Ready /\ IsRun(t) /\ ~HasReceipt(t)
    /\ tx[t].state \in OpenStates \cup {"ROLLED_BACK"}
    /\ workspace = head.tree
    /\ Run("dispose", t, <<"reject", "remove", "logDestroyed">>, None, decision)
    /\ UNCHANGED <<logVars, disk, up, todo, refusal, bounds>>

DisposeRun(t, decision) ==
    /\ Ready /\ IsRun(t) /\ ~HasReceipt(t)
    /\ tx[t].state \in OpenStates \cup {"ROLLED_BACK"}
    /\ workspace = head.tree
    /\ Run("dispose", t, <<"remove", "logDestroyed", "reject">>, None, decision)
    /\ UNCHANGED <<logVars, disk, up, todo, refusal, bounds>>

\* Replay of a durable disposition: only the cleanup can have been missed.
DisposeReplay(t) ==
    /\ Ready /\ IsRun(t) /\ tx[t].state = "ROLLED_BACK" /\ HasReceipt(t)
    /\ ~tx[t].destroyed
    /\ Run("cleanup", t, <<"remove", "logDestroyed">>, None, None)
    /\ UNCHANGED <<logVars, disk, up, todo, refusal, bounds>>

----------------------------------------------------------------------------
(* Configuration, archive, repair, recovery. *)

RegeneratePlatformState(p) ==
    /\ Ready /\ Admissible /\ "platform" \in Requests /\ pending = {}
    /\ head.cfg < MaxConfigs
    /\ CurrentCas(head)
    /\ LET tree == [workspace EXCEPT !.p = p]
       IN  /\ staged' = tree
           /\ INTENT_PREPARED(
                [kind |-> "platform", base |-> head,
                 view |-> [ver |-> head.ver, gen |-> head.gen + 1, tree |-> tree,
                           epoch |-> head.epoch + 1, cfg |-> head.cfg + 1]])
    /\ Run("platform", None, <<"finishIntent">>, None, None)
    /\ UNCHANGED <<workspace, backup, snapshots, candidate, proposal, export,
                   retired, archive, up, todo, refusal, bounds>>

ArchiveAgent ==
    /\ Ready /\ Admissible /\ "archive" \in Requests /\ pending = {} /\ ~archived
    /\ CurrentCas(head)
    /\ INTENT_PREPARED([kind |-> "archive", view |-> head])
    /\ Run("archive", None, <<"finishIntent">>, None, None)
    /\ UNCHANGED <<disk, up, todo, refusal, bounds>>

\* The request names the current head and whatever the workspace now hashes to.
RepairRequest(t) ==
    /\ Ready /\ "repair" \in Requests /\ tx[t].state \in {"CONSUMING", "APPLIED"}
    /\ workspace' = Materialized
    /\ UNCHANGED <<logVars, backup, snapshots, candidate, proposal, export,
                   staged, retired, archive, up, todo, refusal, bounds>>

RepairRollback(t) ==
    /\ RepairRequest(t)
    /\ Run("repair", t, <<"evict", "reinstate", "logRepair">>, Materialized, "ABORTED")

RepairForward(t) ==
    /\ RepairRequest(t)
    /\ Run("repair", t, IF Materialized = tx[t].next.tree
                        THEN <<"logRepair">> ELSE <<"backup", "logBackup", "swap", "logRepair">>,
           Materialized, None)

\* A request whose compare-and-set fails on a missing workspace.
ProbeWorkspace ==
    /\ Ready /\ "probe" \in Requests /\ workspace = None
    /\ workspace' = Materialized
    /\ UNCHANGED <<logVars, backup, snapshots, candidate, proposal, export,
                   staged, retired, archive, control, bounds>>

BeginRecovery ==
    /\ todo' = order
    /\ refusal' = "none"
    /\ Run("recover", None, <<"finishIntent", "examine">>, None, "ABORTED")
    /\ UNCHANGED <<logVars, disk, bounds>>

RecoverAgent == Ready /\ BeginRecovery /\ UNCHANGED up

Start == up = "down" /\ ~corrupt /\ up' = "starting" /\ BeginRecovery

Crash ==
    /\ up # "down" /\ crashes < MaxCrashes
    /\ crashes' = crashes + 1
    /\ up' = "down" /\ op' = Idle /\ todo' = <<>>
    /\ UNCHANGED <<logVars, disk, refusal, faults, drifts>>

\* Someone other than the Worker writes the authoritative tree.
Drift(tree) ==
    /\ drifts < MaxDrifts /\ workspace \in Tree \ {tree}
    /\ workspace' = tree
    /\ drifts' = drifts + 1
    /\ UNCHANGED <<logVars, backup, snapshots, candidate, proposal, export, staged,
                   retired, archive, control, crashes, faults>>

----------------------------------------------------------------------------
(* The steps of a plan, all for transition op.txn. *)

\* What applyTreeAndAcknowledge does when a step of the swap fails.
Undo ==
    op' = [op EXCEPT !.kind = "undo",
             !.plan = <<"evict", "reinstate", "remove", "logDestroyed", "restore">>]

\* A step cannot be taken: an apply restores its base, any other handler throws.
Fail(reason) ==
    IF op.kind = "apply" /\ Head(op.plan) \in ApplySteps
    THEN Undo /\ UNCHANGED <<up, todo, refusal>>
    ELSE Throw(reason)

Go == Continue /\ UNCHANGED <<up, todo, refusal>>

\* The step has another durable effect before it is done.
Await == op' = op /\ UNCHANGED <<up, todo, refusal>>

\* The hash the swap expects to find: the admitted base, or for a repair the
\* one its request named.
ExpectedBase == IF op.kind = "repair" THEN op.tree ELSE tx[op.txn].base.tree

Source(t) ==
    IF IsRun(t) THEN proposal[t]
    ELSE IF tx[t].next.tree \in snapshots THEN tx[t].next.tree ELSE None

CloneStep ==
    /\ At("clone")
    /\ IF candidate[op.txn] # None \/ workspace = op.tree
       THEN candidate' = [candidate EXCEPT ![op.txn] = op.tree] /\ Go
       ELSE UNCHANGED candidate /\ Throw("WORKSPACE_CAS_MISMATCH")
    /\ UNCHANGED <<logVars, workspace, backup, snapshots, proposal, export,
                   staged, retired, archive, bounds>>

PrepareStep ==
    /\ At("prepare") /\ Go
    /\ TRANSITION_PREPARED(op.txn)
    /\ UNCHANGED <<disk, bounds>>

\* A copy under the proposal's name is deleted first.  The new one is made under
\* a staging name and renamed; proposal stands for either name.  A candidate that
\* is no longer what the request read leaves it under the first.
ImportProposalStep ==
    /\ At("importProposal")
    /\ IF proposal[op.txn] # None
       THEN proposal' = [proposal EXCEPT ![op.txn] = None] /\ Await
       ELSE /\ proposal' = [proposal EXCEPT ![op.txn] = candidate[op.txn]]
            /\ IF candidate[op.txn] = op.tree THEN Go ELSE Throw("IO")
    /\ UNCHANGED <<logVars, workspace, backup, snapshots, candidate, export,
                   staged, retired, archive, bounds>>

\* Until this event is durable the log does not know of the copy.
LogSealStep ==
    /\ At("logSeal") \/ At("logFlawed")
    /\ INTENT_PREPARED([kind |-> "seal", txn |-> op.txn,
                        clean |-> Head(op.plan) = "logSeal"])
    /\ Go
    /\ UNCHANGED <<disk, bounds>>

\* applyRollback authorizes itself: it appends the four events that a run
\* collects over its requests.
AuthorizeStep ==
    /\ At("authorize")
    /\ LET t == op.txn IN
       \/ tx[t].state = "PREPARED" /\ PROPOSAL_SEALED(t, op.tree, TRUE) /\ Continue
       \/ tx[t].state = "SEALED" /\ EVIDENCE_RECORDED(t, TRUE) /\ Continue
       \/ tx[t].state = "EVIDENCED" /\ PERMIT_ISSUED(t) /\ Continue
       \/ /\ tx[t].state = "PERMITTED"
          /\ PERMIT_CONSUMING(t, NextView(t, op.tree, 1))
          /\ Run("apply", t, SwapAndAcknowledge, None, None)
    /\ UNCHANGED <<disk, up, todo, refusal, bounds>>

BackupStep ==
    /\ At("backup")
    /\ IF /\ Source(op.txn) = tx[op.txn].next.tree
          /\ Materialized = ExpectedBase
          /\ backup[op.txn] = None
       THEN /\ backup' = [backup EXCEPT ![op.txn] = Materialized]
            /\ workspace' = None
            /\ Go
       ELSE /\ workspace' = Materialized
            /\ UNCHANGED backup
            /\ Fail("IO")
    /\ UNCHANGED <<logVars, snapshots, candidate, proposal, export,
                   staged, retired, archive, bounds>>

LogBackupStep ==
    /\ At("logBackup") /\ Go
    /\ BACKUP_CREATED(op.txn, ExpectedBase)
    /\ UNCHANGED <<disk, bounds>>

SwapStep ==
    /\ At("swap") /\ Go
    /\ workspace' = tx[op.txn].next.tree
    /\ UNCHANGED <<logVars, backup, snapshots, candidate, proposal, export,
                   staged, retired, archive, bounds>>

SnapshotStep ==
    /\ At("snapshot")
    /\ IF tx[op.txn].next.tree \in snapshots \cup {workspace}
       THEN snapshots' = snapshots \cup {tx[op.txn].next.tree} /\ Go
       ELSE UNCHANGED snapshots /\ Fail("IO")
    /\ UNCHANGED <<logVars, workspace, backup, candidate, proposal, export,
                   staged, retired, archive, bounds>>

ApplyStep ==
    /\ At("apply") /\ Go
    /\ WORKSPACE_APPLIED(op.txn)
    /\ UNCHANGED <<disk, bounds>>

AckStep ==
    /\ At("ack") /\ Go
    /\ TRANSITION_ACKNOWLEDGED(op.txn)
    /\ UNCHANGED <<disk, bounds>>

DropBackupStep ==
    /\ At("dropBackup") /\ Go
    /\ backup' = [backup EXCEPT ![op.txn] = None]
    /\ UNCHANGED <<logVars, workspace, snapshots, candidate, proposal, export,
                   staged, retired, archive, bounds>>

\* destroyRunArtifacts deletes one directory after the other, the sealed copy
\* only if the log knows of a proposal; the event follows.
RemoveStep ==
    /\ At("remove")
    /\ LET t == op.txn IN
       IF tx[t].destroyed THEN Go /\ UNCHANGED <<candidate, export, proposal>>
       ELSE IF ~TeardownRecorded(t, "ALL")
       THEN Throw("RUNTIME_TEARDOWN_REQUIRED") /\ UNCHANGED <<candidate, export, proposal>>
       ELSE IF candidate[t] # None
       THEN /\ candidate' = [candidate EXCEPT ![t] = None]
            /\ UNCHANGED <<export, proposal>> /\ Await
       ELSE IF export[t] # None
       THEN /\ export' = [export EXCEPT ![t] = None]
            /\ UNCHANGED <<candidate, proposal>> /\ Await
       ELSE /\ proposal' = IF tx[t].artifact = None THEN proposal
                           ELSE [proposal EXCEPT ![t] = None]
            /\ UNCHANGED <<candidate, export>> /\ Go
    /\ UNCHANGED <<logVars, workspace, backup, snapshots, staged, retired, archive, bounds>>

LogDestroyedStep ==
    /\ At("logDestroyed") /\ Go
    /\ IF tx[op.txn].destroyed THEN UNCHANGED logVars
       ELSE RUN_ARTIFACTS_DESTROYED(op.txn)
    /\ UNCHANGED <<disk, bounds>>

\* appendNonCommitDisposition, against HEAD or against the restored base.
DisposeStep(restored) ==
    LET t == op.txn
        authority == IF restored THEN tx[t].base ELSE head
        decision == IF restored THEN "ABORTED" ELSE op.decision
    IN  /\ IF Materialized = authority.tree /\ ~HasReceipt(t)
           THEN NON_COMMIT_DISPOSITIONED(t, decision, restored) /\ Go
           ELSE UNCHANGED logVars /\ Throw("RECOVERY_REQUIRED")
        /\ workspace' = Materialized
        /\ UNCHANGED <<backup, snapshots, candidate, proposal, export,
                       staged, retired, archive, bounds>>

RejectStep == At("reject") /\ DisposeStep(FALSE)
RestoreStep == At("restore") /\ DisposeStep(TRUE)

\* restoreBackup, first half: the current tree gives up the name.
EvictStep ==
    /\ At("evict")
    /\ IF backup[op.txn] = None THEN Go /\ UNCHANGED workspace
       ELSE IF backup[op.txn] # tx[op.txn].base.tree
       THEN Throw("RECOVERY_REQUIRED") /\ UNCHANGED workspace
       ELSE workspace' = None /\ Go
    /\ UNCHANGED <<logVars, backup, snapshots, candidate, proposal, export,
                   staged, retired, archive, bounds>>

\* Second half: the backup takes it; without one the base must be in place.
ReinstateStep ==
    /\ At("reinstate")
    /\ LET t == op.txn
           base == tx[t].base.tree
           found == IF backup[t] = None THEN Materialized ELSE backup[t]
       IN  IF found = base
           THEN workspace' = base /\ backup' = [backup EXCEPT ![t] = None] /\ Go
           ELSE /\ workspace' = IF backup[t] = None THEN Materialized ELSE workspace
                /\ UNCHANGED backup
                /\ Throw("RECOVERY_REQUIRED")
    /\ UNCHANGED <<logVars, snapshots, candidate, proposal, export,
                   staged, retired, archive, bounds>>

\* REPAIR_APPLIED; then the operator's choice is carried out.
LogRepairStep ==
    /\ At("logRepair")
    /\ REPAIR_APPLIED(op.txn)
    /\ Run("repaired", op.txn,
           IF op.decision = None THEN <<"snapshot", "apply", "ack", "dropBackup">>
                                 ELSE <<"remove", "logDestroyed", "restore">>, None, None)
    /\ UNCHANGED <<disk, up, todo, refusal, bounds>>

----------------------------------------------------------------------------
(* recoverPendingWorkerIntents: the oldest pending intent is carried one     *)
(* durable effect further, until its completion event is appended.           *)

FinishSeal(intent) ==
    LET t == intent.txn IN
    IF tx[t].state # "PREPARED" \/ proposal[t] = None
    THEN Throw("RECOVERY_REQUIRED") /\ UNCHANGED <<logVars, disk>>
    ELSE IF candidate[t] # None
    THEN /\ candidate' = [candidate EXCEPT ![t] = None]
         /\ UNCHANGED <<logVars, workspace, backup, snapshots, proposal, export,
                        staged, retired, archive>>
         /\ Await
    ELSE PROPOSAL_SEALED(t, proposal[t], intent.clean) /\ UNCHANGED disk /\ Await

FinishExport(intent) ==
    LET t == intent.txn IN
    IF ~ProposalSealedState(t)
    THEN Throw("RECOVERY_REQUIRED") /\ UNCHANGED <<logVars, disk>>
    ELSE IF export[t] # tx[t].artifact
    THEN /\ export' = [export EXCEPT ![t] = tx[t].artifact]
         /\ UNCHANGED <<logVars, workspace, backup, snapshots, candidate, proposal,
                        staged, retired, archive>>
         /\ Await
    ELSE PROPOSAL_EXPORTED(t) /\ UNCHANGED disk /\ Await

FinishPlatformRegeneration(intent) ==
    LET base == intent.base.tree
        target == intent.view.tree
    IN  IF \/ head # intent.base
           \/ workspace # target /\ staged # target
           \/ workspace # target /\ <<workspace, retired>> \notin {<<base, None>>, <<None, base>>}
        THEN Throw("RECOVERY_REQUIRED") /\ UNCHANGED <<logVars, disk>>
        ELSE IF workspace = target
        THEN /\ PLATFORM_STATE_REGENERATED(intent.view)
             /\ staged' = None /\ retired' = None
             /\ UNCHANGED <<workspace, backup, snapshots, candidate, proposal, export,
                            archive>>
             /\ Await
        ELSE /\ IF workspace = None
                THEN workspace' = staged /\ staged' = None /\ UNCHANGED retired
                ELSE retired' = workspace /\ workspace' = None /\ UNCHANGED staged
             /\ UNCHANGED <<logVars, backup, snapshots, candidate, proposal, export,
                            archive>>
             /\ Await

FinishArchive(intent) ==
    LET target == intent.view.tree
    IN  IF \/ head # intent.view
           \/ <<workspace, archive>> \notin {<<target, None>>, <<None, target>>}
        THEN Throw("RECOVERY_REQUIRED") /\ UNCHANGED <<logVars, disk>>
        ELSE IF workspace = target
        THEN /\ archive' = workspace /\ workspace' = None
             /\ UNCHANGED <<logVars, backup, snapshots, candidate, proposal, export,
                            staged, retired>>
             /\ Await
        ELSE AGENT_ARCHIVED /\ UNCHANGED disk /\ Await

FinishIntentStep ==
    /\ At("finishIntent") /\ UNCHANGED bounds
    /\ IF pending = {}
       THEN /\ UNCHANGED <<logVars, disk>>
            /\ IF archived /\ <<workspace, archive>> # <<None, head.tree>>
               THEN Throw("RECOVERY_REQUIRED")   \* cleanupCompletedIntent
               ELSE Go
       ELSE \E intent \in pending :
            \/ intent.kind = "seal" /\ FinishSeal(intent)
            \/ intent.kind = "export" /\ FinishExport(intent)
            \/ intent.kind = "platform" /\ FinishPlatformRegeneration(intent)
            \/ intent.kind = "archive" /\ FinishArchive(intent)

----------------------------------------------------------------------------
(* recoverAgent, one transition at a time. *)

\* Mutant: recovery applies again what is already applied.
ForwardPlan_Mutant(t) == <<"apply", "snapshot", "ack">> \o Finished

ForwardPlan(t) ==
    (IF tx[t].state = "APPLIED" THEN <<>> ELSE <<"apply">>) \o <<"snapshot", "ack">> \o Finished

\* Mutant: recovery does not look for the backup of an interrupted swap.
SwapInterrupted_Mutant(t) == FALSE

\* The process was killed between the two renames of the swap.
SwapInterrupted(t) ==
    tx[t].state \in CrossingStates /\ workspace = None /\ backup[t] # None

\* The plan that recovers one transition, given what its workspace hashes to;
\* <<>> where the code throws RECOVERY_REQUIRED.
RecoveryPlan(t) ==
    IF HasReceipt(t) \/ tx[t].state = "ACKNOWLEDGED" THEN Finished
    ELSE IF tx[t].state \in OpenStates \cup {"ROLLED_BACK"}
    THEN IF Materialized = head.tree THEN Finished \o <<"reject">> ELSE <<>>
    ELSE IF Materialized = tx[t].next.tree
    THEN ForwardPlan(t)
    ELSE IF Materialized = tx[t].base.tree THEN Finished \o <<"restore">>
    ELSE <<>>

ExamineStep ==
    /\ At("examine") /\ UNCHANGED <<logVars, bounds>>
    /\ IF todo = <<>>
       THEN /\ op' = [op EXCEPT !.plan = <<"settle">>]
            /\ UNCHANGED <<disk, up, todo, refusal>>
       ELSE LET t == Head(todo) IN
            IF SwapInterrupted(t)
            THEN /\ op' = [op EXCEPT !.txn = t, !.plan = <<"reinstate", "examine">>]
                 /\ UNCHANGED <<disk, up, todo, refusal>>
            ELSE /\ IF RecoveryPlan(t) = <<>>
                    THEN Throw("RECOVERY_REQUIRED")
                    ELSE /\ op' = [op EXCEPT !.txn = t,
                                     !.plan = RecoveryPlan(t) \o <<"examine">>]
                         /\ todo' = Tail(todo)
                         /\ UNCHANGED <<up, refusal>>
                 /\ workspace' = IF RecoveryPlan(t) = Finished THEN workspace
                                 ELSE Materialized
                 /\ UNCHANGED <<backup, snapshots, candidate, proposal, export,
                                staged, retired, archive>>

\* The rebuilt HEAD must be what the directory holds.
SettleStep ==
    /\ At("settle") /\ UNCHANGED <<logVars, disk, bounds>>
    /\ IF workspace = head.tree \/ archived
       THEN /\ op' = Idle
            /\ up' = IF up = "starting" THEN "sweeping" ELSE up
            /\ UNCHANGED <<todo, refusal>>
       ELSE Throw("RECOVERY_REQUIRED")

----------------------------------------------------------------------------
(* The rest of initialize, once this Agent has been recovered. *)

\* A copy that neither a sealed proposal nor a pending intent names.
Orphan(t) ==
    /\ proposal[t] # None /\ ~ProposalSealedState(t)
    /\ \A i \in pending : ~Completing(i, "seal", t)

\* gcStartupOrphans deletes the orphans one by one; then requests are served.
Sweep ==
    /\ up = "sweeping" /\ ~corrupt
    /\ \/ /\ \E t \in Txn : Orphan(t) /\ proposal' = [proposal EXCEPT ![t] = None]
          /\ UNCHANGED up
       \/ /\ \A t \in Txn : ~Orphan(t)
          /\ up' = "serving" /\ UNCHANGED proposal
    /\ UNCHANGED <<logVars, workspace, backup, snapshots, candidate, export, staged,
                   retired, archive, op, todo, refusal, bounds>>

\* The recovery of another Agent, or the sweep itself, throws: initialize stops
\* and this Agent's orphans stay.
InitializeThrows ==
    /\ up = "sweeping" /\ up' = "down"
    /\ UNCHANGED <<logVars, disk, op, todo, refusal, bounds>>

----------------------------------------------------------------------------
(* I/O errors. *)

\* After a durable terminal event the cleanup is best effort: an error in it
\* is swallowed.  destroyRunArtifacts fails as a whole.  When the second
\* rename of the swap fails, the first is undone before the error is thrown;
\* so it is in restoreBackup, where that leaves what a failure of the first
\* leaves: only a reinstatement that evicted nothing fails by itself.
BestEffort == op.kind \in {"apply", "conflict"} /\ Head(op.plan) \in {"dropBackup", "remove", "logDestroyed"}

Fault ==
    /\ op.plan # <<>> /\ ~corrupt /\ faults < MaxFaults
    /\ Head(op.plan) = "reinstate" => op.kind = "recover" \/ backup[op.txn] = None
    /\ faults' = faults + 1
    /\ IF BestEffort
       THEN /\ op' = IF Head(op.plan) = "dropBackup" THEN [op EXCEPT !.plan = Tail(@)] ELSE Idle
            /\ UNCHANGED <<up, todo, refusal>>
       ELSE Fail(IF Head(op.plan) = "reinstate" /\ backup[op.txn] # None
                 THEN "RECOVERY_REQUIRED" ELSE "IO")
    /\ IF Head(op.plan) = "swap"
       THEN /\ workspace' = backup[op.txn]
            /\ backup' = [backup EXCEPT ![op.txn] = None]
       ELSE UNCHANGED <<workspace, backup>>
    /\ UNCHANGED <<logVars, snapshots, candidate, proposal, export, staged, retired,
                   archive, crashes, drifts>>

----------------------------------------------------------------------------

Step ==
    \/ CloneStep \/ PrepareStep \/ ImportProposalStep \/ LogSealStep \/ AuthorizeStep
    \/ BackupStep \/ LogBackupStep \/ SwapStep \/ SnapshotStep \/ ApplyStep \/ AckStep
    \/ DropBackupStep \/ RemoveStep \/ LogDestroyedStep \/ RejectStep \/ RestoreStep
    \/ EvictStep \/ ReinstateStep \/ LogRepairStep
    \/ FinishIntentStep \/ ExamineStep \/ SettleStep

Request(t) ==
    \/ PrepareRun(t) \/ CancelRun(t) \/ SealProposal(t) \/ ExportProposal(t)
    \/ \E scope \in {"AGENT", "ALL"} : RecordRuntimeTeardown(t, scope)
    \/ \E passed \in BOOLEAN : RecordEvidence(t, passed)
    \/ IssuePermit(t) \/ ApplyPromotion(t) \/ PromotionCasConflict(t)
    \/ Prepare(t) \/ \E tree \in Tree : ApplyRollback(t, tree)
    \/ \E decision \in Dispositions : DisposeRun(t, decision)
    \/ DisposeReplay(t) \/ RepairRollback(t) \/ RepairForward(t)

Next ==
    \/ \E t \in Txn : Request(t)
    \/ \E t \in Txn, tree \in Tree : AgentEdits(t, tree)
    \/ RecoverPendingWorkerIntents \/ RecoverAgent
    \/ \E p \in Platform : RegeneratePlatformState(p)
    \/ ArchiveAgent \/ ProbeWorkspace
    \/ Step \/ Fault
    \/ Crash \/ Start \/ Sweep \/ InitializeThrows
    \/ \E tree \in Tree : Drift(tree)

Spec == Init /\ [][Next]_vars
=============================================================================
