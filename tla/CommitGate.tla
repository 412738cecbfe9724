----------------------------- MODULE CommitGate -----------------------------
(***************************************************************************)
(* The in-process CommitGate (commitgate/coordinator.ts and the stores and *)
(* the transaction it drives, recovery.ts, the local path of               *)
(* agent-service.ts): one Agent whose runs, rollbacks and configuration    *)
(* changes are admitted one at a time.                                     *)
(*                                                                         *)
(* An operation is a record with a program counter; an action is what the  *)
(* code does up to the next durable write.  The process may die between    *)
(* any two of them (Crash) and every one may fail (Fault, which continues  *)
(* where the code's catch clauses continue).  Startup recovery is made of  *)
(* the same steps and may die or fail as well.                             *)
(*                                                                         *)
(* A hash is the tree it is the hash of.  Candidate, staging and "failed"  *)
(* directories belong to one operation and are not modelled.               *)
(***************************************************************************)
EXTENDS Integers, Sequences, FiniteSets

CONSTANTS
    Run,        \* runs of the Agent
    Rollback,   \* rollbacks of its workspace
    Initial,    \* content of the first version
    Edited,     \* content somebody else puts into the workspace
    None,
    Retained,   \* maxUniqueSnapshots of the version store ...
    RetainedAtStartup,  \* ... and of the one that recovery makes
    MaxOperations, \* bound: runs, rollbacks and configuration changes
    MaxConfigs, \* bound: configuration changes
    MaxTroubles \* bound: deaths of the process, durable writes that fail and
                \* writes to the workspace from outside

ASSUME GateAssumption ==
    /\ Run \cap Rollback = {} /\ {Initial, Edited, None} \cap (Run \cup Rollback) = {}
    /\ Initial # Edited /\ None \notin {Initial, Edited}
    /\ {MaxOperations, MaxConfigs, MaxTroubles} \subseteq Nat
    /\ {Retained, RetainedAtStartup} \subseteq Nat \ {0, 1}

Id == Run \cup Rollback
Content == Run \cup {Initial, Edited}

\* Versioned content and the configuration AGENTS.md was rendered from.
Tree == [v : Content, p : 0..MaxConfigs]

VARIABLES
    \* the disk
    ws,         \* the persistent workspace, None while it is renamed away
    backup,     \* backups/<id>
    journal,    \* journals/<id>.json
    permit,     \* permits/<id>.json of promotions and of rollbacks
    proposal,   \* proposals/<id>: the sealed payload
    receipt,    \* receipts/<id>.json
    versions,   \* versions/index.json, the head is the last one
    snapshots,  \* the index's records of snapshots, oldest first
    \* the product database
    db,         \* the Agent's row and its head version's row
    published,  \* status of each run's row
    spoken,     \* runs with an AUTHORITATIVE message
    \* the process
    up,         \* "up", "down" or "starting"
    reserved,   \* recoveryReservations has the Agent
    op,         \* the operation in progress
    startup,    \* what startup recovery has found
    \* the bounds
    crashes, faults, drifts

diskVars == <<ws, backup, journal, permit, proposal, receipt, versions, snapshots>>
dbVars == <<db, published, spoken>>
processVars == <<up, reserved, startup>>
boundVars == <<crashes, faults, drifts>>
vars == <<diskVars, dbVars, processVars, op, boundVars>>

Idle == [id |-> None, pc |-> "idle", tree |-> None, base |-> None, gen |-> 0,
         verdict |-> None, outcome |-> None, retried |-> FALSE, then |-> None,
         before |-> None]

NoReport == [todo |-> {}, rolled |-> {}, acked |-> {}, manual |-> "no"]

Init ==
    /\ ws = [v |-> Initial, p |-> 0]
    /\ backup = [i \in Id |-> None] /\ journal = [i \in Id |-> None]
    /\ permit = [i \in Id |-> "NONE"] /\ proposal = [r \in Run |-> "NONE"]
    /\ receipt = [r \in Run |-> None]
    /\ versions = <<[id |-> Initial, v |-> Initial]>>
    /\ snapshots = <<[v |-> Initial, pruned |-> FALSE]>>
    /\ db = [status |-> "ready", head |-> Initial, headLive |-> ws, live |-> ws, gen |-> 1,
             cfg |-> 0, locked |-> FALSE, thread |-> None]
    /\ published = [r \in Run |-> "none"] /\ spoken = {}
    /\ up = "up" /\ reserved = FALSE /\ op = Idle /\ startup = NoReport
    /\ crashes = 0 /\ faults = 0 /\ drifts = 0

----------------------------------------------------------------------------
(* Helpers. *)

IsRun(i) == i \in Run
Latest == versions[Len(versions)]
Available(index) == {k \in DOMAIN index : ~index[k].pruned}
Restorable == {snapshots[k].v : k \in Available(snapshots)}

At(pc) == op.pc = pc
Goto(pc) == op' = [op EXCEPT !.pc = pc]
Finish == op' = Idle
Serving == up = "up"
Recovering == up = "starting"

SetJournal(i, state) == journal' = [journal EXCEPT ![i].state = state]
SetReceipt(r, value) == receipt' = [receipt EXCEPT ![r] = value]
SetPermit(state) == permit' = [permit EXCEPT ![op.id] = state]

Phase(r) == IF receipt[r] = None THEN "NONE" ELSE receipt[r].phase
AwaitsAck(r) == Phase(r) = "PENDING_PROMOTION" /\ receipt[r].decision = "COMMITTED"

MoreTrouble == crashes + faults + drifts < MaxTroubles
Operations ==
    db.cfg + Cardinality({r \in Run : published[r] # "none"})
           + Cardinality({x \in Rollback : permit[x] # "NONE"})

\* assertRecoveryReady, assertNoActiveMutation and the status of the row.
Admits(statuses) ==
    /\ Serving /\ op = Idle
    /\ ~db.locked /\ ~reserved /\ db.status \in statuses

\* prune: over the limit, the oldest snapshots but the initial and the head's
\* are marked as pruned, then deleted.
Retention(index, head) ==
    LET excess == Cardinality(Available(index)) - (IF Recovering THEN RetainedAtStartup ELSE Retained)
        free == {k \in Available(index) : index[k].v \notin {Initial, head.v}}
        dropped == {k \in free : Cardinality({j \in free : j < k}) < excess}
    IN [k \in DOMAIN index |-> [index[k] EXCEPT !.pruned = @ \/ k \in dropped]]

\* A version's content is imported unless its snapshot is there; a pruned one's
\* record is replaced.
Without(index, v) ==
    IF \E k \in DOMAIN index : index[k].v = v
    THEN LET at == CHOOSE k \in DOMAIN index : index[k].v = v IN
         SubSeq(index, 1, at - 1) \o SubSeq(index, at + 1, Len(index))
    ELSE index
Import(v) ==
    IF v \in Restorable THEN snapshots
    ELSE Append(Without(snapshots, v), [v |-> v, pruned |-> FALSE])

----------------------------------------------------------------------------
(* A run, up to its permit. *)

\* sendMessage: the run is queued and the Agent's row is busy.
Submit(r) ==
    /\ Admits({"ready"}) /\ published[r] = "none" /\ Operations < MaxOperations
    /\ published' = [published EXCEPT ![r] = "queued"]
    /\ db' = [db EXCEPT !.status = "busy"]
    /\ op' = [Idle EXCEPT !.id = r, !.pc = "bind", !.outcome = "decided"]
    /\ UNCHANGED <<diskVars, spoken, processVars, boundVars>>

\* executeRun binds the run to the View the row has now.
Bind ==
    /\ At("bind")
    /\ published' = [published EXCEPT ![op.id] = "running"]
    /\ op' = [op EXCEPT !.pc = "prepare", !.base = db.live, !.gen = db.gen]
    /\ UNCHANGED <<diskVars, db, spoken, processVars, boundVars>>

\* prepare: the candidate is copied and the View captured.  The View provider
\* answers from the database, captureStateView refuses it for other bytes.
Prepare ==
    /\ At("prepare")
    /\ op' = IF ws = op.base THEN [op EXCEPT !.pc = "agent"]
             ELSE [op EXCEPT !.pc = "admission", !.verdict = "ABORTED", !.outcome = "failed"]
    /\ UNCHANGED <<diskVars, dbVars, processVars, boundVars>>

\* The workspace changes while it is copied.
PrepareConflict ==
    /\ At("prepare") /\ MoreTrouble /\ ws.v # Edited
    /\ ws' = [ws EXCEPT !.v = Edited] /\ drifts' = drifts + 1
    /\ op' = [op EXCEPT !.pc = "admission", !.verdict = "CONFLICTED"]
    /\ UNCHANGED <<backup, journal, permit, proposal, receipt, versions, snapshots, dbVars,
                   processVars, crashes, faults>>

NewReceipt(phase, decision, final) ==
    [phase |-> phase, decision |-> decision, base |-> op.base, final |-> final,
     gen |-> IF decision = "COMMITTED" THEN op.gen + 1 ELSE op.gen]

\* recordAdmissionFailure: the receipt names the database's hash, unobserved.
RecordAdmissionFailure ==
    /\ At("admission")
    /\ SetReceipt(op.id, NewReceipt("PENDING_DISPOSITION", op.verdict, op.base))
    /\ Goto("publish")
    /\ UNCHANGED <<ws, backup, journal, permit, proposal, versions, snapshots, dbVars,
                   processVars, boundVars>>

\* The Agent has run: its candidate is new content or what it was given.
RunAgent ==
    /\ At("agent") /\ op.outcome = "decided"
    /\ \E v \in {op.id, op.base.v} : op' = [op EXCEPT !.pc = "seal", !.tree = [op.base EXCEPT !.v = v]]
    /\ UNCHANGED <<diskVars, dbVars, processVars, boundVars>>

\* The Agent fails, or the run was cancelled before it was verified.
AgentEnds ==
    /\ At("agent") \/ (At("seal") /\ op.outcome = "cancelled")
    /\ op' = [op EXCEPT !.pc = "reject", !.verdict = "ABORTED",
                        !.outcome = IF op.outcome = "cancelled" THEN @ ELSE "failed"]
    /\ UNCHANGED <<diskVars, dbVars, processVars, boundVars>>

Rejects(verdict) == op' = [op EXCEPT !.pc = "reject", !.verdict = verdict]

\* verifyAndFinalize seals the candidate ...
Seal ==
    /\ At("seal") /\ op.outcome = "decided"
    /\ proposal' = [proposal EXCEPT ![op.id] = "SEALED"]
    /\ Goto("verify")
    /\ UNCHANGED <<ws, backup, journal, permit, receipt, versions, snapshots, dbVars, processVars,
                   boundVars>>

\* ... unless it is beyond its budget or holds what no proposal may hold.
SealRefuses ==
    /\ At("seal") /\ op.outcome = "decided" /\ Rejects("QUARANTINED")
    /\ UNCHANGED <<diskVars, dbVars, processVars, boundVars>>

\* Static policy, trusted checks, and the View once more.
Verify ==
    /\ At("verify")
    /\ \/ Rejects("QUARANTINED") \/ Rejects("ABORTED")
       \/ op.outcome = "decided" /\ ws = op.base /\ Goto("issue")
    /\ UNCHANGED <<diskVars, dbVars, processVars, boundVars>>

\* Cancelling aborts the signal and the container; the run finds out later.
Cancel ==
    /\ Serving /\ IsRun(op.id) /\ op.outcome = "decided"
    /\ op.pc \in {"agent", "seal", "verify", "issue", "claim", "record", "stage", "cas",
                  "consume", "promoting", "vacate", "fill", "pendingDb", "final"}
    /\ op' = [op EXCEPT !.outcome = "cancelled"]
    /\ UNCHANGED <<diskVars, dbVars, processVars, boundVars>>

----------------------------------------------------------------------------
(* The transition of the workspace, for a promotion and for a rollback. *)

Issue ==
    /\ At("issue")
    /\ SetPermit("ISSUED") /\ Goto("claim")
    /\ UNCHANGED <<ws, backup, journal, proposal, receipt, versions, snapshots, dbVars,
                   processVars, boundVars>>

\* Mutant: the receipt is left until after the swap.
Claim_Mutant ==
    /\ At("claim") /\ permit[op.id] = "ISSUED"
    /\ IsRun(op.id) => proposal[op.id] = "SEALED"
    /\ SetPermit("CONSUMING")
    /\ Goto("stage")
    /\ UNCHANGED <<ws, backup, journal, proposal, receipt, versions, snapshots, dbVars,
                   processVars, boundVars>>

\* The claim is an exclusive file, then the state CONSUMING.
Claim ==
    /\ At("claim") /\ permit[op.id] = "ISSUED"
    /\ IsRun(op.id) => proposal[op.id] = "SEALED"
    /\ SetPermit("CONSUMING")
    /\ Goto(IF IsRun(op.id) THEN "record" ELSE "stage")
    /\ UNCHANGED <<ws, backup, journal, proposal, receipt, versions, snapshots, dbVars,
                   processVars, boundVars>>

\* The protocol-complete receipt, before the swap.
RecordPromotion ==
    /\ At("record")
    /\ SetReceipt(op.id, NewReceipt("PENDING_PROMOTION", "COMMITTED", op.tree))
    /\ Goto("stage")
    /\ UNCHANGED <<ws, backup, journal, permit, proposal, versions, snapshots, dbVars,
                   processVars, boundVars>>

\* promote: the staging directory and its journal.
Stage ==
    /\ At("stage") /\ permit[op.id] = "CONSUMING"
    /\ journal' = [journal EXCEPT ![op.id] =
                      [state |-> "PREPARING", base |-> op.base, target |-> op.tree]]
    /\ Goto("cas")
    /\ UNCHANGED <<ws, backup, permit, proposal, receipt, versions, snapshots, dbVars,
                   processVars, boundVars>>

CompareBase ==
    /\ At("cas") /\ ws = op.base /\ Goto("consume")
    /\ UNCHANGED <<diskVars, dbVars, processVars, boundVars>>

\* The workspace is another one: a promotion's assertCurrentView throws (the
\* View provider, see Prepare) and leaves the journal; a rollback has none,
\* its journal is closed.
CompareConflict ==
    /\ At("cas") /\ ws # op.base
    /\ IF IsRun(op.id)
       THEN Rejects("ABORTED") /\ UNCHANGED journal
       ELSE op' = [op EXCEPT !.pc = "withdraw"] /\ SetJournal(op.id, "ROLLED_BACK")
    /\ UNCHANGED <<ws, backup, permit, proposal, receipt, versions, snapshots, dbVars,
                   processVars, boundVars>>

Consume ==
    /\ At("consume") /\ permit[op.id] = "CONSUMING"
    /\ SetPermit("CONSUMED") /\ Goto("promoting")
    /\ UNCHANGED <<ws, backup, journal, proposal, receipt, versions, snapshots, dbVars,
                   processVars, boundVars>>

\* Mutant: the journal does not say that the swap begins.
Promoting_Mutant ==
    /\ At("promoting") /\ Goto("vacate")
    /\ UNCHANGED <<diskVars, dbVars, processVars, boundVars>>

Promoting ==
    /\ At("promoting")
    /\ SetJournal(op.id, "PROMOTING") /\ Goto("vacate")
    /\ UNCHANGED <<ws, backup, permit, proposal, receipt, versions, snapshots, dbVars,
                   processVars, boundVars>>

\* The two renames of the swap.
Vacate ==
    /\ At("vacate")
    /\ backup' = [backup EXCEPT ![op.id] = ws] /\ ws' = None
    /\ Goto("fill")
    /\ UNCHANGED <<journal, permit, proposal, receipt, versions, snapshots, dbVars, processVars,
                   boundVars>>

Fill ==
    /\ At("fill")
    /\ ws' = journal[op.id].target
    /\ Goto("pendingDb")
    /\ UNCHANGED <<backup, journal, permit, proposal, receipt, versions, snapshots, dbVars,
                   processVars, boundVars>>

\* Mutant: the backup goes as soon as the new workspace is in place.
PendingDatabase_Mutant ==
    /\ At("pendingDb")
    /\ SetJournal(op.id, "PROMOTED_PENDING_DB")
    /\ backup' = [backup EXCEPT ![op.id] = None]
    /\ Goto(IF IsRun(op.id) THEN "final" ELSE "append")
    /\ UNCHANGED <<ws, permit, proposal, receipt, versions, snapshots, dbVars, processVars,
                   boundVars>>

PendingDatabase ==
    /\ At("pendingDb")
    /\ SetJournal(op.id, "PROMOTED_PENDING_DB")
    /\ Goto(IF IsRun(op.id) THEN "final" ELSE "append")
    /\ UNCHANGED <<ws, backup, permit, proposal, receipt, versions, snapshots, dbVars,
                   processVars, boundVars>>

\* The receipt gets the promoted hash; a run cancelled by now is taken back
\* (CommitGateRunner.run), one cancelled later is not.
RecordFinal ==
    /\ At("final")
    /\ SetReceipt(op.id, [receipt[op.id] EXCEPT !.final = ws])
    /\ op' = IF op.outcome = "cancelled" THEN [op EXCEPT !.pc = "undo", !.then = "revert"]
             ELSE [op EXCEPT !.pc = "append"]
    /\ UNCHANGED <<ws, backup, journal, permit, proposal, versions, snapshots, dbVars,
                   processVars, boundVars>>

\* stageAcknowledge, stageRollback: the new version.  Nothing is pruned while
\* the journal is open (deferPrune).
AppendVersion ==
    /\ At("append")
    /\ LET v == IF IsRun(op.id) THEN op.tree.v ELSE ws.v IN
       /\ versions' = Append(versions, [id |-> op.id, v |-> v])
       /\ snapshots' = Import(v)
    /\ Goto("project")
    /\ UNCHANGED <<ws, backup, journal, permit, proposal, receipt, dbVars, processVars,
                   boundVars>>

\* persistCompletedRun, performRollback: the database moves to the new head.
\* The row stays busy and the run "running" until the journal is acknowledged.
Project ==
    /\ At("project")
    /\ LET live == IF IsRun(op.id) THEN receipt[op.id].final ELSE ws IN
       db' = [db EXCEPT !.head = op.id, !.headLive = live, !.live = live, !.gen = @ + 1,
                        !.thread = IF IsRun(op.id) THEN op.id ELSE None]
    /\ spoken' = IF IsRun(op.id) THEN spoken \cup {op.id} ELSE spoken
    /\ Goto("dropBackup")
    /\ UNCHANGED <<diskVars, published, processVars, boundVars>>

----------------------------------------------------------------------------
(* The acknowledgement, by the operation itself or by startup recovery. *)

DropBackup ==
    /\ At("dropBackup")
    /\ backup' = [backup EXCEPT ![op.id] = None]
    /\ Goto("acknowledge")
    /\ UNCHANGED <<ws, journal, permit, proposal, receipt, versions, snapshots, dbVars,
                   processVars, boundVars>>

AcknowledgeJournal ==
    /\ At("acknowledge")
    /\ SetJournal(op.id, "ACKNOWLEDGED") /\ Goto("retention")
    /\ UNCHANGED <<ws, backup, permit, proposal, receipt, versions, snapshots, dbVars,
                   processVars, boundVars>>

ReleaseRetention ==
    /\ At("retention")
    /\ snapshots' = Retention(snapshots, Latest)
    /\ Goto(IF ~IsRun(op.id) THEN "release"
            ELSE IF Recovering THEN "terminal" ELSE "destroy")
    /\ UNCHANGED <<ws, backup, journal, permit, proposal, receipt, versions, dbVars,
                   processVars, boundVars>>

DestroyProposal ==
    /\ At("destroy")
    /\ proposal' = [proposal EXCEPT ![op.id] = "DESTROYED"]
    /\ Goto("terminal")
    /\ UNCHANGED <<ws, backup, journal, permit, receipt, versions, snapshots, dbVars, processVars,
                   boundVars>>

\* A terminal receipt is never written again (ReceiptStore.put).
TerminalReceipt ==
    /\ At("terminal")
    /\ IF receipt[op.id] = None \/ Phase(op.id) = "TERMINAL" THEN UNCHANGED receipt
       ELSE SetReceipt(op.id, [receipt[op.id] EXCEPT !.phase = "TERMINAL"])
    /\ Goto("release")
    /\ UNCHANGED <<ws, backup, journal, permit, proposal, versions, snapshots, dbVars,
                   processVars, boundVars>>

\* releaseCommittedAgent, the end of performRollback.
Release ==
    /\ At("release") /\ Serving
    /\ published' = IF IsRun(op.id) THEN [published EXCEPT ![op.id] = "completed"] ELSE published
    /\ db' = [db EXCEPT !.status = "ready"]
    /\ Finish
    /\ UNCHANGED <<diskVars, spoken, processVars, boundVars>>

----------------------------------------------------------------------------
(* Rejection: coordinator.reject and abort, persistRejectedRun and            *)
(* persistRunFailure.                                                         *)

\* The permit is revoked unless it is consumed and the payload is destroyed;
\* if that fails, cleanup is deferred.
Reject ==
    /\ At("reject")
    /\ permit' = [permit EXCEPT ![op.id] = IF @ \in {"ISSUED", "CONSUMING"} THEN "REVOKED" ELSE @]
    /\ \/ proposal' = [proposal EXCEPT ![op.id] = IF @ = "SEALED" THEN "DESTROYED" ELSE @]
          /\ UNCHANGED faults
       \/ proposal[op.id] = "SEALED" /\ UNCHANGED proposal
          /\ MoreTrouble /\ faults' = faults + 1
    /\ Goto("rejectReceipt")
    /\ UNCHANGED <<ws, backup, journal, receipt, versions, snapshots, dbVars, processVars,
                   crashes, drifts>>

\* The receipt of a run that was not promoted, of a cancelled one a second
\* time.  The terminal receipt of a promotion that was taken back stays
\* (ReceiptStore.put).
RejectReceipt ==
    /\ At("rejectReceipt")
    /\ IF Phase(op.id) = "TERMINAL" THEN UNCHANGED receipt
       ELSE SetReceipt(op.id, NewReceipt("PENDING_DISPOSITION", op.verdict, ws))
    /\ op' = IF op.outcome = "cancelled" /\ op.verdict # "ABORTED"
             THEN [op EXCEPT !.verdict = "ABORTED"] ELSE [op EXCEPT !.pc = "publish"]
    /\ UNCHANGED <<ws, backup, journal, permit, proposal, versions, snapshots, dbVars,
                   processVars, boundVars>>

Outcome ==
    IF op.outcome = "cancelled" THEN "cancelled"
    ELSE IF op.outcome = "decided" /\ op.verdict # "ABORTED" THEN "completed" ELSE "failed"

\* The row of the run and of the Agent.  A COMMITTED receipt that is still
\* waiting locks the Agent until startup recovery.
Publish ==
    /\ At("publish") /\ Serving
    /\ LET locks == op.outcome # "decided" /\ AwaitsAck(op.id) IN
       /\ db' = [db EXCEPT !.status = IF locks \/ Outcome = "failed" THEN "error" ELSE "ready",
                           !.thread = None, !.locked = @ \/ locks]
       /\ published' = [published EXCEPT ![op.id] = Outcome]
       /\ reserved' = (reserved \/ locks)
       /\ IF Phase(op.id) = "PENDING_DISPOSITION" /\ ~locks THEN Goto("dispose") ELSE Finish
    /\ UNCHANGED <<diskVars, spoken, up, startup, boundVars>>

Disposable(r) == receipt[r].final = db.live /\ receipt[r].gen = db.gen
Disposed(r) == SetReceipt(r, [receipt[r] EXCEPT !.phase = "TERMINAL"])

\* finalizeDisposition, with the View the database has now.  A failure is
\* nobody's to handle: the next startup tries again.
Dispose ==
    /\ At("dispose")
    /\ IF Disposable(op.id) THEN Disposed(op.id) ELSE UNCHANGED receipt
    /\ Finish
    /\ UNCHANGED <<ws, backup, journal, permit, proposal, versions, snapshots, dbVars,
                   processVars, boundVars>>

----------------------------------------------------------------------------
(* Taking a transition back: by the promotion whose renames fail, by         *)
(* PromotionHandle.rollback and by startup recovery.                         *)

\* What is in the way is renamed to failed/, then the backup is put back.
UndoSwap ==
    /\ At("undo") /\ backup[op.id] # None
    /\ IF ws # None
       THEN ws' = None /\ UNCHANGED backup
       ELSE ws' = backup[op.id] /\ backup' = [backup EXCEPT ![op.id] = None]
    /\ UNCHANGED <<journal, permit, proposal, receipt, versions, snapshots, dbVars, processVars, op,
                   boundVars>>

Manual(why) ==
    /\ startup' = [startup EXCEPT !.manual = IF @ = "no" THEN why ELSE @,
                                  !.todo = @ \ {op.id}]
    /\ op' = [Idle EXCEPT !.pc = "journals"]

UndoJournal ==
    /\ At("undo") /\ backup[op.id] = None
    /\ IF ws = journal[op.id].base
       THEN SetJournal(op.id, "ROLLED_BACK") /\ Goto(op.then) /\ UNCHANGED startup
       ELSE /\ UNCHANGED journal
            /\ IF Recovering THEN Manual("ambiguous") ELSE Goto("lock") /\ UNCHANGED startup
    /\ UNCHANGED <<ws, backup, permit, proposal, receipt, versions, snapshots, dbVars, up,
                   reserved, boundVars>>

\* A transition that never moved the workspace needs no more than its journal.
CloseJournal ==
    /\ At("close")
    /\ SetJournal(op.id, "ROLLED_BACK") /\ Goto(op.then)
    /\ UNCHANGED <<ws, backup, permit, proposal, receipt, versions, snapshots, dbVars,
                   processVars, boundVars>>

\* Mutant: the version stays in the index.
RevertVersion_Mutant ==
    /\ At("revert")
    /\ Goto(IF IsRun(op.id) THEN "abortReceipt" ELSE IF Recovering THEN "rolled" ELSE "withdraw")
    /\ UNCHANGED <<diskVars, dbVars, processVars, boundVars>>

\* revertRunVersion: only the head, and only if it is this run's.
RevertVersion ==
    /\ At("revert")
    /\ IF Latest.id = op.id
       THEN /\ versions' = SubSeq(versions, 1, Len(versions) - 1)
            /\ snapshots' = Retention(snapshots, versions[Len(versions) - 1])
       ELSE UNCHANGED <<versions, snapshots>>
    /\ Goto(IF IsRun(op.id) THEN "abortReceipt" ELSE IF Recovering THEN "rolled" ELSE "withdraw")
    /\ UNCHANGED <<ws, backup, journal, permit, proposal, receipt, dbVars, processVars,
                   boundVars>>

\* rollbackPending (which then destroys the payload), markReceiptRolledBack
\* (which does not, and says it is destroyed).  CommitGateRunner.run then
\* aborts a cancelled run once more.
AbortReceipt ==
    /\ At("abortReceipt")
    /\ IF receipt[op.id] = None \/ Phase(op.id) = "TERMINAL" THEN UNCHANGED receipt
       ELSE SetReceipt(op.id, [receipt[op.id] EXCEPT !.phase = "TERMINAL", !.decision = "ABORTED",
                                                     !.final = receipt[op.id].base])
    /\ IF Recovering
       THEN Goto("rolled") /\ UNCHANGED proposal
       ELSE /\ proposal' = [proposal EXCEPT ![op.id] = "DESTROYED"]
            /\ op' = IF op.outcome = "cancelled"
                     THEN [op EXCEPT !.pc = "reject", !.verdict = "ABORTED"]
                     ELSE [op EXCEPT !.pc = "publish", !.outcome = "failed"]
    /\ UNCHANGED <<ws, backup, journal, permit, versions, snapshots, dbVars, processVars,
                   boundVars>>

\* CommitGateRecoveryRequiredError: the Agent is locked until startup recovery
\* has decided.
Lock ==
    /\ At("lock")
    /\ db' = [db EXCEPT !.status = "error", !.locked = TRUE, !.thread = None]
    /\ published' = IF IsRun(op.id)
                    THEN [published EXCEPT ![op.id] =
                             IF op.outcome = "cancelled" THEN "cancelled" ELSE "failed"]
                    ELSE published
    /\ reserved' = TRUE
    /\ Finish
    /\ UNCHANGED <<diskVars, spoken, up, startup, boundVars>>

----------------------------------------------------------------------------
(* Rollback, configuration, start. *)

\* performRollback: to the snapshot of any version that still has one.
StartRollback(x) ==
    /\ Admits({"ready", "error"}) /\ permit[x] = "NONE" /\ Operations < MaxOperations
    /\ \E v \in {versions[k].v : k \in DOMAIN versions} \cap Restorable :
          op' = [Idle EXCEPT !.id = x, !.pc = "regenerate", !.tree = [v |-> v, p |-> db.cfg],
                             !.before = db.status]
    /\ db' = [db EXCEPT !.status = "busy"]
    /\ UNCHANGED <<diskVars, published, spoken, processVars, boundVars>>

\* The rollback's base has AGENTS.md as the database configures it.
Regenerate ==
    /\ At("regenerate") /\ ws # None
    /\ LET base == [ws EXCEPT !.p = db.cfg] IN
       ws' = base /\ op' = [op EXCEPT !.pc = "issue", !.base = base]
    /\ UNCHANGED <<backup, journal, permit, proposal, receipt, versions, snapshots, dbVars,
                   processVars, boundVars>>

\* A rollback that did not happen: its permit is revoked, the row as before.
Withdraw ==
    /\ At("withdraw")
    /\ permit' = [permit EXCEPT ![op.id] = IF @ = "CONSUMING" THEN "REVOKED" ELSE @]
    /\ db' = [db EXCEPT !.status = op.before]
    /\ Finish
    /\ UNCHANGED <<ws, backup, journal, proposal, receipt, versions, snapshots, published, spoken,
                   processVars, boundVars>>

\* updateAgent: AGENTS.md first, the row (which stays as it is) afterwards.
Configure ==
    /\ Admits({"ready", "error"}) /\ ws # None /\ db.cfg < MaxConfigs /\ Operations < MaxOperations
    /\ ws' = [ws EXCEPT !.p = db.cfg + 1]
    /\ op' = [Idle EXCEPT !.pc = "configure"]
    /\ UNCHANGED <<backup, journal, permit, proposal, receipt, versions, snapshots, dbVars,
                   processVars, boundVars>>

ConfigureRow ==
    /\ At("configure")
    /\ db' = [db EXCEPT !.cfg = @ + 1, !.gen = @ + 1, !.live = ws, !.thread = None]
    /\ Finish
    /\ UNCHANGED <<diskVars, published, spoken, processVars, boundVars>>

StartAgent ==
    /\ Admits({"error"})
    /\ db' = [db EXCEPT !.status = "ready"]
    /\ UNCHANGED <<diskVars, published, spoken, processVars, op, boundVars>>

----------------------------------------------------------------------------
(* Startup: recoverCommitGate, then AgentService.initialize. *)

Start ==
    /\ up = "down"
    /\ up' = "starting" /\ reserved' = FALSE
    /\ startup' = [NoReport EXCEPT !.todo = {i \in Id : journal[i] # None}]
    /\ op' = [Idle EXCEPT !.pc = "journals"]
    /\ UNCHANGED <<diskVars, dbVars, boundVars>>

\* Mutant: the bytes decide, whatever the database and the version index say.
DatabaseCommitted_Mutant(i) == ws = journal[i].target

\* The database has the version of this journal as its head.
DatabaseCommitted(i) ==
    /\ Latest.id = i /\ db.head = i
    /\ db.headLive = journal[i].target

Recover(i, pc) == op' = [Idle EXCEPT !.id = i, !.pc = pc, !.then = "revert"]
RecoverAgain(i) == op' = [Idle EXCEPT !.id = i, !.pc = "revert", !.then = "retention"]

\* A staging directory that was not promoted is removed; its receipt is not
\* looked at.
Clean(i) ==
    /\ journal[i].state = "PREPARING"
    /\ SetJournal(i, "ROLLED_BACK")
    /\ startup' = [startup EXCEPT !.todo = @ \ {i}]
    /\ UNCHANGED op

Examine(i) ==
    /\ At("journals") /\ i \in startup.todo
    /\ \/ Clean(i)
       \/ /\ UNCHANGED <<journal, startup>>
          /\ \/ journal[i].state = "ACKNOWLEDGED"
                /\ Recover(i, IF IsRun(i) THEN "terminal" ELSE "retention")
             \/ journal[i].state = "ROLLED_BACK" /\ RecoverAgain(i)
             \/ /\ journal[i].state = "PROMOTED_PENDING_DB"
                /\ DatabaseCommitted(i) /\ ws = journal[i].target
                /\ Recover(i, "dropBackup")
             \/ /\ journal[i].state \in {"PROMOTING", "PROMOTED_PENDING_DB"}
                /\ ~(/\ journal[i].state = "PROMOTED_PENDING_DB"
                     /\ DatabaseCommitted(i) /\ ws = journal[i].target)
                /\ Recover(i, "undo")
    /\ UNCHANGED <<ws, backup, permit, proposal, receipt, versions, snapshots, dbVars, up,
                   reserved, boundVars>>

Report(field) ==
    /\ startup' = [startup EXCEPT ![field] = @ \cup {op.id}, !.todo = @ \ {op.id}]
    /\ op' = [Idle EXCEPT !.pc = "journals"]
    /\ UNCHANGED <<ws, backup, journal, permit, proposal, receipt, versions, dbVars, up,
                   reserved, boundVars>>

\* Retention is released for a journal that was terminal before.
Acknowledged ==
    /\ Recovering /\ At("release") /\ Report("acked")
    /\ snapshots' = Retention(snapshots, Latest)

RolledBack ==
    /\ Recovering /\ At("rolled") /\ Report("rolled")
    /\ snapshots' = IF op.then = "retention" THEN Retention(snapshots, Latest) ELSE snapshots

\* Then the receipts that were written before a swap that has no journal.
ScanReceipt(r) ==
    /\ At("journals") /\ startup.todo = {}
    /\ Phase(r) = "PENDING_PROMOTION" /\ journal[r] = None
    /\ ws = receipt[r].base
    /\ SetReceipt(r, [receipt[r] EXCEPT !.phase = "TERMINAL", !.decision = "ABORTED",
                                        !.final = receipt[r].base])
    /\ startup' = [startup EXCEPT !.rolled = @ \cup {r}]
    /\ UNCHANGED <<ws, backup, journal, permit, proposal, versions, snapshots, dbVars, up,
                   reserved, op, boundVars>>

Unaccounted == {r \in Run : Phase(r) = "PENDING_PROMOTION" /\ journal[r] = None}

\* The database takes over the version index and the bytes, whoever wrote them.
Reproject ==
    /\ At("journals") /\ startup.todo = {}
    /\ \A r \in Unaccounted : ws # receipt[r].base
    /\ LET manual == IF startup.manual = "no" /\ (Unaccounted # {} \/ ws = None)
                     THEN "ambiguous" ELSE startup.manual IN
       /\ startup' = [startup EXCEPT !.manual = manual]
       /\ db' = IF manual = "no" THEN [db EXCEPT !.head = Latest.id, !.headLive = ws, !.live = ws]
                ELSE db
    /\ Goto("settle")
    /\ UNCHANGED <<diskVars, published, spoken, up, reserved, boundVars>>

\* Completed runs that turn out to have been rolled back.
AbortedAfterAll ==
    {r \in Run :
        \/ r \in startup.rolled /\ (published[r] = "completed" \/ r \in spoken)
        \/ /\ r \notin startup.rolled \cup startup.acked
           /\ published[r] = "completed" /\ Phase(r) # "NONE" /\ receipt[r].decision = "ABORTED"}

\* Answers of runs that were rolled back are REJECTED.
Rejected(answers) == answers \ startup.rolled

\* The last mutation of initialize: every run and the Agent get their status.
\* A run of which an acknowledged journal tells keeps the one it has.
Settle ==
    /\ At("settle")
    /\ published' = [r \in Run |->
          IF r \in startup.rolled \cup AbortedAfterAll THEN "failed"
          ELSE IF r \notin startup.acked /\ published[r] \in {"queued", "running"} THEN "cancelled"
          ELSE published[r]]
    /\ spoken' = Rejected(spoken)
    /\ db' = IF startup.manual # "no"
             THEN [db EXCEPT !.status = "error", !.locked = TRUE, !.thread = None]
             ELSE IF AbortedAfterAll # {}
             THEN [db EXCEPT !.status = IF db.locked THEN "ready" ELSE "error",
                             !.locked = FALSE, !.thread = None]
             ELSE IF db.locked THEN [db EXCEPT !.status = "ready", !.locked = FALSE]
             ELSE IF db.status = "busy" THEN [db EXCEPT !.status = "ready", !.thread = None]
             ELSE db
    /\ reserved' = (startup.manual # "no")
    /\ startup' = [startup EXCEPT !.todo = {r \in Run : Phase(r) = "PENDING_DISPOSITION"}]
    /\ Goto("dispositions")
    /\ UNCHANGED <<diskVars, up, boundVars>>

\* Mutant: a run that cannot be disposed of is tried again.
DisposeAtStartup_Mutant(r) ==
    /\ At("dispositions") /\ r \in startup.todo
    /\ IF Disposable(r)
       THEN Disposed(r) /\ startup' = [startup EXCEPT !.todo = @ \ {r}] /\ UNCHANGED db
       ELSE /\ db' = [db EXCEPT !.status = "error", !.locked = TRUE, !.thread = None]
            /\ UNCHANGED <<receipt, startup>>
    /\ UNCHANGED <<ws, backup, journal, permit, proposal, versions, snapshots, published, spoken,
                   up, reserved, op, boundVars>>

\* Rejected runs that the last process did not dispose of.  One that does not
\* fit the View any more locks the Agent.
DisposeAtStartup(r) ==
    /\ At("dispositions") /\ r \in startup.todo
    /\ startup' = [startup EXCEPT !.todo = @ \ {r}]
    /\ IF Disposable(r) THEN Disposed(r) /\ UNCHANGED db
       ELSE /\ db' = [db EXCEPT !.status = "error", !.locked = TRUE, !.thread = None]
            /\ UNCHANGED receipt
    /\ UNCHANGED <<ws, backup, journal, permit, proposal, versions, snapshots, published, spoken,
                   up, reserved, op, boundVars>>

Serve ==
    /\ At("dispositions") /\ startup.todo = {}
    /\ up' = "up" /\ startup' = NoReport /\ Finish
    /\ UNCHANGED <<diskVars, dbVars, reserved, boundVars>>

----------------------------------------------------------------------------
(* Faults and crashes. *)

\* Where the code's catch clauses go when the write at op.pc fails.
FailTo(pc) == op' = [op EXCEPT !.pc = pc]

AdmissionFails ==
    \/ At("prepare") /\ op' = [op EXCEPT !.pc = "admission", !.verdict = "ABORTED",
                                        !.outcome = "failed"]
    \/ At("admission") /\ op' = [op EXCEPT !.pc = "publish", !.outcome = "failed"]

\* Nothing has moved yet: the run is rejected, the rollback withdrawn.
PreparationFails ==
    \/ /\ op.pc \in {"seal", "verify", "issue", "claim", "record", "stage", "cas", "promoting"}
       /\ IsRun(op.id) /\ Rejects("ABORTED")
    \/ /\ op.pc \in {"regenerate", "issue", "claim", "stage", "cas", "promoting"} /\ ~IsRun(op.id)
       /\ FailTo("withdraw")

\* The transition is taken back, by the steps that have not failed yet.
SwapFails ==
    LET refused == IF IsRun(op.id) THEN "reject" ELSE "withdraw" IN
    \/ op.pc \in {"consume", "vacate"}
       /\ op' = [op EXCEPT !.pc = "close", !.verdict = "ABORTED", !.then = refused]
    \/ op.pc \in {"fill", "final"}
       /\ op' = [op EXCEPT !.pc = "undo", !.verdict = "ABORTED", !.then = refused]
    \/ op.pc \in {"append", "project"}
       /\ op' = [op EXCEPT !.pc = "undo",
                           !.then = IF At("append") /\ ~IsRun(op.id) THEN "withdraw" ELSE "revert"]
    \/ At("close") /\ FailTo(IF journal[op.id].state = "PREPARING" THEN op.then ELSE "lock")
    \/ op.pc \in {"pendingDb", "undo", "revert", "abortReceipt"} /\ FailTo("lock")

\* The acknowledgement is tried once more.
AcknowledgementFails ==
    \/ /\ op.pc \in {"dropBackup", "acknowledge", "retention", "terminal"}
       /\ op' = [op EXCEPT !.pc = IF op.retried \/ (At("retention") /\ ~IsRun(op.id))
                                  THEN "lock" ELSE "dropBackup", !.retried = TRUE]
    \/ At("release") /\ op' = [op EXCEPT !.pc = IF IsRun(op.id) THEN "publish" ELSE "lock",
                                        !.outcome = "failed"]

RefusalFails ==
    \/ At("rejectReceipt")
       /\ op' = IF op.outcome = "decided" THEN [op EXCEPT !.verdict = "ABORTED", !.outcome = "failed"]
                ELSE [op EXCEPT !.pc = "publish"]
    \/ At("publish") /\ op.outcome = "decided" /\ op' = [op EXCEPT !.outcome = "failed"]

\* Nobody handles it.
OperationEnds ==
    /\ op.pc \in {"bind", "lock", "publish", "dispose", "withdraw", "configure"}
    /\ At("publish") => op.outcome # "decided"
    /\ op' = Idle

Continuation ==
    AdmissionFails \/ PreparationFails \/ SwapFails \/ AcknowledgementFails \/ RefusalFails
    \/ OperationEnds

\* A retried acknowledgement finds what the first attempt has done.
Fault ==
    /\ Serving /\ MoreTrouble
    /\ faults' = faults + 1
    /\ Continuation
    /\ reserved' = (reserved \/ op.pc = "lock"
                             \/ (op.pc = "publish" /\ op.outcome # "decided" /\ AwaitsAck(op.id)))
    /\ ws' = IF op.pc = "configure" THEN [ws EXCEPT !.p = db.cfg] ELSE ws
    /\ UNCHANGED <<backup, journal, permit, proposal, receipt, versions, snapshots, dbVars, up,
                   startup, crashes, drifts>>

\* In recovery, a failure leaves the Agent to an administrator; in the last
\* mutations of initialize, it ends the process.
FaultAtStartup ==
    /\ Recovering /\ MoreTrouble
    /\ faults' = faults + 1
    /\ IF op.pc \in {"settle", "dispositions"}
       THEN up' = "down" /\ op' = Idle /\ startup' = NoReport
       ELSE UNCHANGED up /\ op.id # None /\ Manual("fault")
    /\ UNCHANGED <<diskVars, dbVars, reserved, crashes, drifts>>

Crash ==
    /\ up # "down" /\ MoreTrouble
    /\ crashes' = crashes + 1
    /\ up' = "down" /\ op' = Idle /\ startup' = NoReport
    /\ UNCHANGED <<diskVars, dbVars, reserved, faults, drifts>>

\* Somebody else writes to the workspace.
Drift ==
    /\ MoreTrouble /\ ws # None /\ ws.v # Edited
    /\ ws' = [ws EXCEPT !.v = Edited] /\ drifts' = drifts + 1
    /\ UNCHANGED <<backup, journal, permit, proposal, receipt, versions, snapshots, dbVars,
                   processVars, op, crashes, faults>>

RunStep ==
    \/ Bind \/ Prepare \/ PrepareConflict \/ RecordAdmissionFailure \/ RunAgent \/ AgentEnds
    \/ Seal \/ SealRefuses \/ Verify
    \/ Reject \/ RejectReceipt \/ Publish \/ Dispose

TransitionStep ==
    \/ Issue \/ Claim \/ RecordPromotion \/ Stage \/ CompareBase \/ CompareConflict \/ Consume
    \/ Promoting \/ Vacate \/ Fill \/ PendingDatabase \/ RecordFinal \/ AppendVersion \/ Project
    \/ DropBackup \/ AcknowledgeJournal \/ ReleaseRetention \/ DestroyProposal
    \/ TerminalReceipt \/ Release
    \/ UndoSwap \/ UndoJournal \/ CloseJournal \/ RevertVersion \/ AbortReceipt \/ Lock
    \/ Regenerate \/ Withdraw \/ ConfigureRow

StartupStep ==
    \/ \E i \in Id : Examine(i)
    \/ Acknowledged \/ RolledBack
    \/ \E r \in Run : ScanReceipt(r) \/ DisposeAtStartup(r)
    \/ Reproject \/ Settle \/ Serve

Request ==
    \/ \E r \in Run : Submit(r)
    \/ \E x \in Rollback : StartRollback(x)
    \/ Configure \/ StartAgent \/ Cancel

Step == RunStep \/ TransitionStep \/ StartupStep
Next == Request \/ Step \/ Start \/ Fault \/ FaultAtStartup \/ Crash \/ Drift

Spec == Init /\ [][Next]_vars

\* The process runs on, and is started again when it has died.
Fairness == WF_vars(Step) /\ WF_vars(Start)

FairSpec == Spec /\ Fairness
=============================================================================
