----------------------------- MODULE GateSteps ------------------------------
(***************************************************************************)
(* The in-process CommitGate, for every set of runs, rollbacks and         *)
(* contents and any number of crashes, faults and foreign writes: what     *)
(* each step does to the six stores, and what an operation in progress,    *)
(* its journal, its permit and its receipt have to do with each other.     *)
(***************************************************************************)
EXTENDS GateInvariant, TLAPS, FiniteSetTheorems, FunctionTheorems, SequenceTheorems

----------------------------------------------------------------------------
(* What each step does to the operation, the journals and the row. *)

\* What a step does to the operation, field by field.
Becomes(pc, verdict, outcome, then) ==
    /\ DOMAIN op' = DOMAIN op /\ op'.pc = pc
    /\ op'.verdict = verdict /\ op'.outcome = outcome /\ op'.then = then
    /\ op'.id = op.id /\ op'.tree = op.tree /\ op'.base = op.base /\ op'.gen = op.gen
    /\ op'.before = op.before

Moves(pc) == Becomes(pc, op.verdict, op.outcome, op.then)

\* A run and the steps of recovery begin with nothing.
Begins(id, pc, then) ==
    /\ DOMAIN op' = DOMAIN op /\ op'.id = id /\ op'.pc = pc /\ op'.then = then
    /\ op'.tree = None /\ op'.base = None /\ op'.gen = 0 /\ op'.verdict = None

\* ... to one journal ...
JournalSet(i, state) ==
    /\ journal' \in [Id -> Journals \cup {None}]
    /\ State(i)' = state
    /\ journal'[i] # None /\ journal[i] # None
    /\ journal'[i].base = journal[i].base /\ journal'[i].target = journal[i].target
    /\ \A j \in Id \ {i} : journal'[j] = journal[j]

\* ... to what the row says of the head ...
HeadStays ==
    /\ db'.head = db.head /\ db'.headLive = db.headLive /\ db'.live = db.live
    /\ db'.gen = db.gen /\ db'.cfg = db.cfg

\* ... and to the report of recovery.
LeftToAnAdministrator(why) ==
    /\ startup'.manual = IF startup.manual = "no" THEN why ELSE startup.manual
    /\ startup'.todo = startup.todo \ {op.id}
    /\ startup'.rolled = startup.rolled /\ startup'.acked = startup.acked
    /\ Begins(None, "journals", None)

FaultEarly ==
    \/ op.pc = "prepare" /\ Becomes("admission", "ABORTED", "failed", op.then)
    \/ op.pc = "admission" /\ Becomes("publish", op.verdict, "failed", op.then)
    \/ /\ op.pc \in {"seal", "verify", "issue", "claim", "record", "stage", "cas", "promoting"}
       /\ op.id \in Run /\ Becomes("reject", "ABORTED", op.outcome, op.then)
    \/ /\ op.pc \in {"regenerate", "issue", "claim", "stage", "cas", "promoting"}
       /\ op.id \notin Run /\ Moves("withdraw")

FaultInSwap ==
    \/ \E pc \in {"close", "undo"} :
          /\ op.pc \in IF pc = "close" THEN {"consume", "vacate"} ELSE {"fill", "final"}
          /\ Becomes(pc, "ABORTED", op.outcome, IF op.id \in Run THEN "reject" ELSE "withdraw")
    \/ op.pc \in {"append", "project"} /\ Becomes("undo", op.verdict, op.outcome, "revert")
    \/ /\ op.pc = "append" /\ op.id \notin Run
       /\ Becomes("undo", op.verdict, op.outcome, "withdraw")
    \/ op.pc = "close" /\ State(op.id) = "PREPARING" /\ Moves(op.then)
    \/ op.pc = "close" /\ State(op.id) # "PREPARING" /\ Moves("lock")
    \/ op.pc \in {"pendingDb", "undo", "revert", "abortReceipt"} /\ Moves("lock")

FaultLate ==
    \/ op.pc \in {"dropBackup", "acknowledge", "retention", "terminal"} /\ Moves("lock")
    \/ op.pc \in {"dropBackup", "acknowledge", "retention", "terminal"} /\ Moves("dropBackup")
    \/ op.pc = "release" /\ op.id \in Run /\ Becomes("publish", op.verdict, "failed", op.then)
    \/ op.pc = "release" /\ op.id \notin Run /\ Becomes("lock", op.verdict, "failed", op.then)
    \/ op.pc = "rejectReceipt" /\ Becomes("rejectReceipt", "ABORTED", "failed", op.then)
    \/ op.pc = "rejectReceipt" /\ op.outcome # "decided" /\ Moves("publish")
    \/ op.pc = "publish" /\ op.outcome = "decided" /\ Becomes("publish", op.verdict, "failed", op.then)

LEMMA SetsJournal ==
    ASSUME TypeOK, NEW i \in Id, journal[i] # None, NEW state \in JournalStates,
           SetJournal(i, state)
    PROVE  JournalSet(i, state)
<1>1. journal[i] \in Journals
  BY DEF TypeOK
<1>2. /\ [journal[i] EXCEPT !.state = state] \in Journals
      /\ [journal[i] EXCEPT !.state = state].state = state
      /\ [journal[i] EXCEPT !.state = state].base = journal[i].base
      /\ [journal[i] EXCEPT !.state = state].target = journal[i].target
  BY <1>1 DEF Journals
<1>3. journal' = [journal EXCEPT ![i] = [journal[i] EXCEPT !.state = state]]
  BY DEF SetJournal
<1> QED
  BY <1>2, <1>3, NoneAssumption DEF JournalSet, State, TypeOK

LEMMA BindDoes ==
    ASSUME TypeOK, OpTypes, PcFits, Knows, StateFits, Bind
    PROVE  /\ op.pc = "bind"
           /\ published' = [published EXCEPT ![op.id] = "running"]
           /\ op'.pc = "prepare"
           /\ op'.base = db.live
           /\ op'.gen = db.gen
           /\ DOMAIN op' = DOMAIN op
              /\ op'.tree = op.tree
              /\ op'.verdict = op.verdict
              /\ op'.outcome = op.outcome
              /\ op'.then = op.then
              /\ op'.before = op.before
              /\ op'.id = op.id
           /\ UNCHANGED <<ws, backup, journal, permit, proposal, receipt, versions, snapshots, db, spoken, up, reserved, startup, crashes, faults, drifts>>
  BY DEF Bind, At, diskVars, processVars, boundVars, OpTypes, Idle

LEMMA PrepareDoes ==
    ASSUME TypeOK, OpTypes, PcFits, Knows, StateFits, Prepare
    PROVE  /\ op.pc = "prepare"
           /\ \/ ws = op.base /\ Moves("agent")
              \/ Becomes("admission", "ABORTED", "failed", op.then)
           /\ UNCHANGED <<ws, backup, journal, permit, proposal, receipt, versions, snapshots, db, published, spoken, up, reserved, startup, crashes, faults, drifts>>
  BY DEF Prepare, At, diskVars, dbVars, processVars, boundVars, Moves, Becomes, OpTypes, Idle

LEMMA PrepareConflictDoes ==
    ASSUME TypeOK, OpTypes, PcFits, Knows, StateFits, PrepareConflict
    PROVE  /\ op.pc = "prepare"
           /\ ws.v # Edited
           /\ ws' = [ws EXCEPT !.v = Edited]
           /\ drifts' = drifts + 1
           /\ Becomes("admission", "CONFLICTED", op.outcome, op.then)
           /\ UNCHANGED <<backup, journal, permit, proposal, receipt, versions, snapshots, db, published, spoken, up, reserved, startup, crashes, faults>>
  BY DEF PrepareConflict, At, dbVars, processVars, Becomes, OpTypes, Idle

LEMMA RecordAdmissionFailureDoes ==
    ASSUME TypeOK, OpTypes, PcFits, Knows, StateFits, RecordAdmissionFailure
    PROVE  /\ op.pc = "admission"
           /\ Moves("publish")
           /\ receipt' = [receipt EXCEPT ![op.id] = NewReceipt("PENDING_DISPOSITION", op.verdict, op.base)]
           /\ UNCHANGED <<ws, backup, journal, permit, proposal, versions, snapshots, db, published, spoken, up, reserved, startup, crashes, faults, drifts>>
  BY DEF RecordAdmissionFailure, At, SetReceipt, Goto, dbVars, processVars, boundVars, Moves, Becomes, OpTypes, Idle

LEMMA RunAgentDoes ==
    ASSUME TypeOK, OpTypes, PcFits, Knows, StateFits, RunAgent
    PROVE  /\ op.pc = "agent"
           /\ op'.pc = "seal"
           /\ \E v \in {op.id, op.base.v} : op'.tree = [op.base EXCEPT !.v = v]
           /\ DOMAIN op' = DOMAIN op
              /\ op'.base = op.base
              /\ op'.gen = op.gen
              /\ op'.verdict = op.verdict
              /\ op'.outcome = op.outcome
              /\ op'.then = op.then
              /\ op'.before = op.before
              /\ op'.id = op.id
           /\ UNCHANGED <<ws, backup, journal, permit, proposal, receipt, versions, snapshots, db, published, spoken, up, reserved, startup, crashes, faults, drifts>>
  BY DEF RunAgent, At, diskVars, dbVars, processVars, boundVars, OpTypes, Idle

LEMMA AgentEndsDoes ==
    ASSUME TypeOK, OpTypes, PcFits, Knows, StateFits, AgentEnds
    PROVE  /\ op.pc \in {"agent", "seal"}
           /\ \/ Becomes("reject", "ABORTED", op.outcome, op.then)
              \/ Becomes("reject", "ABORTED", "failed", op.then)
           /\ UNCHANGED <<ws, backup, journal, permit, proposal, receipt, versions, snapshots, db, published, spoken, up, reserved, startup, crashes, faults, drifts>>
  BY DEF AgentEnds, At, diskVars, dbVars, processVars, boundVars, Becomes, OpTypes, Idle

LEMMA SealDoes ==
    ASSUME TypeOK, OpTypes, PcFits, Knows, StateFits, Seal
    PROVE  /\ op.pc = "seal"
           /\ Moves("verify")
           /\ proposal' = [proposal EXCEPT ![op.id] = "SEALED"]
           /\ UNCHANGED <<ws, backup, journal, permit, receipt, versions, snapshots, db, published, spoken, up, reserved, startup, crashes, faults, drifts>>
  BY DEF Seal, At, Goto, dbVars, processVars, boundVars, Moves, Becomes, OpTypes, Idle

LEMMA SealRefusesDoes ==
    ASSUME TypeOK, OpTypes, PcFits, Knows, StateFits, SealRefuses
    PROVE  /\ op.pc = "seal"
           /\ Becomes("reject", "QUARANTINED", op.outcome, op.then)
           /\ UNCHANGED <<ws, backup, journal, permit, proposal, receipt, versions, snapshots, db, published, spoken, up, reserved, startup, crashes, faults, drifts>>
  BY DEF SealRefuses, At, Rejects, diskVars, dbVars, processVars, boundVars, Becomes, OpTypes, Idle

LEMMA VerifyDoes ==
    ASSUME TypeOK, OpTypes, PcFits, Knows, StateFits, Verify
    PROVE  /\ op.pc = "verify"
           /\ \/ Becomes("reject", "QUARANTINED", op.outcome, op.then)
              \/ Becomes("reject", "ABORTED", op.outcome, op.then)
              \/ ws = op.base /\ Moves("issue")
           /\ UNCHANGED <<ws, backup, journal, permit, proposal, receipt, versions, snapshots, db, published, spoken, up, reserved, startup, crashes, faults, drifts>>
<1>1. \A verdict : Rejects(verdict) => Becomes("reject", verdict, op.outcome, op.then)
  BY DEF Rejects, Becomes, OpTypes, Idle
<1>2. Goto("issue") => Moves("issue")
  BY DEF Goto, Moves, Becomes, OpTypes, Idle
<1> QED
  BY <1>1, <1>2 DEF Verify, At, diskVars, dbVars, processVars, boundVars

LEMMA RejectDoes ==
    ASSUME TypeOK, OpTypes, PcFits, Knows, StateFits, Reject
    PROVE  /\ op.pc = "reject"
           /\ Moves("rejectReceipt")
           /\ permit' = [permit EXCEPT ![op.id] = IF @ \in {"ISSUED", "CONSUMING"} THEN "REVOKED" ELSE @]
           /\ \E value \in {"DESTROYED", proposal[op.id]} : proposal' = [proposal EXCEPT ![op.id] = value]
           /\ UNCHANGED <<ws, backup, journal, receipt, versions, snapshots, db, published, spoken, up, reserved, startup, crashes, drifts>>
<1>1. Moves("rejectReceipt")
  BY DEF Reject, Goto, Moves, Becomes, OpTypes, Idle
<1>2. \E value \in {"DESTROYED", proposal[op.id]} : proposal' = [proposal EXCEPT ![op.id] = value]
<2>1. CASE proposal' = [proposal EXCEPT ![op.id] = IF @ = "SEALED" THEN "DESTROYED" ELSE @]
  BY <2>1
<2>2. CASE proposal' = proposal
<3>1. proposal' = [proposal EXCEPT ![op.id] = proposal[op.id]]
  BY <2>2 DEF TypeOK
<3> QED
  BY <3>1
<2> QED
  BY <2>1, <2>2 DEF Reject
<1> QED
  BY <1>1, <1>2 DEF Reject, At, dbVars, processVars

LEMMA RejectReceiptDoes ==
    ASSUME TypeOK, OpTypes, PcFits, Knows, StateFits, RejectReceipt
    PROVE  /\ op.pc = "rejectReceipt"
           /\ IF Phase(op.id) = "TERMINAL" THEN receipt' = receipt
              ELSE receipt' = [receipt EXCEPT ![op.id] = NewReceipt("PENDING_DISPOSITION", op.verdict, ws)]
           /\ \/ op.outcome = "cancelled" /\ Becomes("rejectReceipt", "ABORTED", op.outcome, op.then)
              \/ Moves("publish")
           /\ UNCHANGED <<ws, backup, journal, permit, proposal, versions, snapshots, db, published, spoken, up, reserved, startup, crashes, faults, drifts>>
  BY DEF RejectReceipt, At, SetReceipt, dbVars, processVars, boundVars, Moves, Becomes, OpTypes, Idle

LEMMA PublishDoes ==
    ASSUME TypeOK, OpTypes, PcFits, Knows, StateFits, Publish
    PROVE  /\ op.pc = "publish"
           /\ up = "up"
           /\ \/ Moves("dispose") /\ Phase(op.id) = "PENDING_DISPOSITION"
              \/ op' = Idle
           /\ published' = [published EXCEPT ![op.id] = Outcome]
           /\ HeadStays
           /\ db'.thread = None
           /\ db'.status \in {"error", "ready"}
           /\ LET locks == op.outcome # "decided" /\ AwaitsAck(op.id) IN
                /\ db'.locked = (db.locked \/ locks) /\ reserved' = (reserved \/ locks)
                /\ locks => op' = Idle
           /\ UNCHANGED <<ws, backup, journal, permit, proposal, receipt, versions, snapshots, spoken, up, startup, crashes, faults, drifts>>
  BY DEF Publish, At, Serving, Goto, Finish, diskVars, boundVars, Idle, Moves, HeadStays, Becomes, OpTypes, TypeOK, Rows

LEMMA DisposeDoes ==
    ASSUME TypeOK, OpTypes, PcFits, Knows, StateFits, Dispose
    PROVE  /\ op.pc = "dispose"
           /\ op' = Idle
           /\ \/ receipt' = receipt
              \/ receipt' = [receipt EXCEPT ![op.id] = [receipt[op.id] EXCEPT !.phase = "TERMINAL"]]
           /\ UNCHANGED <<ws, backup, journal, permit, proposal, versions, snapshots, db, published, spoken, up, reserved, startup, crashes, faults, drifts>>
  BY DEF Dispose, At, Disposed, Finish, dbVars, processVars, boundVars, SetReceipt, Idle, OpTypes

LEMMA IssueDoes ==
    ASSUME TypeOK, OpTypes, PcFits, Knows, StateFits, Issue
    PROVE  /\ op.pc = "issue"
           /\ Moves("claim")
           /\ permit' = [permit EXCEPT ![op.id] = "ISSUED"]
           /\ UNCHANGED <<ws, backup, journal, proposal, receipt, versions, snapshots, db, published, spoken, up, reserved, startup, crashes, faults, drifts>>
  BY DEF Issue, At, SetPermit, Goto, dbVars, processVars, boundVars, Moves, Becomes, OpTypes, Idle

LEMMA ClaimDoes ==
    ASSUME TypeOK, OpTypes, PcFits, Knows, StateFits, Claim
    PROVE  /\ op.pc = "claim"
           /\ permit[op.id] = "ISSUED"
           /\ permit' = [permit EXCEPT ![op.id] = "CONSUMING"]
           /\ \/ op.id \in Run /\ Moves("record")
              \/ op.id \notin Run /\ Moves("stage")
           /\ UNCHANGED <<ws, backup, journal, proposal, receipt, versions, snapshots, db, published, spoken, up, reserved, startup, crashes, faults, drifts>>
  BY DEF Claim, At, IsRun, SetPermit, Goto, dbVars, processVars, boundVars, Moves, Becomes, OpTypes, Idle

LEMMA RecordPromotionDoes ==
    ASSUME TypeOK, OpTypes, PcFits, Knows, StateFits, RecordPromotion
    PROVE  /\ op.pc = "record"
           /\ Moves("stage")
           /\ receipt' = [receipt EXCEPT ![op.id] = NewReceipt("PENDING_PROMOTION", "COMMITTED", op.tree)]
           /\ UNCHANGED <<ws, backup, journal, permit, proposal, versions, snapshots, db, published, spoken, up, reserved, startup, crashes, faults, drifts>>
  BY DEF RecordPromotion, At, SetReceipt, Goto, dbVars, processVars, boundVars, Moves, Becomes, OpTypes, Idle

LEMMA StageDoes ==
    ASSUME TypeOK, OpTypes, PcFits, Knows, StateFits, Stage
    PROVE  /\ op.pc = "stage"
           /\ Moves("cas")
           /\ permit[op.id] = "CONSUMING"
           /\ journal' = [journal EXCEPT ![op.id] = [state |-> "PREPARING", base |-> op.base, target |-> op.tree]]
           /\ UNCHANGED <<ws, backup, permit, proposal, receipt, versions, snapshots, db, published, spoken, up, reserved, startup, crashes, faults, drifts>>
  BY DEF Stage, At, Goto, dbVars, processVars, boundVars, Moves, Becomes, OpTypes, Idle

LEMMA CompareBaseDoes ==
    ASSUME TypeOK, OpTypes, PcFits, Knows, StateFits, CompareBase
    PROVE  /\ op.pc = "cas"
           /\ Moves("consume")
           /\ ws = op.base
           /\ UNCHANGED <<ws, backup, journal, permit, proposal, receipt, versions, snapshots, db, published, spoken, up, reserved, startup, crashes, faults, drifts>>
  BY DEF CompareBase, At, Goto, diskVars, dbVars, processVars, boundVars, Moves, Becomes, OpTypes, Idle

LEMMA CompareConflictDoes ==
    ASSUME TypeOK, OpTypes, PcFits, Knows, StateFits, CompareConflict
    PROVE  /\ op.pc = "cas"
           /\ ws # op.base
           /\ \/ op.id \in Run /\ Becomes("reject", "ABORTED", op.outcome, op.then) /\ journal' = journal
              \/ op.id \notin Run /\ Moves("withdraw") /\ JournalSet(op.id, "ROLLED_BACK")
           /\ UNCHANGED <<ws, backup, permit, proposal, receipt, versions, snapshots, db, published, spoken, up, reserved, startup, crashes, faults, drifts>>
<1>1. State(op.id) = "PREPARING"
  BY DEF CompareConflict, At, StateFits, Comparison
<1>2. op.id \in Id /\ journal[op.id] # None
  BY <1>1 DEF CompareConflict, At, State, PcFits, OwnerFits, OfNobody, TypeOK
<1>3. SetJournal(op.id, "ROLLED_BACK") => JournalSet(op.id, "ROLLED_BACK")
  BY <1>2, SetsJournal DEF JournalStates
<1> QED
  BY <1>3 DEF CompareConflict, At, IsRun, Rejects, dbVars, processVars, boundVars, Moves, Becomes, OpTypes, Idle

LEMMA ConsumeDoes ==
    ASSUME TypeOK, OpTypes, PcFits, Knows, StateFits, Consume
    PROVE  /\ op.pc = "consume"
           /\ Moves("promoting")
           /\ permit[op.id] = "CONSUMING"
           /\ permit' = [permit EXCEPT ![op.id] = "CONSUMED"]
           /\ UNCHANGED <<ws, backup, journal, proposal, receipt, versions, snapshots, db, published, spoken, up, reserved, startup, crashes, faults, drifts>>
  BY DEF Consume, At, SetPermit, Goto, dbVars, processVars, boundVars, Moves, Becomes, OpTypes, Idle

LEMMA PromotingDoes ==
    ASSUME TypeOK, OpTypes, PcFits, Knows, StateFits, Promoting
    PROVE  /\ op.pc = "promoting"
           /\ Moves("vacate")
           /\ JournalSet(op.id, "PROMOTING")
           /\ UNCHANGED <<ws, backup, permit, proposal, receipt, versions, snapshots, db, published, spoken, up, reserved, startup, crashes, faults, drifts>>
<1>1. State(op.id) = "PREPARING"
  BY DEF Promoting, At, StateFits, Comparison, Swapping, Acknowledgement
<1>2. op.id \in Id /\ journal[op.id] # None
  BY <1>1 DEF Promoting, At, State, PcFits, OwnerFits, OfNobody, TypeOK
<1>3. JournalSet(op.id, "PROMOTING")
  BY <1>2, SetsJournal DEF Promoting, JournalStates
<1> QED
  BY <1>3 DEF Promoting, At, Goto, dbVars, processVars, boundVars, Moves, Becomes, OpTypes, Idle

LEMMA VacateDoes ==
    ASSUME TypeOK, OpTypes, PcFits, Knows, StateFits, Vacate
    PROVE  /\ op.pc = "vacate"
           /\ Moves("fill")
           /\ ws' = None
           /\ backup' = [backup EXCEPT ![op.id] = ws]
           /\ UNCHANGED <<journal, permit, proposal, receipt, versions, snapshots, db, published, spoken, up, reserved, startup, crashes, faults, drifts>>
  BY DEF Vacate, At, Goto, dbVars, processVars, boundVars, Moves, Becomes, OpTypes, Idle

LEMMA FillDoes ==
    ASSUME TypeOK, OpTypes, PcFits, Knows, StateFits, Fill
    PROVE  /\ op.pc = "fill"
           /\ Moves("pendingDb")
           /\ ws' = journal[op.id].target
           /\ UNCHANGED <<backup, journal, permit, proposal, receipt, versions, snapshots, db, published, spoken, up, reserved, startup, crashes, faults, drifts>>
  BY DEF Fill, At, Goto, dbVars, processVars, boundVars, Moves, Becomes, OpTypes, Idle

LEMMA PendingDatabaseDoes ==
    ASSUME TypeOK, OpTypes, PcFits, Knows, StateFits, PendingDatabase
    PROVE  /\ op.pc = "pendingDb"
           /\ JournalSet(op.id, "PROMOTED_PENDING_DB")
           /\ \/ op.id \in Run /\ Moves("final")
              \/ op.id \notin Run /\ Moves("append")
           /\ UNCHANGED <<ws, backup, permit, proposal, receipt, versions, snapshots, db, published, spoken, up, reserved, startup, crashes, faults, drifts>>
<1>1. State(op.id) = "PROMOTING"
  BY DEF PendingDatabase, At, StateFits, Comparison, Swapping, Acknowledgement
<1>2. op.id \in Id /\ journal[op.id] # None
  BY <1>1 DEF PendingDatabase, At, State, PcFits, OwnerFits, OfNobody, TypeOK
<1>3. JournalSet(op.id, "PROMOTED_PENDING_DB")
  BY <1>2, SetsJournal DEF PendingDatabase, JournalStates
<1> QED
  BY <1>3 DEF PendingDatabase, At, Goto, IsRun, dbVars, processVars, boundVars, Moves, Becomes, OpTypes, Idle

LEMMA RecordFinalDoes ==
    ASSUME TypeOK, OpTypes, PcFits, Knows, StateFits, RecordFinal
    PROVE  /\ op.pc = "final"
           /\ receipt' = [receipt EXCEPT ![op.id] = [receipt[op.id] EXCEPT !.final = ws]]
           /\ \/ Moves("append")
              \/ op.outcome = "cancelled" /\ Becomes("undo", op.verdict, op.outcome, "revert")
           /\ UNCHANGED <<ws, backup, journal, permit, proposal, versions, snapshots, db, published, spoken, up, reserved, startup, crashes, faults, drifts>>
  BY DEF RecordFinal, At, SetReceipt, dbVars, processVars, boundVars, Moves, Becomes, OpTypes, Idle

LEMMA AppendVersionDoes ==
    ASSUME TypeOK, OpTypes, PcFits, Knows, StateFits, AppendVersion
    PROVE  /\ op.pc = "append"
           /\ Moves("project")
           /\ LET v == IF op.id \in Run THEN op.tree.v ELSE ws.v IN
                /\ versions' = Append(versions, [id |-> op.id, v |-> v]) /\ snapshots' = Import(v)
           /\ UNCHANGED <<ws, backup, journal, permit, proposal, receipt, db, published, spoken, up, reserved, startup, crashes, faults, drifts>>
  BY DEF AppendVersion, At, IsRun, Goto, dbVars, processVars, boundVars, Moves, Becomes, OpTypes, Idle

LEMMA ProjectDoes ==
    ASSUME TypeOK, OpTypes, PcFits, Knows, StateFits, Project
    PROVE  /\ op.pc = "project"
           /\ Moves("dropBackup")
           /\ spoken' = IF op.id \in Run THEN spoken \cup {op.id} ELSE spoken
           /\ LET live == IF op.id \in Run THEN receipt[op.id].final ELSE ws IN db'.headLive = live /\ db'.live = live
           /\ db'.head = op.id
           /\ db'.gen = db.gen + 1
           /\ db'.thread = IF op.id \in Run THEN op.id ELSE None
           /\ db'.status = db.status /\ db'.cfg = db.cfg /\ db'.locked = db.locked
           /\ UNCHANGED <<ws, backup, journal, permit, proposal, receipt, versions, snapshots, published, up, reserved, startup, crashes, faults, drifts>>
  BY DEF Project, At, IsRun, Goto, diskVars, processVars, boundVars, Moves, Becomes, OpTypes, Idle, TypeOK, Rows

LEMMA DropBackupDoes ==
    ASSUME TypeOK, OpTypes, PcFits, Knows, StateFits, DropBackup
    PROVE  /\ op.pc = "dropBackup"
           /\ Moves("acknowledge")
           /\ backup' = [backup EXCEPT ![op.id] = None]
           /\ UNCHANGED <<ws, journal, permit, proposal, receipt, versions, snapshots, db, published, spoken, up, reserved, startup, crashes, faults, drifts>>
  BY DEF DropBackup, At, Goto, dbVars, processVars, boundVars, Moves, Becomes, OpTypes, Idle

LEMMA AcknowledgeJournalDoes ==
    ASSUME TypeOK, OpTypes, PcFits, Knows, StateFits, AcknowledgeJournal
    PROVE  /\ op.pc = "acknowledge"
           /\ Moves("retention")
           /\ JournalSet(op.id, "ACKNOWLEDGED")
           /\ UNCHANGED <<ws, backup, permit, proposal, receipt, versions, snapshots, db, published, spoken, up, reserved, startup, crashes, faults, drifts>>
<1>1. State(op.id) # "NONE"
  BY DEF AcknowledgeJournal, At, StateFits, Comparison, Swapping, Acknowledgement
<1>2. op.id \in Id /\ journal[op.id] # None
  BY <1>1 DEF AcknowledgeJournal, At, State, PcFits, OwnerFits, OfNobody, TypeOK
<1>3. JournalSet(op.id, "ACKNOWLEDGED")
  BY <1>2, SetsJournal DEF AcknowledgeJournal, JournalStates
<1> QED
  BY <1>3 DEF AcknowledgeJournal, At, Goto, dbVars, processVars, boundVars, Moves, Becomes, OpTypes, Idle

LEMMA ReleaseRetentionDoes ==
    ASSUME TypeOK, OpTypes, PcFits, Knows, StateFits, ReleaseRetention
    PROVE  /\ op.pc = "retention"
           /\ snapshots' = Retention(snapshots, Latest)
           /\ \/ op.id \notin Run /\ Moves("release")
              \/ op.id \in Run /\ up = "starting" /\ Moves("terminal")
              \/ op.id \in Run /\ up # "starting" /\ Moves("destroy")
           /\ UNCHANGED <<ws, backup, journal, permit, proposal, receipt, versions, db, published, spoken, up, reserved, startup, crashes, faults, drifts>>
  BY DEF ReleaseRetention, At, Goto, IsRun, Recovering, dbVars, processVars, boundVars, Moves, Becomes, OpTypes, Idle

LEMMA DestroyProposalDoes ==
    ASSUME TypeOK, OpTypes, PcFits, Knows, StateFits, DestroyProposal
    PROVE  /\ op.pc = "destroy"
           /\ Moves("terminal")
           /\ proposal' = [proposal EXCEPT ![op.id] = "DESTROYED"]
           /\ UNCHANGED <<ws, backup, journal, permit, receipt, versions, snapshots, db, published, spoken, up, reserved, startup, crashes, faults, drifts>>
  BY DEF DestroyProposal, At, Goto, dbVars, processVars, boundVars, Moves, Becomes, OpTypes, Idle

LEMMA TerminalReceiptDoes ==
    ASSUME TypeOK, OpTypes, PcFits, Knows, StateFits, TerminalReceipt
    PROVE  /\ op.pc = "terminal"
           /\ Moves("release")
           /\ IF receipt[op.id] = None \/ Phase(op.id) = "TERMINAL" THEN receipt' = receipt
              ELSE receipt' = [receipt EXCEPT ![op.id] = [receipt[op.id] EXCEPT !.phase = "TERMINAL"]]
           /\ UNCHANGED <<ws, backup, journal, permit, proposal, versions, snapshots, db, published, spoken, up, reserved, startup, crashes, faults, drifts>>
  BY DEF TerminalReceipt, At, SetReceipt, Goto, dbVars, processVars, boundVars, Moves, Becomes, OpTypes, Idle

LEMMA ReleaseDoes ==
    ASSUME TypeOK, OpTypes, PcFits, Knows, StateFits, Release
    PROVE  /\ op.pc = "release"
           /\ up = "up"
           /\ op' = Idle
           /\ published' = IF op.id \in Run THEN [published EXCEPT ![op.id] = "completed"] ELSE published
           /\ db'.status = "ready"
           /\ HeadStays /\ db'.locked = db.locked /\ db'.thread = db.thread
           /\ UNCHANGED <<ws, backup, journal, permit, proposal, receipt, versions, snapshots, spoken, up, reserved, startup, crashes, faults, drifts>>
  BY DEF Release, At, Serving, IsRun, Finish, diskVars, processVars, boundVars, Idle, HeadStays, OpTypes, TypeOK, Rows

LEMMA UndoSwapDoes ==
    ASSUME TypeOK, OpTypes, PcFits, Knows, StateFits, UndoSwap
    PROVE  /\ op.pc = "undo"
           /\ backup[op.id] # None
           /\ IF ws # None THEN ws' = None /\ backup' = backup
              ELSE ws' = backup[op.id] /\ backup' = [backup EXCEPT ![op.id] = None]
           /\ UNCHANGED <<journal, permit, proposal, receipt, versions, snapshots, db, published, spoken, up, reserved, startup, op, crashes, faults, drifts>>
  BY DEF UndoSwap, At, dbVars, processVars, boundVars

LEMMA UndoJournalDoes ==
    ASSUME TypeOK, OpTypes, PcFits, Knows, StateFits, UndoJournal
    PROVE  /\ op.pc = "undo"
           /\ backup[op.id] = None
           /\ \/ ws = journal[op.id].base /\ JournalSet(op.id, "ROLLED_BACK") /\ Moves(op.then) /\ startup' = startup
              \/ ws # journal[op.id].base /\ journal' = journal /\ up = "starting" /\ LeftToAnAdministrator("ambiguous")
              \/ ws # journal[op.id].base /\ journal' = journal /\ up # "starting" /\ Moves("lock") /\ startup' = startup
           /\ UNCHANGED <<ws, backup, permit, proposal, receipt, versions, snapshots, db, published, spoken, up, reserved, crashes, faults, drifts>>
<1>1. State(op.id) # "NONE"
  BY DEF UndoJournal, At, StateFits
<1>2. op.id \in Id /\ journal[op.id] # None
  BY <1>1 DEF UndoJournal, At, State, PcFits, OwnerFits, OfNobody, TypeOK
<1>3. SetJournal(op.id, "ROLLED_BACK") => JournalSet(op.id, "ROLLED_BACK")
  BY <1>2, SetsJournal DEF JournalStates
<1>4. Manual("ambiguous") => LeftToAnAdministrator("ambiguous")
  BY DEF Manual, LeftToAnAdministrator, Begins, Idle, OpTypes, TypeOK, Reports
<1>5. \A pc : Goto(pc) => Moves(pc)
  BY DEF Goto, Moves, Becomes, OpTypes, Idle
<1> QED
  BY <1>3, <1>4, <1>5 DEF UndoJournal, At, Recovering, dbVars, boundVars

LEMMA CloseJournalDoes ==
    ASSUME TypeOK, OpTypes, PcFits, Knows, StateFits, CloseJournal
    PROVE  /\ op.pc = "close"
           /\ JournalSet(op.id, "ROLLED_BACK")
           /\ Moves(op.then)
           /\ UNCHANGED <<ws, backup, permit, proposal, receipt, versions, snapshots, db, published, spoken, up, reserved, startup, crashes, faults, drifts>>
<1>1. State(op.id) # "NONE"
  BY DEF CloseJournal, At, StateFits, Comparison, Swapping, Acknowledgement
<1>2. op.id \in Id /\ journal[op.id] # None
  BY <1>1 DEF CloseJournal, At, State, PcFits, OwnerFits, OfNobody, TypeOK
<1>3. JournalSet(op.id, "ROLLED_BACK")
  BY <1>2, SetsJournal DEF CloseJournal, JournalStates
<1> QED
  BY <1>3 DEF CloseJournal, At, Goto, dbVars, processVars, boundVars, Moves, Becomes, OpTypes, Idle

LEMMA RevertVersionDoes ==
    ASSUME TypeOK, OpTypes, PcFits, Knows, StateFits, RevertVersion
    PROVE  /\ op.pc = "revert"
           /\ IF Latest.id = op.id
              THEN /\ versions' = SubSeq(versions, 1, Len(versions) - 1)
                   /\ snapshots' = Retention(snapshots, versions[Len(versions) - 1])
              ELSE versions' = versions /\ snapshots' = snapshots
           /\ \/ op.id \in Run /\ Moves("abortReceipt")
              \/ op.id \notin Run /\ up = "starting" /\ Moves("rolled")
              \/ op.id \notin Run /\ up # "starting" /\ Moves("withdraw")
           /\ UNCHANGED <<ws, backup, journal, permit, proposal, receipt, db, published, spoken, up, reserved, startup, crashes, faults, drifts>>
  BY DEF RevertVersion, At, Goto, IsRun, Recovering, dbVars, processVars, boundVars, Moves, Becomes, OpTypes, Idle

LEMMA AbortReceiptDoes ==
    ASSUME TypeOK, OpTypes, PcFits, Knows, StateFits, AbortReceipt
    PROVE  /\ op.pc = "abortReceipt"
           /\ IF receipt[op.id] = None \/ Phase(op.id) = "TERMINAL" THEN receipt' = receipt
              ELSE receipt' = [receipt EXCEPT ![op.id] = [receipt[op.id] EXCEPT
                      !.phase = "TERMINAL", !.decision = "ABORTED", !.final = receipt[op.id].base]]
           /\ \/ up = "starting" /\ Moves("rolled") /\ proposal' = proposal
              \/ /\ up # "starting" /\ proposal' = [proposal EXCEPT ![op.id] = "DESTROYED"]
                 /\ \/ Becomes("reject", "ABORTED", op.outcome, op.then)
                    \/ Becomes("publish", op.verdict, "failed", op.then)
           /\ UNCHANGED <<ws, backup, journal, permit, versions, snapshots, db, published, spoken, up, reserved, startup, crashes, faults, drifts>>
<1>1. op' = [op EXCEPT !.pc = "reject", !.verdict = "ABORTED"]
         => Becomes("reject", "ABORTED", op.outcome, op.then)
  BY DEF Becomes, OpTypes, Idle
<1>2. op' = [op EXCEPT !.pc = "publish", !.outcome = "failed"]
         => Becomes("publish", op.verdict, "failed", op.then)
  BY DEF Becomes, OpTypes, Idle
<1>3. Goto("rolled") => Moves("rolled")
  BY DEF Goto, Moves, Becomes, OpTypes, Idle
<1> QED
  BY <1>1, <1>2, <1>3 DEF AbortReceipt, At, Recovering, SetReceipt, dbVars, processVars, boundVars

LEMMA LockDoes ==
    ASSUME TypeOK, OpTypes, PcFits, Knows, StateFits, Lock
    PROVE  /\ op.pc = "lock"
           /\ op' = Idle
           /\ reserved' = TRUE
           /\ db'.locked = TRUE
           /\ db'.thread = None
           /\ db'.status = "error"
           /\ HeadStays
           /\ \/ op.id \notin Run /\ published' = published
              \/ op.id \in Run /\ \E status \in {"cancelled", "failed"} : published' = [published EXCEPT ![op.id] = status]
           /\ UNCHANGED <<ws, backup, journal, permit, proposal, receipt, versions, snapshots, spoken, up, startup, crashes, faults, drifts>>
  BY DEF Lock, At, IsRun, Finish, diskVars, boundVars, Idle, HeadStays, OpTypes, TypeOK, Rows

LEMMA RegenerateDoes ==
    ASSUME TypeOK, OpTypes, PcFits, Knows, StateFits, Regenerate
    PROVE  /\ op.pc = "regenerate"
           /\ ws # None
           /\ ws' = [ws EXCEPT !.p = db.cfg]
           /\ op'.pc = "issue"
           /\ op'.base = [ws EXCEPT !.p = db.cfg]
           /\ DOMAIN op' = DOMAIN op
              /\ op'.tree = op.tree
              /\ op'.gen = op.gen
              /\ op'.verdict = op.verdict
              /\ op'.outcome = op.outcome
              /\ op'.then = op.then
              /\ op'.before = op.before
              /\ op'.id = op.id
           /\ UNCHANGED <<backup, journal, permit, proposal, receipt, versions, snapshots, db, published, spoken, up, reserved, startup, crashes, faults, drifts>>
  BY DEF Regenerate, At, dbVars, processVars, boundVars, OpTypes, Idle

LEMMA WithdrawDoes ==
    ASSUME TypeOK, OpTypes, PcFits, Knows, StateFits, Withdraw
    PROVE  /\ op.pc = "withdraw"
           /\ op' = Idle
           /\ permit' = [permit EXCEPT ![op.id] = IF @ = "CONSUMING" THEN "REVOKED" ELSE @]
           /\ db'.status = op.before
           /\ HeadStays /\ db'.locked = db.locked /\ db'.thread = db.thread
           /\ UNCHANGED <<ws, backup, journal, proposal, receipt, versions, snapshots, published, spoken, up, reserved, startup, crashes, faults, drifts>>
  BY DEF Withdraw, At, Finish, processVars, boundVars, Idle, HeadStays, OpTypes, TypeOK, Rows

LEMMA ConfigureRowDoes ==
    ASSUME TypeOK, OpTypes, PcFits, Knows, StateFits, ConfigureRow
    PROVE  /\ op.pc = "configure"
           /\ op' = Idle
           /\ db'.cfg = db.cfg + 1
           /\ db'.gen = db.gen + 1
           /\ db'.live = ws
           /\ db'.thread = None
           /\ db'.head = db.head /\ db'.headLive = db.headLive /\ db'.status = db.status /\ db'.locked = db.locked
           /\ UNCHANGED <<ws, backup, journal, permit, proposal, receipt, versions, snapshots, published, spoken, up, reserved, startup, crashes, faults, drifts>>
  BY DEF ConfigureRow, At, Finish, diskVars, processVars, boundVars, Idle, OpTypes, TypeOK, Rows

LEMMA ExamineDoes ==
    ASSUME TypeOK, OpTypes, PcFits, Knows, StateFits, ReceiptsFit, NEW i \in Id, Examine(i)
    PROVE  /\ op.pc = "journals"
           /\ i \in startup.todo
           /\ \/ /\ State(i) = "PREPARING" /\ JournalSet(i, "ROLLED_BACK") /\ op' = op
                 /\ startup'.todo = startup.todo \ {i} /\ startup'.rolled = startup.rolled /\ startup'.acked = startup.acked /\ startup'.manual = startup.manual
              \/ /\ UNCHANGED <<journal, startup>>
                 /\ \/ State(i) = "ACKNOWLEDGED" /\ i \in Run /\ Begins(i, "terminal", "revert")
                    \/ State(i) = "ACKNOWLEDGED" /\ i \notin Run /\ Begins(i, "retention", "revert")
                    \/ State(i) = "ROLLED_BACK" /\ Begins(i, "revert", "retention")
                    \/ /\ State(i) = "PROMOTED_PENDING_DB" /\ DatabaseCommitted(i) /\ ws = journal[i].target
                       /\ Begins(i, "dropBackup", "revert")
                    \/ /\ InSwap(i) /\ Begins(i, "undo", "revert")
                       /\ ~(State(i) = "PROMOTED_PENDING_DB" /\ DatabaseCommitted(i) /\ ws = journal[i].target)
           /\ UNCHANGED <<ws, backup, permit, proposal, receipt, versions, snapshots, db, published, spoken, up, reserved, crashes, faults, drifts>>
<1>0. op.pc = "journals" /\ i \in startup.todo
  BY DEF Examine, At
<1>6. up = "starting"
  BY <1>0 DEF TypeOK, PcFits, ProcessFits, RestFits, Idle
<1>1. op.pc = "journals" /\ journal[i] # None
  BY <1>0, <1>6 DEF ReceiptsFit
<1>2. State(i) = journal[i].state
  BY <1>1 DEF State
<1>3. SetJournal(i, "ROLLED_BACK") => JournalSet(i, "ROLLED_BACK")
  BY <1>1, SetsJournal DEF JournalStates
<1>4. \A pc : /\ Recover(i, pc) => Begins(i, pc, "revert")
              /\ RecoverAgain(i) => Begins(i, "revert", "retention")
  BY DEF Recover, RecoverAgain, Begins, Idle, OpTypes
<1>5. Clean(i) => /\ startup'.todo = startup.todo \ {i} /\ startup'.rolled = startup.rolled
                  /\ startup'.acked = startup.acked /\ startup'.manual = startup.manual
                  /\ op' = op
  BY DEF Clean, TypeOK, Reports
<1> QED
  BY <1>1, <1>2, <1>3, <1>4, <1>5 DEF Examine, Clean, IsRun, InSwap, dbVars, boundVars

LEMMA AcknowledgedDoes ==
    ASSUME TypeOK, OpTypes, PcFits, Knows, StateFits, Acknowledged
    PROVE  /\ op.pc = "release"
           /\ up = "starting"
           /\ Begins(None, "journals", None)
           /\ startup'.acked = startup.acked \cup {op.id}
           /\ startup'.todo = startup.todo \ {op.id}
           /\ startup'.rolled = startup.rolled /\ startup'.manual = startup.manual
           /\ snapshots' = Retention(snapshots, Latest)
           /\ UNCHANGED <<ws, backup, journal, permit, proposal, receipt, versions, db, published, spoken, up, reserved, crashes, faults, drifts>>
  BY DEF Acknowledged, Recovering, At, Report, Idle, dbVars, boundVars, Begins, OpTypes, TypeOK, Rows, Reports, NoReport

LEMMA RolledBackDoes ==
    ASSUME TypeOK, OpTypes, PcFits, Knows, StateFits, RolledBack
    PROVE  /\ op.pc = "rolled"
           /\ up = "starting"
           /\ Begins(None, "journals", None)
           /\ startup'.rolled = startup.rolled \cup {op.id}
           /\ startup'.todo = startup.todo \ {op.id}
           /\ startup'.acked = startup.acked /\ startup'.manual = startup.manual
           /\ snapshots' \in {snapshots, Retention(snapshots, Latest)}
           /\ UNCHANGED <<ws, backup, journal, permit, proposal, receipt, versions, db, published, spoken, up, reserved, crashes, faults, drifts>>
  BY DEF RolledBack, Recovering, At, Report, Idle, dbVars, boundVars, Begins, OpTypes, TypeOK, Rows, Reports, NoReport

LEMMA ScanReceiptDoes ==
    ASSUME TypeOK, OpTypes, PcFits, Knows, StateFits, NEW r \in Run, ScanReceipt(r)
    PROVE  /\ op.pc = "journals"
           /\ startup.todo = {}
           /\ Phase(r) = "PENDING_PROMOTION"
           /\ journal[r] = None
           /\ ws = receipt[r].base
           /\ receipt' = [receipt EXCEPT ![r] = [receipt[r] EXCEPT !.phase = "TERMINAL", !.decision = "ABORTED",
                                                      !.final = receipt[r].base]]
           /\ startup'.rolled = startup.rolled \cup {r}
           /\ startup'.todo = startup.todo /\ startup'.acked = startup.acked /\ startup'.manual = startup.manual
           /\ UNCHANGED <<ws, backup, journal, permit, proposal, versions, snapshots, db, published, spoken, up, reserved, op, crashes, faults, drifts>>
  BY DEF ScanReceipt, At, SetReceipt, dbVars, boundVars, TypeOK, Reports, NoReport

LEMMA DisposeAtStartupDoes ==
    ASSUME TypeOK, OpTypes, PcFits, Knows, StateFits, NEW r \in Run, DisposeAtStartup(r)
    PROVE  /\ op.pc = "dispositions"
           /\ r \in startup.todo
           /\ startup'.todo = startup.todo \ {r}
           /\ startup'.rolled = startup.rolled /\ startup'.acked = startup.acked /\ startup'.manual = startup.manual
           /\ \/ /\ receipt' = receipt /\ db'.status = "error" /\ db'.locked = TRUE /\ db'.thread = None
                 /\ HeadStays
              \/ receipt' = [receipt EXCEPT ![r] = [receipt[r] EXCEPT !.phase = "TERMINAL"]] /\ db' = db
           /\ UNCHANGED <<ws, backup, journal, permit, proposal, versions, snapshots, published, spoken, up, reserved, op, crashes, faults, drifts>>
<1>1. db' = [db EXCEPT !.status = "error", !.locked = TRUE, !.thread = None]
         => db'.status = "error" /\ db'.locked = TRUE /\ db'.thread = None /\ HeadStays
  BY DEF HeadStays, TypeOK, Rows
<1>2. startup'.todo = startup.todo \ {r} /\ startup'.rolled = startup.rolled
      /\ startup'.acked = startup.acked /\ startup'.manual = startup.manual
  BY DEF DisposeAtStartup, TypeOK, Reports
<1>3. CASE Disposed(r) /\ UNCHANGED db
  BY <1>2, <1>3 DEF DisposeAtStartup, Disposed, SetReceipt, At, boundVars
<1>4. CASE ~(Disposed(r) /\ UNCHANGED db)
  BY <1>1, <1>2, <1>4 DEF DisposeAtStartup, At, boundVars
<1> QED
  BY <1>3, <1>4

LEMMA ReprojectDoes ==
    ASSUME TypeOK, OpTypes, PcFits, Knows, StateFits, Reproject
    PROVE  /\ op.pc = "journals"
           /\ startup.todo = {}
           /\ Moves("settle")
           /\ startup'.todo = startup.todo /\ startup'.rolled = startup.rolled /\ startup'.acked = startup.acked
           /\ \A r \in Unaccounted : ws # receipt[r].base
           /\ \/ /\ startup.manual = "no" /\ Unaccounted = {} /\ ws # None /\ startup'.manual = "no"
                 /\ db'.head = Latest.id /\ db'.headLive = ws /\ db'.live = ws /\ db'.status = db.status /\ db'.gen = db.gen /\ db'.cfg = db.cfg /\ db'.locked = db.locked /\ db'.thread = db.thread
              \/ startup.manual = "no" /\ (Unaccounted # {} \/ ws = None) /\ startup'.manual = "ambiguous" /\ db' = db
              \/ startup.manual # "no" /\ startup'.manual = startup.manual /\ db' = db
           /\ UNCHANGED <<ws, backup, journal, permit, proposal, receipt, versions, snapshots, published, spoken, up, reserved, crashes, faults, drifts>>
  BY DEF Reproject, At, Goto, diskVars, boundVars, Moves, Becomes, OpTypes, Idle, TypeOK, Rows, Reports, NoReport

LEMMA SettleDoes ==
    ASSUME TypeOK, OpTypes, PcFits, Knows, StateFits, Settle
    PROVE  /\ op.pc = "settle"
           /\ Moves("dispositions")
           /\ spoken' = spoken \ startup.rolled
           /\ reserved' = (startup.manual # "no")
           /\ startup'.todo = {r \in Run : Phase(r) = "PENDING_DISPOSITION"}
           /\ startup'.rolled = startup.rolled /\ startup'.acked = startup.acked /\ startup'.manual = startup.manual
           /\ HeadStays
           /\ db'.locked = (startup.manual # "no")
           /\ db'.thread = None \/ db'.thread = db.thread
           /\ startup.manual # "no" \/ AbortedAfterAll # {} => db'.thread = None
           /\ \A r \in Run : r \in startup.rolled \cup AbortedAfterAll => published'[r] = "failed"
           /\ \A r \in Run \ (startup.rolled \cup AbortedAfterAll) : published'[r] \in {published[r], "cancelled"}
           /\ UNCHANGED <<ws, backup, journal, permit, proposal, receipt, versions, snapshots, up, crashes, faults, drifts>>
<1> DEFINE unsettled == [startup EXCEPT !.todo = {r \in Run : Phase(r) = "PENDING_DISPOSITION"}]
<1>1. /\ unsettled.todo = {r \in Run : Phase(r) = "PENDING_DISPOSITION"}
      /\ unsettled.rolled = startup.rolled /\ unsettled.acked = startup.acked
      /\ unsettled.manual = startup.manual
  BY DEF TypeOK, Reports
<1>2. startup' = unsettled
  BY DEF Settle
<1>3. /\ HeadStays /\ db'.locked = (startup.manual # "no")
      /\ db'.thread = None \/ db'.thread = db.thread
      /\ startup.manual # "no" \/ AbortedAfterAll # {} => db'.thread = None
  BY DEF Settle, TypeOK, Rows, HeadStays
<1>4. Moves("dispositions")
  BY DEF Settle, Goto, Moves, Becomes, OpTypes, Idle
<1>5. \A r \in Run : published'[r] = IF r \in startup.rolled \cup AbortedAfterAll THEN "failed"
          ELSE IF r \notin startup.acked /\ published[r] \in {"queued", "running"} THEN "cancelled"
          ELSE published[r]
  BY DEF Settle
<1> HIDE DEF unsettled
<1> QED
  BY <1>1, <1>2, <1>3, <1>4, <1>5 DEF Settle, At, Rejected, diskVars, boundVars

LEMMA ServeDoes ==
    ASSUME TypeOK, OpTypes, PcFits, Knows, StateFits, Serve
    PROVE  /\ op.pc = "dispositions"
           /\ startup.todo = {}
           /\ up' = "up"
           /\ op' = Idle
           /\ startup' = NoReport
           /\ UNCHANGED <<ws, backup, journal, permit, proposal, receipt, versions, snapshots, db, published, spoken, reserved, crashes, faults, drifts>>
  BY DEF Serve, At, Finish, diskVars, dbVars, boundVars, Idle, OpTypes

LEMMA SubmitDoes ==
    ASSUME TypeOK, OpTypes, PcFits, Knows, StateFits, NEW r \in Run, Submit(r)
    PROVE  /\ up = "up"
           /\ op = Idle
           /\ ~db.locked
           /\ ~reserved
           /\ published[r] = "none"
           /\ published' = [published EXCEPT ![r] = "queued"]
           /\ Begins(r, "bind", None)
           /\ db'.status = "busy"
           /\ HeadStays /\ db'.locked = db.locked /\ db'.thread = db.thread
           /\ UNCHANGED <<ws, backup, journal, permit, proposal, receipt, versions, snapshots, spoken, up, reserved, startup, crashes, faults, drifts>>
  BY DEF Submit, Admits, Idle, diskVars, processVars, boundVars, Serving, Begins, HeadStays, OpTypes, TypeOK, Rows

LEMMA StartRollbackDoes ==
    ASSUME TypeOK, OpTypes, PcFits, Knows, StateFits, NEW x \in Rollback, StartRollback(x)
    PROVE  /\ up = "up"
           /\ op = Idle
           /\ ~db.locked
           /\ ~reserved
           /\ permit[x] = "NONE"
           /\ db.status \in {"ready", "error"}
           /\ op'.id = x
           /\ op'.pc = "regenerate"
           /\ op'.before = db.status
           /\ op'.base = None
           /\ op'.verdict = None
           /\ op'.then = None
           /\ op'.gen = 0
           /\ DOMAIN op' = DOMAIN op
           /\ \E k \in DOMAIN versions : op'.tree = [v |-> versions[k].v, p |-> db.cfg] /\ versions[k].v \in Restorable
           /\ db'.status = "busy"
           /\ HeadStays /\ db'.locked = db.locked /\ db'.thread = db.thread
           /\ UNCHANGED <<ws, backup, journal, permit, proposal, receipt, versions, snapshots, published, spoken, up, reserved, startup, crashes, faults, drifts>>
  BY DEF StartRollback, Admits, Idle, diskVars, processVars, boundVars, Serving, HeadStays, OpTypes, TypeOK, Rows

LEMMA ConfigureDoes ==
    ASSUME TypeOK, OpTypes, PcFits, Knows, StateFits, Configure
    PROVE  /\ up = "up"
           /\ op = Idle
           /\ ~db.locked
           /\ ~reserved
           /\ ws # None
           /\ db.cfg < MaxConfigs
           /\ ws' = [ws EXCEPT !.p = db.cfg + 1]
           /\ Begins(None, "configure", None)
           /\ UNCHANGED <<backup, journal, permit, proposal, receipt, versions, snapshots, db, published, spoken, up, reserved, startup, crashes, faults, drifts>>
  BY DEF Configure, Admits, Idle, dbVars, processVars, boundVars, Serving, Begins, OpTypes, TypeOK, Rows

LEMMA StartAgentDoes ==
    ASSUME TypeOK, OpTypes, PcFits, Knows, StateFits, StartAgent
    PROVE  /\ up = "up"
           /\ op = Idle
           /\ ~db.locked
           /\ ~reserved
           /\ db'.status = "ready"
           /\ HeadStays /\ db'.locked = db.locked /\ db'.thread = db.thread
           /\ UNCHANGED <<ws, backup, journal, permit, proposal, receipt, versions, snapshots, published, spoken, up, reserved, startup, op, crashes, faults, drifts>>
  BY DEF StartAgent, Admits, diskVars, processVars, boundVars, Serving, Idle, HeadStays, TypeOK, Rows

LEMMA CancelDoes ==
    ASSUME TypeOK, OpTypes, PcFits, Knows, StateFits, Cancel
    PROVE  /\ up = "up"
           /\ op.id \in Run
           /\ op.outcome = "decided"
           /\ op.pc \in {"agent", "seal", "verify", "issue", "claim", "record", "stage", "cas",
                           "consume", "promoting", "vacate", "fill", "pendingDb", "final"}
           /\ Becomes(op.pc, op.verdict, "cancelled", op.then)
           /\ UNCHANGED <<ws, backup, journal, permit, proposal, receipt, versions, snapshots, db, published, spoken, up, reserved, startup, crashes, faults, drifts>>
  BY DEF Cancel, Serving, IsRun, diskVars, dbVars, processVars, boundVars, Becomes, OpTypes, Idle

LEMMA StartDoes ==
    ASSUME TypeOK, OpTypes, PcFits, Knows, StateFits, Start
    PROVE  /\ up = "down"
           /\ up' = "starting"
           /\ reserved' = FALSE
           /\ startup'.todo = {i \in Id : journal[i] # None}
           /\ startup'.rolled = {}
           /\ startup'.acked = {}
           /\ startup'.manual = "no"
           /\ Begins(None, "journals", None)
           /\ UNCHANGED <<ws, backup, journal, permit, proposal, receipt, versions, snapshots, db, published, spoken, crashes, faults, drifts>>
  BY DEF Start, Idle, diskVars, dbVars, boundVars, Begins, OpTypes, TypeOK, Rows, Reports, NoReport

LEMMA FaultAtStartupDoes ==
    ASSUME TypeOK, OpTypes, PcFits, Knows, StateFits, FaultAtStartup
    PROVE  /\ up = "starting"
           /\ faults' = faults + 1
           /\ \/ op.pc \in {"settle", "dispositions"} /\ up' = "down" /\ op' = Idle /\ startup' = NoReport
              \/ op.pc \notin {"settle", "dispositions"} /\ up' = up /\ op.id # None /\ LeftToAnAdministrator("fault")
           /\ UNCHANGED <<ws, backup, journal, permit, proposal, receipt, versions, snapshots, db, published, spoken, reserved, crashes, drifts>>
<1>1. Manual("fault") => LeftToAnAdministrator("fault")
  BY DEF Manual, LeftToAnAdministrator, Begins, Idle, OpTypes, TypeOK, Reports
<1> QED
  BY <1>1 DEF FaultAtStartup, Recovering, diskVars, dbVars

LEMMA CrashDoes ==
    ASSUME TypeOK, OpTypes, PcFits, Knows, StateFits, Crash
    PROVE  /\ up # "down"
           /\ crashes' = crashes + 1
           /\ up' = "down"
           /\ op' = Idle
           /\ startup' = NoReport
           /\ UNCHANGED <<ws, backup, journal, permit, proposal, receipt, versions, snapshots, db, published, spoken, reserved, faults, drifts>>
  BY DEF Crash, Idle, diskVars, dbVars, OpTypes

LEMMA DriftDoes ==
    ASSUME TypeOK, OpTypes, PcFits, Knows, StateFits, Drift
    PROVE  /\ ws # None
           /\ ws.v # Edited
           /\ ws' = [ws EXCEPT !.v = Edited]
           /\ drifts' = drifts + 1
           /\ UNCHANGED <<backup, journal, permit, proposal, receipt, versions, snapshots, db, published, spoken, up, reserved, startup, op, crashes, faults>>
  BY DEF Drift, dbVars, processVars

LEMMA FaultDoes ==
    ASSUME TypeOK, OpTypes, PcFits, Knows, StateFits, Fault
    PROVE  /\ up = "up" /\ faults' = faults + 1
           /\ \/ FaultEarly
              \/ FaultInSwap
              \/ FaultLate
              \/ /\ op.pc \in {"bind", "lock", "publish", "dispose", "withdraw", "configure"}
                 /\ op.pc = "publish" => op.outcome # "decided"
                 /\ op' = Idle
           /\ reserved' = (reserved \/ op.pc = "lock"
                 \/ (op.pc = "publish" /\ op.outcome # "decided" /\ AwaitsAck(op.id)))
           /\ \/ op.pc # "configure" /\ ws' = ws
              \/ op.pc = "configure" /\ ws' = [ws EXCEPT !.p = db.cfg]
           /\ UNCHANGED <<backup, journal, permit, proposal, receipt, versions, snapshots, db, published, spoken, up, startup, crashes, drifts>>
<1>1. /\ up = "up" /\ faults' = faults + 1 /\ Continuation
      /\ reserved' = (reserved \/ op.pc = "lock"
                 \/ (op.pc = "publish" /\ op.outcome # "decided" /\ AwaitsAck(op.id)))
      /\ \/ op.pc # "configure" /\ ws' = ws
         \/ op.pc = "configure" /\ ws' = [ws EXCEPT !.p = db.cfg]
      /\ UNCHANGED <<backup, journal, permit, proposal, receipt, versions, snapshots, db, published, spoken, up, startup, crashes, drifts>>
  BY DEF Fault, Serving, dbVars
<1>2. \A pc : FailTo(pc) => Moves(pc)
  BY DEF FailTo, Moves, Becomes, OpTypes, Idle
<1>3. AdmissionFails => FaultEarly
  <2> SUFFICES ASSUME AdmissionFails PROVE FaultEarly
    OBVIOUS
  <2>1. CASE op.pc = "prepare"
    BY <2>1 DEF AdmissionFails, At, FaultEarly, Becomes, OpTypes, Idle
  <2>2. CASE op.pc = "admission"
    BY <2>2 DEF AdmissionFails, At, FaultEarly, Becomes, OpTypes, Idle
  <2> QED
    BY <2>1, <2>2 DEF AdmissionFails, At
<1>4. PreparationFails => FaultEarly
  <2> SUFFICES ASSUME PreparationFails PROVE FaultEarly
    OBVIOUS
  <2>1. CASE IsRun(op.id) /\ Rejects("ABORTED")
    <3>1. Becomes("reject", "ABORTED", op.outcome, op.then)
      BY <2>1 DEF Rejects, Becomes, OpTypes, Idle
    <3> QED
      BY <2>1, <3>1 DEF PreparationFails, IsRun, FaultEarly
  <2>2. CASE ~(IsRun(op.id) /\ Rejects("ABORTED"))
    BY <1>2, <2>2 DEF PreparationFails, IsRun, FaultEarly
  <2> QED
    BY <2>1, <2>2
<1>5. SwapFails => FaultInSwap
  <2> SUFFICES ASSUME SwapFails PROVE FaultInSwap
    OBVIOUS
<2> DEFINE refused == IF IsRun(op.id) THEN "reject" ELSE "withdraw"
<2>0. refused = IF op.id \in Run THEN "reject" ELSE "withdraw"
  BY DEF IsRun
<2>6. \A then : op' = [op EXCEPT !.pc = "undo", !.then = then] => Becomes("undo", op.verdict, op.outcome, then)
  BY DEF Becomes, OpTypes, Idle
<2>1. CASE op.pc \in {"consume", "vacate"}
  <3>1. op' = [op EXCEPT !.pc = "close", !.verdict = "ABORTED", !.then = refused]
    BY <2>1 DEF SwapFails, At
  <3> HIDE DEF refused
  <3>2. Becomes("close", "ABORTED", op.outcome, refused)
    BY <3>1 DEF Becomes, OpTypes, Idle
  <3> QED
    BY <2>0, <2>1, <3>2 DEF FaultInSwap
<2>2. CASE op.pc \in {"fill", "final"}
  <3>1. op' = [op EXCEPT !.pc = "undo", !.verdict = "ABORTED", !.then = refused]
    BY <2>2 DEF SwapFails, At
  <3> HIDE DEF refused
  <3>2. Becomes("undo", "ABORTED", op.outcome, refused)
    BY <3>1 DEF Becomes, OpTypes, Idle
  <3> QED
    BY <2>0, <2>2, <3>2 DEF FaultInSwap
<2>3. CASE op.pc \in {"append", "project"}
  <3>1. \/ op' = [op EXCEPT !.pc = "undo", !.then = "revert"]
        \/ op.pc = "append" /\ op.id \notin Run /\ op' = [op EXCEPT !.pc = "undo", !.then = "withdraw"]
    BY <2>3 DEF SwapFails, At, IsRun
  <3> QED
    BY <2>3, <2>6, <3>1 DEF FaultInSwap
<2>4. CASE op.pc = "close"
  <3>1. FailTo(IF journal[op.id].state = "PREPARING" THEN op.then ELSE "lock")
    BY <2>4 DEF SwapFails, At
  <3>2. State(op.id) = journal[op.id].state
    BY <2>4 DEF StateFits, State
  <3>3. CASE State(op.id) = "PREPARING"
    BY <1>2, <2>4, <3>1, <3>2, <3>3 DEF FaultInSwap
  <3>4. CASE State(op.id) # "PREPARING"
    BY <1>2, <2>4, <3>1, <3>2, <3>4 DEF FaultInSwap
  <3> QED
    BY <3>3, <3>4
<2>5. CASE op.pc \in {"pendingDb", "undo", "revert", "abortReceipt"}
  <3>1. FailTo("lock")
    BY <2>5 DEF SwapFails, At
  <3> QED
    BY <1>2, <2>5, <3>1 DEF FaultInSwap
<2> QED
  BY <2>1, <2>2, <2>3, <2>4, <2>5 DEF SwapFails, At
<1>6. AcknowledgementFails => FaultLate
  <2> SUFFICES ASSUME AcknowledgementFails PROVE FaultLate
    OBVIOUS
  <2>1. \A pc : op' = [op EXCEPT !.pc = pc, !.retried = TRUE] => Moves(pc)
    BY DEF Moves, Becomes, OpTypes, Idle
  <2>2. \A pc : op' = [op EXCEPT !.pc = pc, !.outcome = "failed"] => Becomes(pc, op.verdict, "failed", op.then)
    BY DEF Becomes, OpTypes, Idle
  <2>3. CASE op.pc \in {"dropBackup", "acknowledge", "retention", "terminal"}
    <3>1. \E pc \in {"lock", "dropBackup"} : op' = [op EXCEPT !.pc = pc, !.retried = TRUE]
      BY <2>3 DEF AcknowledgementFails, At
    <3> QED
      BY <2>1, <2>3, <3>1 DEF FaultLate
  <2>4. CASE op.pc = "release"
    <3>1. \/ op.id \in Run /\ op' = [op EXCEPT !.pc = "publish", !.outcome = "failed"]
          \/ op.id \notin Run /\ op' = [op EXCEPT !.pc = "lock", !.outcome = "failed"]
      BY <2>4 DEF AcknowledgementFails, At, IsRun
    <3> QED
      BY <2>2, <2>4, <3>1 DEF FaultLate
  <2> QED
    BY <2>3, <2>4 DEF AcknowledgementFails, At
<1>7. RefusalFails => FaultLate
  <2> SUFFICES ASSUME RefusalFails PROVE FaultLate
    OBVIOUS
  <2>1. op' = [op EXCEPT !.verdict = "ABORTED", !.outcome = "failed"] => Becomes(op.pc, "ABORTED", "failed", op.then)
    BY DEF Becomes, OpTypes, Idle
  <2>2. op' = [op EXCEPT !.outcome = "failed"] => Becomes(op.pc, op.verdict, "failed", op.then)
    BY DEF Becomes, OpTypes, Idle
  <2>3. op' = [op EXCEPT !.pc = "publish"] => Moves("publish")
    BY DEF Moves, Becomes, OpTypes, Idle
  <2> QED
    BY <2>1, <2>2, <2>3 DEF RefusalFails, At, FaultLate
<1>8. CASE OperationEnds
  BY <1>1, <1>8 DEF OperationEnds, At
<1> QED
  BY <1>1, <1>3, <1>4, <1>5, <1>6, <1>7, <1>8 DEF Continuation

----------------------------------------------------------------------------
(* The operation: its types, and what it knows. *)

LEMMA NobodyTyped ==
    op' = Idle => OpTypes'
  BY DEF Idle, OpTypes

LEMMA NobodyKnows ==
    op' = Idle => Knows'
  BY GateAssumption DEF Idle, Knows, OfRollbacks, Preparation, Comparison, Swapping, Projection

LEMMA JournalsNext ==
    ASSUME OpTypes, Begins(None, "journals", None)
    PROVE  OpTypes' /\ Knows'
  BY GateAssumption DEF Begins, OpTypes, Knows, Preparation, Comparison, Swapping, Projection

LEMMA VersionTyped ==
    ASSUME TypeOK, NEW k \in DOMAIN versions
    PROVE  versions[k] \in Versions /\ versions[k].v \in Content /\ versions[k].id \in Id \cup {Initial}
<1>1. versions[k] \in Versions
  BY DEF TypeOK
<1> QED
  BY <1>1 DEF Versions

LEMMA OwnerOfRun ==
    ASSUME PcFits, op.pc \in {"bind", "prepare", "admission", "agent", "seal", "verify", "record", "final", "destroy",
              "terminal", "reject", "rejectReceipt", "publish", "dispose", "abortReceipt"}
    PROVE  op.id \in Run /\ op.id \notin Rollback /\ op.id \in Id /\ op.id # None
  BY GateAssumption DEF PcFits, OwnerFits, OfRuns, Admission, Id

LEMMA OwnerOfRollback ==
    ASSUME PcFits, op.pc \in {"regenerate", "withdraw"}
    PROVE  op.id \in Rollback /\ op.id \notin Run /\ op.id \in Id /\ op.id # None
  BY GateAssumption DEF PcFits, OwnerFits, OfRollbacks, Id

LEMMA OwnerOfNobody ==
    ASSUME PcFits, op.pc \in {"idle", "configure", "journals", "settle", "dispositions"}
    PROVE  op.id = None
  BY DEF PcFits, OwnerFits, OfNobody

LEMMA Owner ==
    ASSUME TypeOK, PcFits, op.pc \notin {"idle", "configure", "journals", "settle", "dispositions"}
    PROVE  op.id \in Id /\ op.id # None
  BY DEF PcFits, OwnerFits, OfNobody, TypeOK

LEMMA Someone ==
    /\ None \notin Run /\ None \notin Rollback /\ None \notin Id /\ Initial \notin Id
    /\ \A i : ~(i \in Run /\ i \in Rollback)
    /\ \A i : i \in Id <=> i \in Run \/ i \in Rollback
  BY GateAssumption DEF Id

LEMMA Alive ==
    ASSUME PcFits, op.pc # "idle"
    PROVE  up # "down"
  BY DEF PcFits, RestFits, Idle

LEMMA Recovers ==
    ASSUME TypeOK, PcFits, op.pc \in {"journals", "settle", "dispositions", "rolled"}
    PROVE  up = "starting"
  BY DEF TypeOK, PcFits, ProcessFits, RestFits, Idle

LEMMA InRun ==
    ASSUME TypeOK, PcFits, op.pc \notin InRecovery, op.pc # "idle"
    PROVE  up = "up"
  BY DEF TypeOK, PcFits, ProcessFits, RestFits, Idle

LEMMA OpTypesKept ==
    ASSUME TypeOK, OpTypes, Knows, PcFits, StateFits, ReceiptsFit, Next
    PROVE  OpTypes'
<1>1. CASE Bind \/ Prepare \/ PrepareConflict \/ RecordAdmissionFailure
  BY <1>1, BindDoes, PrepareDoes, PrepareConflictDoes, RecordAdmissionFailureDoes DEF OpTypes,
     TypeOK, Rows, Becomes, Moves
<1>2. CASE RunAgent
  <2>1. op.base \in Tree /\ op.id \in Run
    <3>1. op.id \in Run
      BY <1>2, RunAgentDoes, OwnerOfRun
    <3>2. up = "up"
      BY <1>2, RunAgentDoes, InRun DEF InRecovery
    <3> QED
      BY <1>2, <3>1, <3>2, RunAgentDoes DEF Knows, OpTypes
  <2>2. \A v \in {op.id, op.base.v} : [op.base EXCEPT !.v = v] \in Tree
    BY <2>1 DEF Tree, Content, Id
  <2> QED
    BY <1>2, <2>2, RunAgentDoes DEF OpTypes
<1>3. CASE AgentEnds \/ Seal \/ SealRefuses \/ Verify \/ Reject \/ RejectReceipt
  BY <1>3, AgentEndsDoes, SealDoes, SealRefusesDoes, VerifyDoes, RejectDoes, RejectReceiptDoes DEF
     OpTypes, Becomes, Moves
<1>4. CASE Publish \/ Dispose \/ Issue \/ Claim \/ RecordPromotion \/ Stage
  BY <1>4, PublishDoes, NobodyTyped, DisposeDoes, IssueDoes, ClaimDoes, RecordPromotionDoes,
     StageDoes DEF OpTypes, Moves, HeadStays, Becomes, Idle
<1>5. CASE CompareBase \/ CompareConflict \/ Consume \/ Promoting \/ Vacate \/ Fill
  BY <1>5, CompareBaseDoes, CompareConflictDoes, ConsumeDoes, PromotingDoes, VacateDoes, FillDoes DEF
     OpTypes, Moves, Becomes, JournalSet
<1>6. CASE \/ PendingDatabase \/ RecordFinal \/ AppendVersion \/ Project \/ DropBackup
           \/ AcknowledgeJournal
  BY <1>6, PendingDatabaseDoes, RecordFinalDoes, AppendVersionDoes, ProjectDoes, DropBackupDoes,
     AcknowledgeJournalDoes DEF OpTypes, Moves, JournalSet, Becomes
<1>7. CASE \/ ReleaseRetention \/ DestroyProposal \/ TerminalReceipt \/ Release \/ UndoSwap
           \/ UndoJournal
  BY <1>7, ReleaseRetentionDoes, DestroyProposalDoes, TerminalReceiptDoes, ReleaseDoes,
     NobodyTyped, UndoSwapDoes, UndoJournalDoes, JournalsNext DEF OpTypes, Moves, Becomes,
     HeadStays, Idle, JournalSet, LeftToAnAdministrator, Begins
<1>8. CASE CloseJournal \/ RevertVersion \/ AbortReceipt \/ Lock
  BY <1>8, CloseJournalDoes, RevertVersionDoes, AbortReceiptDoes, LockDoes, NobodyTyped DEF
     OpTypes, Moves, JournalSet, Becomes, HeadStays, Idle
<1>9. CASE Regenerate
  <2>1. [ws EXCEPT !.p = db.cfg] \in Tree
    BY <1>9, RegenerateDoes DEF TypeOK, Rows, Tree
  <2> QED
    BY <1>9, <2>1, RegenerateDoes DEF OpTypes
<1>10. CASE Withdraw \/ ConfigureRow
  BY <1>10, WithdrawDoes, NobodyTyped, ConfigureRowDoes DEF OpTypes, HeadStays, Idle
<1>11. CASE \E i \in Id : Examine(i)
  <2>1. PICK i \in Id : Examine(i)
    BY <1>11
  <2> QED
    BY <2>1, ExamineDoes DEF OpTypes, Begins, JournalSet
<1>12. CASE Acknowledged \/ RolledBack
  BY <1>12, AcknowledgedDoes, JournalsNext, NobodyTyped, RolledBackDoes DEF OpTypes, Begins
<1>13. CASE \E r \in Run : ScanReceipt(r)
  <2>1. PICK r \in Run : ScanReceipt(r)
    BY <1>13
  <2> QED
    BY <2>1, ScanReceiptDoes DEF OpTypes
<1>14. CASE \E r \in Run : DisposeAtStartup(r)
  <2>1. PICK r \in Run : DisposeAtStartup(r)
    BY <1>14
  <2> QED
    BY <2>1, DisposeAtStartupDoes DEF OpTypes, HeadStays
<1>15. CASE Reproject \/ Settle \/ Serve
  BY <1>15, ReprojectDoes, SettleDoes, ServeDoes, NobodyTyped DEF OpTypes, Moves, Becomes,
     HeadStays, Idle
<1>16. CASE \E r \in Run : Submit(r)
  <2>1. PICK r \in Run : Submit(r)
    BY <1>16
  <2> QED
    BY <2>1, SubmitDoes DEF OpTypes, Begins, HeadStays, Idle
<1>17. CASE \E x \in Rollback : StartRollback(x)
  <2>1. PICK x \in Rollback : StartRollback(x)
    BY <1>17
  <2>2. PICK k \in DOMAIN versions : op'.tree = [v |-> versions[k].v, p |-> db.cfg]
    BY <2>1, StartRollbackDoes
  <2>3. op'.tree \in Tree
    BY <2>2, VersionTyped DEF Tree, TypeOK, Rows
  <2> QED
    BY <2>1, <2>3, StartRollbackDoes DEF OpTypes
<1>18. CASE Configure \/ StartAgent \/ Cancel
  BY <1>18, ConfigureDoes, StartAgentDoes, CancelDoes DEF OpTypes, Begins, Idle, HeadStays,
     Becomes
<1>19. CASE Start \/ FaultAtStartup \/ Crash
  BY <1>19, StartDoes, JournalsNext, NobodyTyped, FaultAtStartupDoes, CrashDoes DEF OpTypes,
     Begins, LeftToAnAdministrator, Idle
<1>20. CASE Drift \/ Fault
  BY <1>20, DriftDoes, FaultDoes, NobodyTyped DEF OpTypes, Becomes, Moves, Idle, FaultEarly,
     FaultInSwap, FaultLate
<1> QED
  BY <1>1, <1>2, <1>3, <1>4, <1>5, <1>6, <1>7, <1>8, <1>9, <1>10, <1>11, <1>12, <1>13, <1>14,
     <1>15, <1>16, <1>17, <1>18, <1>19, <1>20 DEF Next, Request, Step, RunStep, TransitionStep,
     StartupStep

LEMMA KnowsKept ==
    ASSUME TypeOK, OpTypes, Knows, PcFits, StateFits, ReceiptsFit, Next
    PROVE  Knows'
<1>1. CASE Bind
  <2>1. op.id \in Run /\ op.id \notin Rollback
    BY <1>1, BindDoes, OwnerOfRun
  <2>2. op'.base # None
    BY <1>1, BindDoes, NoneAssumption DEF TypeOK, Rows
  <2> QED
    BY <1>1, <2>1, <2>2, BindDoes DEF Knows, OfRollbacks, Preparation, Comparison, Swapping, Projection
<1>2. CASE Prepare \/ PrepareConflict \/ RecordAdmissionFailure
  BY <1>2, PrepareDoes, OwnerOfRun, PrepareConflictDoes, RecordAdmissionFailureDoes DEF Knows,
     OfRollbacks, Preparation, Comparison, Swapping, Projection, Becomes, Moves
<1>3. CASE RunAgent
  <2>1. op.id \in Run /\ op.id \notin Rollback
    BY <1>3, RunAgentDoes, OwnerOfRun
  <2>2. op.base \in Tree
    BY <1>3, <2>1, InRun, RunAgentDoes DEF Knows, OpTypes, InRecovery
  <2>3. op'.tree # None
    BY <1>3, <2>1, <2>2, RunAgentDoes, NoneAssumption DEF Tree, Content, Id
  <2> QED
    BY <1>3, <2>1, <2>3, RunAgentDoes DEF Knows, OfRollbacks, Preparation, Comparison, Swapping, Projection
<1>4. CASE AgentEnds \/ Seal \/ SealRefuses \/ Verify \/ Reject \/ RejectReceipt
  BY <1>4, AgentEndsDoes, SealDoes, OwnerOfRun, SealRefusesDoes, VerifyDoes, RejectDoes,
     RejectReceiptDoes DEF Knows, OfRollbacks, Preparation, Comparison, Swapping, Projection,
     Becomes, Moves
<1>5. CASE Publish \/ Dispose \/ Issue \/ Claim \/ RecordPromotion \/ Stage
  BY <1>5, PublishDoes, OwnerOfRun, NobodyKnows, DisposeDoes, IssueDoes, ClaimDoes,
     RecordPromotionDoes, StageDoes DEF Knows, OfRollbacks, Preparation, Comparison, Swapping,
     Projection, Moves, HeadStays, Becomes, Idle
<1>6. CASE CompareBase \/ CompareConflict \/ Consume \/ Promoting \/ Vacate \/ Fill
  BY <1>6, CompareBaseDoes, CompareConflictDoes, ConsumeDoes, PromotingDoes, VacateDoes, FillDoes DEF
     Knows, OfRollbacks, Preparation, Comparison, Swapping, Projection, Moves, Becomes, JournalSet
<1>7. CASE \/ PendingDatabase \/ RecordFinal \/ AppendVersion \/ Project \/ DropBackup
           \/ AcknowledgeJournal
  BY <1>7, PendingDatabaseDoes, RecordFinalDoes, OwnerOfRun, AppendVersionDoes, ProjectDoes,
     DropBackupDoes, AcknowledgeJournalDoes DEF Knows, OfRollbacks, Preparation, Comparison,
     Swapping, Projection, Moves, JournalSet, Becomes
<1>8. CASE \/ ReleaseRetention \/ DestroyProposal \/ TerminalReceipt \/ Release \/ UndoSwap
           \/ UndoJournal
  BY <1>8, ReleaseRetentionDoes, DestroyProposalDoes, OwnerOfRun, TerminalReceiptDoes,
     ReleaseDoes, NobodyKnows, UndoSwapDoes, UndoJournalDoes, JournalsNext DEF Knows, OfRollbacks,
     Preparation, Comparison, Swapping, Projection, Moves, Becomes, HeadStays, Idle, JournalSet,
     LeftToAnAdministrator, Begins
<1>9. CASE CloseJournal \/ RevertVersion \/ AbortReceipt \/ Lock
  BY <1>9, CloseJournalDoes, RevertVersionDoes, AbortReceiptDoes, OwnerOfRun, LockDoes,
     NobodyKnows DEF Knows, OfRollbacks, Preparation, Comparison, Swapping, Projection, Moves,
     JournalSet, Becomes, HeadStays, Idle
<1>10. CASE Regenerate
  <2>1. op.id \notin Run
    BY <1>10, RegenerateDoes, OwnerOfRollback
  <2>2. op'.base # None
    <3>1. [ws EXCEPT !.p = db.cfg] \in Tree
      BY <1>10, RegenerateDoes DEF TypeOK, Rows, Tree
    <3>2. op'.base = [ws EXCEPT !.p = db.cfg]
      BY <1>10, RegenerateDoes
    <3> QED
      BY <3>1, <3>2, NoneAssumption
  <2> QED
    BY <1>10, <2>1, <2>2, RegenerateDoes, OwnerOfRollback, InRun DEF InRecovery, Knows, OfRollbacks, Preparation, Comparison, Swapping, Projection
<1>11. CASE Withdraw \/ ConfigureRow
  BY <1>11, WithdrawDoes, OwnerOfRollback, NobodyKnows, ConfigureRowDoes DEF Knows, OfRollbacks,
     Preparation, Comparison, Swapping, Projection, HeadStays, Idle
<1>12. CASE \E i \in Id : Examine(i)
  <2>1. PICK i \in Id : Examine(i)
    BY <1>12
  <2>2. \/ Begins(i, "terminal", "revert") /\ i \in Run
        \/ Begins(i, "retention", "revert")
        \/ Begins(i, "revert", "retention")
        \/ Begins(i, "dropBackup", "revert")
        \/ Begins(i, "undo", "revert")
        \/ op' = op
    BY <2>1, ExamineDoes
  <2>3. up' = "starting"
    BY <2>1, ExamineDoes, Recovers
  <2> QED
    BY <2>2, <2>3 DEF Knows, OfRollbacks, Preparation, Comparison, Swapping, Projection, Begins
<1>13. CASE Acknowledged \/ RolledBack
  BY <1>13, AcknowledgedDoes, JournalsNext, RolledBackDoes DEF Knows, OfRollbacks, Preparation,
     Comparison, Swapping, Projection, Begins
<1>14. CASE \E r \in Run : ScanReceipt(r)
  <2>1. PICK r \in Run : ScanReceipt(r)
    BY <1>14
  <2> QED
    BY <2>1, ScanReceiptDoes DEF Knows, OfRollbacks, Preparation, Comparison, Swapping, Projection
<1>15. CASE \E r \in Run : DisposeAtStartup(r)
  <2>1. PICK r \in Run : DisposeAtStartup(r)
    BY <1>15
  <2> QED
    BY <2>1, DisposeAtStartupDoes DEF Knows, OfRollbacks, Preparation, Comparison, Swapping, Projection, HeadStays
<1>16. CASE Reproject \/ Settle \/ Serve
  BY <1>16, ReprojectDoes, SettleDoes, ServeDoes, NobodyKnows DEF Knows, OfRollbacks, Preparation,
     Comparison, Swapping, Projection, Moves, Becomes, HeadStays, Idle
<1>17. CASE \E r \in Run : Submit(r)
  <2>1. PICK r \in Run : Submit(r)
    BY <1>17
  <2> QED
    BY <2>1, SubmitDoes, Someone DEF Knows, OfRollbacks, Preparation, Comparison, Swapping, Projection, Begins, HeadStays, Idle
<1>18. CASE \E x \in Rollback : StartRollback(x)
  <2>1. PICK x \in Rollback : StartRollback(x)
    BY <1>18
  <2>2. op'.tree # None
    <3>1. PICK k \in DOMAIN versions : op'.tree = [v |-> versions[k].v, p |-> db.cfg]
      BY <2>1, StartRollbackDoes
    <3> QED
      BY <3>1, VersionTyped, NoneAssumption DEF Tree, TypeOK, Rows
  <2> QED
    BY <2>1, <2>2, Someone, StartRollbackDoes DEF Knows, OfRollbacks, Preparation, Comparison, Swapping, Projection
<1>19. CASE Configure \/ StartAgent \/ Cancel
  BY <1>19, ConfigureDoes, StartAgentDoes, CancelDoes DEF Knows, OfRollbacks, Preparation,
     Comparison, Swapping, Projection, Begins, Idle, HeadStays, Becomes
<1>20. CASE Start \/ FaultAtStartup \/ Crash
  BY <1>20, StartDoes, JournalsNext, FaultAtStartupDoes, NobodyKnows, CrashDoes DEF Knows,
     OfRollbacks, Preparation, Comparison, Swapping, Projection, Begins, LeftToAnAdministrator,
     Idle
<1>21. CASE Drift
  BY <1>21, DriftDoes DEF Knows, OfRollbacks, Preparation, Comparison, Swapping, Projection
<1>22. CASE Fault
  <2>1. CASE FaultEarly
    BY <1>22, <2>1, FaultDoes, OwnerOfRun, Owner, Someone DEF FaultEarly, Becomes, Moves, Knows, OfRollbacks, Preparation, Comparison, Swapping, Projection
  <2>2. CASE FaultInSwap
    BY <1>22, <2>2, FaultDoes, Owner, Someone DEF FaultInSwap, Becomes, Moves, Knows, OfRollbacks, Preparation, Comparison, Swapping, Projection
  <2>3. CASE FaultLate
    BY <1>22, <2>3, FaultDoes, Owner, Someone DEF FaultLate, Becomes, Moves, Knows, OfRollbacks, Preparation, Comparison, Swapping, Projection
  <2> QED
    BY <1>22, <2>1, <2>2, <2>3, FaultDoes, NobodyKnows
<1> QED
  BY <1>1, <1>2, <1>3, <1>4, <1>5, <1>6, <1>7, <1>8, <1>9, <1>10, <1>11, <1>12, <1>13, <1>14,
     <1>15, <1>16, <1>17, <1>18, <1>19, <1>20, <1>21, <1>22 DEF Next, Request, Step, RunStep,
     TransitionStep, StartupStep

----------------------------------------------------------------------------
(* Whose operation it is. *)

LEMMA OwnerFitsKept ==
    ASSUME TypeOK, OpTypes, Knows, PcFits, StateFits, ReceiptsFit, Next
    PROVE  OwnerFits'
<1>1. CASE Bind \/ Prepare \/ PrepareConflict \/ RecordAdmissionFailure \/ RunAgent \/ AgentEnds
  BY <1>1, BindDoes, OwnerOfRun, PrepareDoes, PrepareConflictDoes, RecordAdmissionFailureDoes,
     RunAgentDoes, AgentEndsDoes DEF OwnerFits, OfRuns, OfRollbacks, OfNobody, Admission, Becomes,
     Moves
<1>2. CASE Seal \/ SealRefuses \/ Verify \/ Reject \/ RejectReceipt \/ Publish
  BY <1>2, SealDoes, OwnerOfRun, SealRefusesDoes, VerifyDoes, RejectDoes, RejectReceiptDoes,
     PublishDoes DEF OwnerFits, OfRuns, OfRollbacks, OfNobody, Admission, Moves, Becomes,
     HeadStays, Idle
<1>3. CASE Dispose \/ Issue \/ Claim \/ RecordPromotion \/ Stage \/ CompareBase
  BY <1>3, DisposeDoes, OwnerOfRun, IssueDoes, Owner, ClaimDoes, Someone, RecordPromotionDoes,
     StageDoes, CompareBaseDoes DEF OwnerFits, OfRuns, OfRollbacks, OfNobody, Admission, Idle,
     Moves, Becomes
<1>4. CASE CompareConflict \/ Consume \/ Promoting \/ Vacate \/ Fill \/ PendingDatabase
  BY <1>4, CompareConflictDoes, Owner, Someone, ConsumeDoes, PromotingDoes, VacateDoes, FillDoes,
     PendingDatabaseDoes DEF OwnerFits, OfRuns, OfRollbacks, OfNobody, Admission, Becomes, Moves,
     JournalSet
<1>5. CASE \/ RecordFinal \/ AppendVersion \/ Project \/ DropBackup \/ AcknowledgeJournal
           \/ ReleaseRetention
  BY <1>5, RecordFinalDoes, OwnerOfRun, AppendVersionDoes, Owner, ProjectDoes, DropBackupDoes,
     AcknowledgeJournalDoes, ReleaseRetentionDoes, Someone DEF OwnerFits, OfRuns, OfRollbacks,
     OfNobody, Admission, Becomes, Moves, JournalSet
<1>6. CASE DestroyProposal \/ TerminalReceipt \/ Release \/ UndoSwap
  BY <1>6, DestroyProposalDoes, OwnerOfRun, TerminalReceiptDoes, ReleaseDoes, Owner, UndoSwapDoes DEF
     OwnerFits, OfRuns, OfRollbacks, OfNobody, Admission, Moves, Becomes, HeadStays, Idle
<1>7. CASE UndoJournal
  <2>1. /\ op.id \in Id /\ op.id # None /\ op.pc = "undo"
        /\ op.then \in {"reject", "withdraw", "revert"}
        /\ op.then = "reject" => op.id \in Run
        /\ op.then = "withdraw" => op.id \in Rollback
    BY <1>7, UndoJournalDoes, Owner DEF Knows
  <2>2. \/ Moves(op.then)
        \/ Moves("lock")
        \/ Begins(None, "journals", None)
    BY <1>7, UndoJournalDoes DEF LeftToAnAdministrator
  <2> QED
    BY <2>1, <2>2 DEF OwnerFits, OfRuns, OfRollbacks, OfNobody, Admission, Moves, Becomes, Begins
<1>8. CASE CloseJournal
  <2>1. /\ op.id \in Id /\ op.id # None /\ op.pc = "close"
        /\ op.then \in {"reject", "withdraw"}
        /\ op.then = "reject" => op.id \in Run
        /\ op.then = "withdraw" => op.id \in Rollback
    BY <1>8, CloseJournalDoes, Owner DEF Knows
  <2> QED
    BY <1>8, <2>1, CloseJournalDoes DEF OwnerFits, OfRuns, OfRollbacks, OfNobody, Admission, Moves, Becomes
<1>9. CASE RevertVersion
  BY <1>9, RevertVersionDoes, Owner, Someone DEF OwnerFits, OfRuns, OfRollbacks, OfNobody,
     Admission, Moves, Becomes
<1>10. CASE AbortReceipt
  BY <1>10, AbortReceiptDoes, OwnerOfRun DEF OwnerFits, OfRuns, OfRollbacks, OfNobody, Admission,
     Becomes, Moves
<1>11. CASE Lock
  BY <1>11, LockDoes, Owner DEF OwnerFits, OfRuns, OfRollbacks, OfNobody, Admission, HeadStays,
     Idle
<1>12. CASE Regenerate \/ Withdraw \/ ConfigureRow
  BY <1>12, RegenerateDoes, OwnerOfRollback, WithdrawDoes, ConfigureRowDoes DEF OwnerFits, OfRuns,
     OfRollbacks, OfNobody, Admission, HeadStays, Idle
<1>13. CASE \E i \in Id : Examine(i)
  <2>1. PICK i \in Id : Examine(i)
    BY <1>13
  <2>2. \/ Begins(i, "terminal", "revert") /\ i \in Run
        \/ Begins(i, "retention", "revert")
        \/ Begins(i, "revert", "retention")
        \/ Begins(i, "dropBackup", "revert")
        \/ Begins(i, "undo", "revert")
        \/ op' = op
    BY <2>1, ExamineDoes
  <2> QED
    BY <2>2, Someone DEF OwnerFits, OfRuns, OfRollbacks, OfNobody, Admission, PcFits, Begins
<1>14. CASE Acknowledged \/ RolledBack
  BY <1>14, AcknowledgedDoes, RolledBackDoes DEF OwnerFits, OfRuns, OfRollbacks, OfNobody,
     Admission, Begins
<1>15. CASE \E r \in Run : ScanReceipt(r)
  <2>1. PICK r \in Run : ScanReceipt(r)
    BY <1>15
  <2> QED
    BY <2>1, ScanReceiptDoes DEF OwnerFits, OfRuns, OfRollbacks, OfNobody, Admission, PcFits
<1>16. CASE \E r \in Run : DisposeAtStartup(r)
  <2>1. PICK r \in Run : DisposeAtStartup(r)
    BY <1>16
  <2> QED
    BY <2>1, DisposeAtStartupDoes DEF OwnerFits, OfRuns, OfRollbacks, OfNobody, Admission, HeadStays, PcFits
<1>17. CASE Reproject \/ Settle \/ Serve
  BY <1>17, ReprojectDoes, SettleDoes, ServeDoes DEF OwnerFits, OfRuns, OfRollbacks, OfNobody,
     Admission, Moves, Becomes, PcFits, HeadStays, Idle
<1>18. CASE \E r \in Run : Submit(r)
  <2>1. PICK r \in Run : Submit(r)
    BY <1>18
  <2> QED
    BY <2>1, SubmitDoes, Someone DEF OwnerFits, OfRuns, OfRollbacks, OfNobody, Admission, Begins, HeadStays, Idle
<1>19. CASE \E x \in Rollback : StartRollback(x)
  <2>1. PICK x \in Rollback : StartRollback(x)
    BY <1>19
  <2> QED
    BY <2>1, StartRollbackDoes, Someone DEF OwnerFits, OfRuns, OfRollbacks, OfNobody, Admission, HeadStays, Idle
<1>20. CASE Configure \/ StartAgent
  BY <1>20, ConfigureDoes, StartAgentDoes DEF OwnerFits, OfRuns, OfRollbacks, OfNobody, Admission,
     Begins, Idle, HeadStays, PcFits
<1>21. CASE Cancel
  <2>1. op'.id = op.id /\ op'.pc = op.pc
    BY <1>21, CancelDoes DEF Becomes
  <2> QED
    BY <2>1 DEF OwnerFits, OfRuns, OfRollbacks, OfNobody, Admission, PcFits
<1>22. CASE Start
  BY <1>22, StartDoes DEF OwnerFits, OfRuns, OfRollbacks, OfNobody, Admission, Begins
<1>23. CASE FaultAtStartup
  BY <1>23, FaultAtStartupDoes DEF OwnerFits, OfRuns, OfRollbacks, OfNobody, Admission,
     LeftToAnAdministrator, Begins, Idle
<1>24. CASE Crash \/ Drift
  BY <1>24, CrashDoes, DriftDoes DEF OwnerFits, OfRuns, OfRollbacks, OfNobody, Admission, Idle,
     PcFits
<1>25. CASE Fault
  <2>1. CASE FaultEarly
    BY <1>25, <2>1, FaultDoes, OwnerOfRun, Owner, Someone DEF FaultEarly, Becomes, Moves, OwnerFits, OfRuns, OfRollbacks, OfNobody, Admission
  <2>2. CASE FaultInSwap
    <3>1. op.id \in Id /\ op.id # None
      BY <2>2, Owner DEF FaultInSwap
    <3>2. op.pc = "close" =>
            /\ op.then \in {"reject", "withdraw"}
            /\ op.then = "reject" => op.id \in Run
            /\ op.then = "withdraw" => op.id \in Rollback
      BY DEF Knows
    <3> QED
      BY <2>2, <3>1, <3>2 DEF FaultInSwap, Becomes, Moves, OwnerFits, OfRuns, OfRollbacks, OfNobody, Admission
  <2>3. CASE FaultLate
    BY <1>25, <2>3, FaultDoes, OwnerOfRun, Owner DEF FaultLate, Becomes, Moves, OwnerFits, OfRuns, OfRollbacks, OfNobody, Admission
  <2>4. CASE op' = Idle
    BY <2>4 DEF Idle, OwnerFits, OfRuns, OfRollbacks, OfNobody, Admission
  <2> QED
    BY <1>25, <2>1, <2>2, <2>3, <2>4, FaultDoes
<1> QED
  BY <1>1, <1>2, <1>3, <1>4, <1>5, <1>6, <1>7, <1>8, <1>9, <1>10, <1>11, <1>12, <1>13, <1>14,
     <1>15, <1>16, <1>17, <1>18, <1>19, <1>20, <1>21, <1>22, <1>23, <1>24, <1>25 DEF Next,
     Request, Step, RunStep, TransitionStep, StartupStep

LEMMA RestFitsKept ==
    ASSUME TypeOK, OpTypes, Knows, PcFits, StateFits, ReceiptsFit, Next
    PROVE  RestFits'
<1>1. CASE Bind \/ Prepare \/ PrepareConflict \/ RecordAdmissionFailure \/ RunAgent \/ AgentEnds
  BY <1>1, BindDoes, Alive, PrepareDoes, PrepareConflictDoes, RecordAdmissionFailureDoes,
     RunAgentDoes, AgentEndsDoes DEF RestFits, Becomes, Moves
<1>2. CASE Seal \/ SealRefuses \/ Verify \/ Reject \/ RejectReceipt \/ Publish
  BY <1>2, SealDoes, Alive, SealRefusesDoes, VerifyDoes, RejectDoes, RejectReceiptDoes,
     PublishDoes DEF RestFits, Moves, Becomes, HeadStays, Idle
<1>3. CASE Dispose \/ Issue \/ Claim \/ RecordPromotion \/ Stage \/ CompareBase
  BY <1>3, DisposeDoes, Alive, IssueDoes, ClaimDoes, RecordPromotionDoes, StageDoes,
     CompareBaseDoes DEF RestFits, Idle, Moves, Becomes
<1>4. CASE CompareConflict \/ Consume \/ Promoting \/ Vacate \/ Fill \/ PendingDatabase
  BY <1>4, CompareConflictDoes, Alive, ConsumeDoes, PromotingDoes, VacateDoes, FillDoes,
     PendingDatabaseDoes DEF RestFits, Becomes, Moves, JournalSet
<1>5. CASE \/ RecordFinal \/ AppendVersion \/ Project \/ DropBackup \/ AcknowledgeJournal
           \/ ReleaseRetention
  BY <1>5, RecordFinalDoes, Alive, AppendVersionDoes, ProjectDoes, DropBackupDoes,
     AcknowledgeJournalDoes, ReleaseRetentionDoes DEF RestFits, Becomes, Moves, JournalSet
<1>6. CASE DestroyProposal \/ TerminalReceipt \/ Release \/ UndoSwap
  BY <1>6, DestroyProposalDoes, Alive, TerminalReceiptDoes, ReleaseDoes, UndoSwapDoes DEF
     RestFits, Moves, Becomes, HeadStays, Idle
<1>7. CASE UndoJournal
  <2>1. op.then # "idle"
    BY <1>7, UndoJournalDoes DEF Knows
  <2>2. op'.pc # "idle"
    BY <1>7, <2>1, UndoJournalDoes DEF Moves, Becomes, LeftToAnAdministrator, Begins
  <2> QED
    BY <1>7, <2>2, Alive, UndoJournalDoes DEF RestFits
<1>8. CASE CloseJournal
  <2>1. op.then # "idle"
    BY <1>8, CloseJournalDoes DEF Knows
  <2> QED
    BY <1>8, <2>1, Alive, CloseJournalDoes DEF RestFits, Moves, Becomes
<1>9. CASE RevertVersion \/ AbortReceipt \/ Lock \/ Regenerate \/ Withdraw \/ ConfigureRow
  BY <1>9, RevertVersionDoes, Alive, AbortReceiptDoes, LockDoes, RegenerateDoes, WithdrawDoes,
     ConfigureRowDoes DEF RestFits, Moves, Becomes, HeadStays, Idle
<1>10. CASE \E i \in Id : Examine(i)
  <2>1. PICK i \in Id : Examine(i)
    BY <1>10
  <2> QED
    BY <2>1, ExamineDoes, Alive DEF RestFits, Begins, JournalSet, PcFits
<1>11. CASE Acknowledged \/ RolledBack
  BY <1>11, AcknowledgedDoes, Alive, RolledBackDoes DEF RestFits, Begins
<1>12. CASE \E r \in Run : ScanReceipt(r)
  <2>1. PICK r \in Run : ScanReceipt(r)
    BY <1>12
  <2> QED
    BY <2>1, ScanReceiptDoes, Alive DEF RestFits, PcFits
<1>13. CASE \E r \in Run : DisposeAtStartup(r)
  <2>1. PICK r \in Run : DisposeAtStartup(r)
    BY <1>13
  <2> QED
    BY <2>1, DisposeAtStartupDoes, Alive DEF RestFits, HeadStays, PcFits
<1>14. CASE Reproject \/ Settle \/ Serve
  BY <1>14, ReprojectDoes, Alive, SettleDoes, ServeDoes DEF RestFits, Moves, Becomes, HeadStays,
     Idle
<1>15. CASE \E r \in Run : Submit(r)
  <2>1. PICK r \in Run : Submit(r)
    BY <1>15
  <2> QED
    BY <2>1, SubmitDoes, Alive DEF RestFits, Begins, HeadStays, Idle
<1>16. CASE \E x \in Rollback : StartRollback(x)
  <2>1. PICK x \in Rollback : StartRollback(x)
    BY <1>16
  <2> QED
    BY <2>1, StartRollbackDoes, Alive DEF RestFits, HeadStays, Idle
<1>17. CASE Configure \/ StartAgent
  BY <1>17, ConfigureDoes, Alive, StartAgentDoes DEF RestFits, Begins, Idle, HeadStays, PcFits
<1>18. CASE Cancel
  <2>1. op.pc # "idle" /\ up' # "down" /\ op'.pc = op.pc
    BY <1>18, CancelDoes DEF Becomes
  <2> QED
    BY <2>1 DEF RestFits
<1>19. CASE Start \/ FaultAtStartup \/ Crash \/ Drift
  BY <1>19, StartDoes, Alive, FaultAtStartupDoes, CrashDoes, DriftDoes DEF RestFits, Begins,
     LeftToAnAdministrator, Idle, PcFits
<1>20. CASE Fault
  <2>1. up' # "down"
    BY <1>20, FaultDoes
  <2>2. CASE op.pc = "close"
    <3>1. op.then # "idle"
      BY <2>2 DEF Knows
    <3> QED
      BY <1>20, <2>1, <2>2, <3>1, FaultDoes DEF FaultEarly, FaultInSwap, FaultLate, Moves, Becomes, RestFits
  <2>3. CASE op.pc # "close"
    BY <1>20, <2>1, <2>3, FaultDoes DEF FaultEarly, FaultInSwap, FaultLate, Moves, Becomes, RestFits
  <2> QED
    BY <2>2, <2>3
<1> QED
  BY <1>1, <1>2, <1>3, <1>4, <1>5, <1>6, <1>7, <1>8, <1>9, <1>10, <1>11, <1>12, <1>13, <1>14,
     <1>15, <1>16, <1>17, <1>18, <1>19, <1>20 DEF Next, Request, Step, RunStep, TransitionStep,
     StartupStep

----------------------------------------------------------------------------
(* In which process, and what recovery has left to do. *)

LEMMA ProcessFitsKept ==
    ASSUME TypeOK, OpTypes, Knows, PcFits, StateFits, ReceiptsFit, Next
    PROVE  ProcessFits'
<1>1. CASE Bind \/ Prepare \/ PrepareConflict \/ RecordAdmissionFailure \/ RunAgent \/ AgentEnds
  BY <1>1, BindDoes, PrepareDoes, PrepareConflictDoes, RecordAdmissionFailureDoes, RunAgentDoes,
     AgentEndsDoes DEF PcFits, ProcessFits, InRecovery, NoReport, Becomes, Moves
<1>2. CASE Seal \/ SealRefuses \/ Verify \/ Reject \/ RejectReceipt
  BY <1>2, SealDoes, SealRefusesDoes, VerifyDoes, RejectDoes, RejectReceiptDoes DEF PcFits,
     ProcessFits, InRecovery, NoReport, Moves, Becomes
<1>3. CASE Publish
  <2>1. op' = Idle \/ (op'.pc = "dispose" /\ db'.locked = db.locked /\ reserved' = reserved)
    BY <1>3, PublishDoes DEF Moves, Becomes, TypeOK, Rows
  <2> QED
    BY <1>3, <2>1, PublishDoes DEF PcFits, ProcessFits, Idle
<1>4. CASE Dispose \/ Issue \/ Claim \/ RecordPromotion \/ Stage \/ CompareBase
  BY <1>4, DisposeDoes, IssueDoes, ClaimDoes, RecordPromotionDoes, StageDoes, CompareBaseDoes DEF
     PcFits, ProcessFits, InRecovery, NoReport, Idle, Moves, Becomes
<1>5. CASE CompareConflict \/ Consume \/ Promoting \/ Vacate \/ Fill \/ PendingDatabase
  BY <1>5, CompareConflictDoes, ConsumeDoes, PromotingDoes, VacateDoes, FillDoes,
     PendingDatabaseDoes DEF PcFits, ProcessFits, InRecovery, NoReport, Becomes, Moves, JournalSet
<1>6. CASE \/ RecordFinal \/ AppendVersion \/ Project \/ DropBackup \/ AcknowledgeJournal
           \/ ReleaseRetention
  BY <1>6, RecordFinalDoes, AppendVersionDoes, ProjectDoes, DropBackupDoes,
     AcknowledgeJournalDoes, ReleaseRetentionDoes DEF PcFits, ProcessFits, InRecovery, NoReport,
     Becomes, Moves, JournalSet
<1>7. CASE DestroyProposal \/ TerminalReceipt \/ Release \/ UndoSwap
  BY <1>7, DestroyProposalDoes, TerminalReceiptDoes, ReleaseDoes, UndoSwapDoes DEF PcFits,
     ProcessFits, InRecovery, NoReport, Moves, Becomes, HeadStays, Idle
<1>8. CASE UndoJournal
  <2>1. CASE up = "starting"
    <3>1. Moves(op.then) => op'.pc = "revert"
      BY <1>8, <2>1, UndoJournalDoes DEF Moves, Becomes, Knows, PcFits, RecoveryFits
    <3> QED
      BY <1>8, <2>1, <3>1, UndoJournalDoes DEF PcFits, ProcessFits, InRecovery, LeftToAnAdministrator, Begins
  <2>2. CASE up # "starting"
    <3>1. op'.pc \in {"reject", "withdraw", "revert", "lock"}
      BY <1>8, <2>2, UndoJournalDoes DEF Moves, Becomes, Knows
    <3> QED
      BY <1>8, <2>2, <3>1, UndoJournalDoes DEF PcFits, ProcessFits
  <2> QED
    BY <2>1, <2>2
<1>9. CASE CloseJournal
  <2>1. op'.pc \in {"reject", "withdraw"} /\ up # "starting" /\ op.pc # "idle"
    BY <1>9, CloseJournalDoes DEF Moves, Becomes, Knows, PcFits, ProcessFits, InRecovery
  <2> QED
    BY <1>9, <2>1, CloseJournalDoes DEF PcFits, ProcessFits
<1>10. CASE RevertVersion \/ AbortReceipt
  BY <1>10, RevertVersionDoes, AbortReceiptDoes DEF PcFits, ProcessFits, InRecovery, NoReport,
     Moves, Becomes
<1>11. CASE Lock
  <2>1. op' = Idle /\ up' = up /\ startup' = startup /\ op.pc = "lock"
    BY <1>11, LockDoes
  <2>2. up = "up"
    BY <2>1, InRun DEF InRecovery
  <2> QED
    BY <2>1, <2>2 DEF PcFits, ProcessFits, Idle
<1>12. CASE Regenerate \/ Withdraw \/ ConfigureRow
  BY <1>12, RegenerateDoes, WithdrawDoes, ConfigureRowDoes DEF PcFits, ProcessFits, InRecovery,
     NoReport, HeadStays, Idle
<1>13. CASE \E i \in Id : Examine(i)
  <2>1. PICK i \in Id : Examine(i)
    BY <1>13
  <2> QED
    BY <2>1, ExamineDoes DEF PcFits, ProcessFits, InRecovery, NoReport, Begins, JournalSet
<1>14. CASE Acknowledged \/ RolledBack
  BY <1>14, AcknowledgedDoes, RolledBackDoes DEF PcFits, ProcessFits, InRecovery, NoReport, Begins
<1>15. CASE \E r \in Run : ScanReceipt(r)
  <2>1. PICK r \in Run : ScanReceipt(r)
    BY <1>15
  <2> QED
    BY <2>1, ScanReceiptDoes, Recovers DEF PcFits, ProcessFits, InRecovery, NoReport
<1>16. CASE \E r \in Run : DisposeAtStartup(r)
  <2>1. PICK r \in Run : DisposeAtStartup(r)
    BY <1>16
  <2> QED
    BY <2>1, DisposeAtStartupDoes, Recovers DEF PcFits, ProcessFits, InRecovery, NoReport, HeadStays
<1>17. CASE Reproject \/ Settle \/ Serve
  BY <1>17, ReprojectDoes, Recovers, SettleDoes, ServeDoes DEF PcFits, ProcessFits, InRecovery,
     NoReport, Moves, Becomes, HeadStays, Idle
<1>18. CASE \E r \in Run : Submit(r)
  <2>1. PICK r \in Run : Submit(r)
    BY <1>18
  <2> QED
    BY <2>1, SubmitDoes DEF PcFits, ProcessFits, InRecovery, NoReport, Begins, HeadStays, Idle
<1>19. CASE \E x \in Rollback : StartRollback(x)
  <2>1. PICK x \in Rollback : StartRollback(x)
    BY <1>19
  <2> QED
    BY <2>1, StartRollbackDoes DEF PcFits, ProcessFits, InRecovery, NoReport, HeadStays, Idle
<1>20. CASE Configure \/ StartAgent \/ Cancel
  BY <1>20, ConfigureDoes, StartAgentDoes, CancelDoes DEF PcFits, ProcessFits, InRecovery,
     NoReport, Begins, Idle, HeadStays, Becomes
<1>21. CASE Start \/ FaultAtStartup \/ Crash
  BY <1>21, StartDoes, FaultAtStartupDoes, CrashDoes DEF PcFits, ProcessFits, InRecovery,
     NoReport, Begins, LeftToAnAdministrator, Idle
<1>22. CASE Drift
  BY <1>22, DriftDoes DEF PcFits, ProcessFits, InRecovery, NoReport
<1>23. CASE Fault
  <2>1. op.pc # "idle"
    BY <1>23, FaultDoes DEF FaultEarly, FaultInSwap, FaultLate
  <2>2. op' = Idle \/ (reserved' = reserved /\ op'.pc \notin {"journals", "settle", "dispositions", "rolled"})
    <3>1. CASE op.pc = "close"
      BY <1>23, <3>1, FaultDoes DEF FaultEarly, FaultInSwap, FaultLate, Moves, Becomes, Knows, TypeOK
    <3>2. CASE op.pc # "close"
      BY <1>23, <3>2, FaultDoes DEF FaultEarly, FaultInSwap, FaultLate, Moves, Becomes, TypeOK
    <3> QED
      BY <3>1, <3>2
  <2>3. Idle.pc = "idle"
    BY DEF Idle
  <2> QED
    BY <1>23, <2>1, <2>2, <2>3, FaultDoes DEF PcFits, ProcessFits
<1> QED
  BY <1>1, <1>2, <1>3, <1>4, <1>5, <1>6, <1>7, <1>8, <1>9, <1>10, <1>11, <1>12, <1>13, <1>14,
     <1>15, <1>16, <1>17, <1>18, <1>19, <1>20, <1>21, <1>22, <1>23 DEF Next, Request, Step,
     RunStep, TransitionStep, StartupStep

LEMMA TodoFitsKept ==
    ASSUME TypeOK, OpTypes, Knows, PcFits, StateFits, ReceiptsFit, Next
    PROVE  TodoFits'
<1>1. CASE Bind \/ Prepare \/ PrepareConflict \/ RecordAdmissionFailure \/ RunAgent \/ AgentEnds
  BY <1>1, BindDoes, OwnerOfRun, Someone, InRun, PrepareDoes, PrepareConflictDoes,
     RecordAdmissionFailureDoes, RunAgentDoes, AgentEndsDoes DEF PcFits, TodoFits, Becomes, Moves
<1>2. CASE Seal \/ SealRefuses \/ Verify \/ Reject \/ RejectReceipt \/ Publish
  BY <1>2, SealDoes, OwnerOfRun, Someone, InRun, SealRefusesDoes, VerifyDoes, RejectDoes,
     RejectReceiptDoes, PublishDoes DEF PcFits, TodoFits, Moves, Becomes, HeadStays, Idle
<1>3. CASE Dispose \/ Issue \/ Claim \/ RecordPromotion \/ Stage \/ CompareBase
  BY <1>3, DisposeDoes, OwnerOfRun, Someone, InRun, IssueDoes, Owner, ClaimDoes,
     RecordPromotionDoes, StageDoes, CompareBaseDoes DEF PcFits, TodoFits, Idle, Moves, Becomes
<1>4. CASE CompareConflict \/ Consume \/ Promoting \/ Vacate \/ Fill \/ PendingDatabase
  BY <1>4, CompareConflictDoes, Owner, Someone, InRun, ConsumeDoes, PromotingDoes, VacateDoes,
     FillDoes, PendingDatabaseDoes DEF PcFits, TodoFits, Becomes, Moves, JournalSet
<1>5. CASE \/ RecordFinal \/ AppendVersion \/ Project \/ DropBackup \/ AcknowledgeJournal
           \/ ReleaseRetention
  BY <1>5, RecordFinalDoes, OwnerOfRun, Someone, InRun, AppendVersionDoes, Owner, ProjectDoes,
     DropBackupDoes, AcknowledgeJournalDoes, ReleaseRetentionDoes DEF PcFits, TodoFits, Becomes,
     Moves, JournalSet
<1>6. CASE DestroyProposal \/ TerminalReceipt \/ Release \/ UndoSwap
  BY <1>6, DestroyProposalDoes, OwnerOfRun, Someone, InRun, TerminalReceiptDoes, ReleaseDoes,
     Owner, UndoSwapDoes DEF PcFits, TodoFits, Moves, Becomes, HeadStays, Idle
<1>7. CASE UndoJournal
  <2>1. op.then # "settle" /\ op.id # None /\ op.id \in Id
    BY <1>7, UndoJournalDoes, Owner DEF Knows
  <2> QED
    BY <1>7, <2>1, UndoJournalDoes DEF PcFits, TodoFits, Moves, Becomes, LeftToAnAdministrator, Begins
<1>8. CASE CloseJournal
  <2>1. op'.pc \in {"reject", "withdraw"} /\ up # "starting" /\ op.pc # "idle"
    BY <1>8, CloseJournalDoes DEF Moves, Becomes, Knows, PcFits, ProcessFits, InRecovery
  <2> QED
    BY <1>8, <2>1, CloseJournalDoes DEF TodoFits
<1>9. CASE RevertVersion \/ AbortReceipt
  BY <1>9, RevertVersionDoes, Owner, Someone, InRun, AbortReceiptDoes, OwnerOfRun DEF PcFits,
     TodoFits, Moves, Becomes
<1>10. CASE Lock
  <2>1. op'.id = None /\ op'.pc = "idle"
    BY <1>10, LockDoes DEF Idle
  <2> QED
    BY <2>1 DEF TodoFits
<1>11. CASE Regenerate \/ Withdraw \/ ConfigureRow
  BY <1>11, RegenerateDoes, OwnerOfRollback, Someone, InRun, WithdrawDoes, ConfigureRowDoes DEF
     PcFits, TodoFits, HeadStays, Idle
<1>12. CASE \E i \in Id : Examine(i)
  <2>1. PICK i \in Id : Examine(i)
    BY <1>12
  <2>2. \/ op' = op
        \/ startup' = startup /\ op'.id = i /\ op'.pc # "settle"
    BY <2>1, ExamineDoes DEF Begins
  <2>3. op.id = None /\ op.pc = "journals" /\ i \in startup.todo
    BY <2>1, ExamineDoes, OwnerOfNobody
  <2> QED
    BY <2>2, <2>3 DEF TodoFits
<1>13. CASE Acknowledged \/ RolledBack
  BY <1>13, AcknowledgedDoes, RolledBackDoes DEF PcFits, TodoFits, Begins
<1>14. CASE \E r \in Run : ScanReceipt(r)
  <2>1. PICK r \in Run : ScanReceipt(r)
    BY <1>14
  <2> QED
    BY <2>1, ScanReceiptDoes DEF PcFits, TodoFits
<1>15. CASE \E r \in Run : DisposeAtStartup(r)
  <2>1. op.id = None /\ op' = op /\ op.pc = "dispositions"
    BY <1>15, DisposeAtStartupDoes, OwnerOfNobody
  <2> QED
    BY <2>1 DEF TodoFits
<1>16. CASE Reproject \/ Settle \/ Serve
  BY <1>16, ReprojectDoes, SettleDoes, ServeDoes DEF PcFits, TodoFits, Moves, Becomes, HeadStays,
     Idle
<1>17. CASE \E r \in Run : Submit(r)
  <2>1. PICK r \in Run : Submit(r)
    BY <1>17
  <2> QED
    BY <2>1, SubmitDoes DEF PcFits, TodoFits, Begins, HeadStays, Idle
<1>18. CASE \E x \in Rollback : StartRollback(x)
  <2>1. PICK x \in Rollback : StartRollback(x)
    BY <1>18
  <2> QED
    BY <2>1, StartRollbackDoes DEF PcFits, TodoFits, HeadStays, Idle
<1>19. CASE Configure \/ StartAgent \/ Cancel
  BY <1>19, ConfigureDoes, StartAgentDoes, CancelDoes DEF PcFits, TodoFits, Begins, Idle,
     HeadStays, Becomes
<1>20. CASE Start
  BY <1>20, StartDoes DEF PcFits, TodoFits, Begins
<1>21. CASE FaultAtStartup \/ Crash
  BY <1>21, FaultAtStartupDoes, CrashDoes DEF PcFits, TodoFits, LeftToAnAdministrator, Begins,
     Idle
<1>22. CASE Drift
  BY <1>22, DriftDoes DEF PcFits, TodoFits
<1>23. CASE Fault
  <2>1. up' = "up"
    BY <1>23, FaultDoes
  <2>2. op'.pc # "settle"
    <3>1. CASE op.pc = "close"
      BY <1>23, <3>1, FaultDoes DEF FaultEarly, FaultInSwap, FaultLate, Moves, Becomes, Knows, Idle
    <3>2. CASE op.pc # "close"
      BY <1>23, <3>2, FaultDoes DEF FaultEarly, FaultInSwap, FaultLate, Moves, Becomes, Idle
    <3> QED
      BY <3>1, <3>2
  <2> QED
    BY <2>1, <2>2 DEF TodoFits
<1> QED
  BY <1>1, <1>2, <1>3, <1>4, <1>5, <1>6, <1>7, <1>8, <1>9, <1>10, <1>11, <1>12, <1>13, <1>14,
     <1>15, <1>16, <1>17, <1>18, <1>19, <1>20, <1>21, <1>22, <1>23 DEF Next, Request, Step,
     RunStep, TransitionStep, StartupStep

LEMMA RecoveryFitsKept ==
    ASSUME TypeOK, OpTypes, Knows, PcFits, StateFits, ReceiptsFit, Next
    PROVE  RecoveryFits'
<1>1. CASE Bind \/ Prepare \/ PrepareConflict \/ RecordAdmissionFailure \/ RunAgent \/ AgentEnds
  BY <1>1, BindDoes, PrepareDoes, PrepareConflictDoes, RecordAdmissionFailureDoes, RunAgentDoes,
     AgentEndsDoes DEF PcFits, RecoveryFits, Becomes, Moves
<1>2. CASE Seal \/ SealRefuses \/ Verify \/ Reject \/ RejectReceipt \/ Publish
  BY <1>2, SealDoes, SealRefusesDoes, VerifyDoes, RejectDoes, RejectReceiptDoes, PublishDoes DEF
     PcFits, RecoveryFits, Moves, Becomes, HeadStays, Idle
<1>3. CASE Dispose \/ Issue \/ Claim \/ RecordPromotion \/ Stage \/ CompareBase
  BY <1>3, DisposeDoes, IssueDoes, ClaimDoes, RecordPromotionDoes, StageDoes, CompareBaseDoes DEF
     PcFits, RecoveryFits, Idle, Moves, Becomes
<1>4. CASE CompareConflict \/ Consume \/ Promoting \/ Vacate \/ Fill \/ PendingDatabase
  BY <1>4, CompareConflictDoes, ConsumeDoes, PromotingDoes, VacateDoes, FillDoes,
     PendingDatabaseDoes DEF PcFits, RecoveryFits, Becomes, Moves, JournalSet
<1>5. CASE \/ RecordFinal \/ AppendVersion \/ Project \/ DropBackup \/ AcknowledgeJournal
           \/ ReleaseRetention
  BY <1>5, RecordFinalDoes, AppendVersionDoes, ProjectDoes, DropBackupDoes,
     AcknowledgeJournalDoes, ReleaseRetentionDoes DEF PcFits, RecoveryFits, Becomes, Moves,
     JournalSet
<1>6. CASE DestroyProposal \/ TerminalReceipt \/ Release \/ UndoSwap \/ UndoJournal
  BY <1>6, DestroyProposalDoes, TerminalReceiptDoes, ReleaseDoes, UndoSwapDoes, UndoJournalDoes DEF
     PcFits, RecoveryFits, Moves, Becomes, HeadStays, Idle, JournalSet, LeftToAnAdministrator,
     Begins
<1>7. CASE CloseJournal
  <2>1. op'.pc # "undo"
    BY <1>7, CloseJournalDoes DEF Moves, Becomes, Knows
  <2> QED
    BY <2>1 DEF RecoveryFits
<1>8. CASE RevertVersion \/ AbortReceipt
  BY <1>8, RevertVersionDoes, AbortReceiptDoes DEF PcFits, RecoveryFits, Moves, Becomes
<1>9. CASE Lock
  <2>1. op'.pc = "idle"
    BY <1>9, LockDoes DEF Idle
  <2> QED
    BY <2>1 DEF RecoveryFits
<1>10. CASE Regenerate \/ Withdraw \/ ConfigureRow
  BY <1>10, RegenerateDoes, WithdrawDoes, ConfigureRowDoes DEF PcFits, RecoveryFits, HeadStays,
     Idle
<1>11. CASE \E i \in Id : Examine(i)
  <2>1. PICK i \in Id : Examine(i)
    BY <1>11
  <2> QED
    BY <2>1, ExamineDoes DEF PcFits, RecoveryFits, Begins, JournalSet
<1>12. CASE Acknowledged \/ RolledBack
  BY <1>12, AcknowledgedDoes, RolledBackDoes DEF PcFits, RecoveryFits, Begins
<1>13. CASE \E r \in Run : ScanReceipt(r)
  <2>1. PICK r \in Run : ScanReceipt(r)
    BY <1>13
  <2> QED
    BY <2>1, ScanReceiptDoes DEF PcFits, RecoveryFits
<1>14. CASE \E r \in Run : DisposeAtStartup(r)
  <2>1. PICK r \in Run : DisposeAtStartup(r)
    BY <1>14
  <2> QED
    BY <2>1, DisposeAtStartupDoes DEF PcFits, RecoveryFits, HeadStays
<1>15. CASE Reproject \/ Settle \/ Serve
  BY <1>15, ReprojectDoes, SettleDoes, ServeDoes DEF PcFits, RecoveryFits, Moves, Becomes,
     HeadStays, Idle
<1>16. CASE \E r \in Run : Submit(r)
  <2>1. PICK r \in Run : Submit(r)
    BY <1>16
  <2> QED
    BY <2>1, SubmitDoes DEF PcFits, RecoveryFits, Begins, HeadStays, Idle
<1>17. CASE \E x \in Rollback : StartRollback(x)
  <2>1. PICK x \in Rollback : StartRollback(x)
    BY <1>17
  <2> QED
    BY <2>1, StartRollbackDoes DEF PcFits, RecoveryFits, HeadStays, Idle
<1>18. CASE Configure \/ StartAgent \/ Cancel \/ Start \/ FaultAtStartup \/ Crash
  BY <1>18, ConfigureDoes, StartAgentDoes, CancelDoes, StartDoes, FaultAtStartupDoes, CrashDoes DEF
     PcFits, RecoveryFits, Begins, Idle, HeadStays, Becomes, LeftToAnAdministrator
<1>19. CASE Drift \/ Fault
  BY <1>19, DriftDoes, FaultDoes DEF PcFits, RecoveryFits, Becomes, Moves, Idle, FaultEarly,
     FaultInSwap, FaultLate
<1> QED
  BY <1>1, <1>2, <1>3, <1>4, <1>5, <1>6, <1>7, <1>8, <1>9, <1>10, <1>11, <1>12, <1>13, <1>14,
     <1>15, <1>16, <1>17, <1>18, <1>19 DEF Next, Request, Step, RunStep, TransitionStep,
     StartupStep

----------------------------------------------------------------------------
(* The journal's state at each step. *)

LEMMA SameStates ==
    journal' = journal => \A i : State(i)' = State(i)
  BY DEF State

LEMMA OtherStates ==
    ASSUME NEW i \in Id, NEW state, JournalSet(i, state)
    PROVE  \A j \in Id : State(j)' = IF j = i THEN state ELSE State(j)
  BY DEF JournalSet, State

LEMMA Unstarted ==
    ASSUME TypeOK, PermitFits, PublishedFits
    PROVE  /\ \A i \in Id : permit[i] = "NONE" => State(i) = "NONE"
           /\ \A r \in Run : published[r] = "none" => State(r) = "NONE"
  BY DEF PermitFits, PublishedFits, Unpublished, State, Id

LEMMA Staged ==
    ASSUME TypeOK, OpTypes, Knows, PcFits, StateFits, Stage
    PROVE  /\ op.id \in Id /\ op.base \in Tree /\ op.tree \in Tree
           /\ journal' \in [Id -> Journals \cup {None}]
           /\ journal'[op.id] # None
           /\ journal'[op.id].base = op.base /\ journal'[op.id].target = op.tree
           /\ \A j \in Id : State(j)' = IF j = op.id THEN "PREPARING" ELSE State(j)
           /\ \A j \in Id \ {op.id} : journal'[j] = journal[j]
<1>1. op.pc = "stage" /\ journal' = [journal EXCEPT ![op.id] = [state |-> "PREPARING", base |-> op.base, target |-> op.tree]]
  BY StageDoes
<1>2. op.id \in Id /\ up = "up"
  BY <1>1, Owner, InRun DEF InRecovery
<1>3. op.base \in Tree /\ op.tree \in Tree
  BY <1>1, <1>2 DEF Knows, OpTypes, OfRollbacks, Preparation, Id
<1>4. [state |-> "PREPARING", base |-> op.base, target |-> op.tree] \in Journals
  BY <1>3 DEF Journals, JournalStates
<1>5. journal \in [Id -> Journals \cup {None}]
  BY DEF TypeOK
<1>6. /\ journal' \in [Id -> Journals \cup {None}]
      /\ journal'[op.id] = [state |-> "PREPARING", base |-> op.base, target |-> op.tree]
      /\ \A j \in Id \ {op.id} : journal'[j] = journal[j]
  BY <1>1, <1>2, <1>4, <1>5
<1>7. journal'[op.id] # None
  BY <1>4, <1>6, NoneAssumption
<1> QED
  BY <1>2, <1>3, <1>6, <1>7 DEF State

LEMMA StateFitsKept ==
    ASSUME TypeOK, OpTypes, Knows, PcFits, StateFits, PermitFits, ReceiptsFit, PublishedFits, Next
    PROVE  StateFits'
<1>1. CASE Bind \/ Prepare \/ PrepareConflict \/ RecordAdmissionFailure \/ RunAgent \/ AgentEnds
  BY <1>1, BindDoes, SameStates, PrepareDoes, PrepareConflictDoes, RecordAdmissionFailureDoes,
     RunAgentDoes, AgentEndsDoes DEF StateFits, Admission, Preparation, Comparison, Swapping,
     Projection, Acknowledgement, Cleanup, Refusal, Becomes, Moves
<1>2. CASE Seal \/ SealRefuses \/ Verify \/ Reject \/ RejectReceipt
  BY <1>2, SealDoes, SameStates, SealRefusesDoes, VerifyDoes, RejectDoes, RejectReceiptDoes DEF
     StateFits, Admission, Preparation, Comparison, Swapping, Projection, Acknowledgement,
     Cleanup, Refusal, Moves, Becomes
<1>3. CASE Publish
  <2>1. \/ op'.pc = "idle"
        \/ op'.pc = "dispose" /\ op'.id = op.id /\ Phase(op.id) = "PENDING_DISPOSITION"
    BY <1>3, PublishDoes DEF Moves, Becomes, Idle
  <2>2. op'.pc = "dispose" => State(op.id)' = State(op.id) /\ State(op.id) # "ACKNOWLEDGED"
    BY <1>3, <2>1, PublishDoes, SameStates, OwnerOfRun DEF ReceiptsFit
  <2> QED
    BY <1>3, <2>1, <2>2, PublishDoes DEF StateFits, Admission, Preparation, Comparison, Swapping, Projection, Acknowledgement, Cleanup, Refusal
<1>4. CASE Dispose \/ Issue \/ Claim \/ RecordPromotion
  BY <1>4, DisposeDoes, SameStates, IssueDoes, ClaimDoes, RecordPromotionDoes DEF StateFits,
     Admission, Preparation, Comparison, Swapping, Projection, Acknowledgement, Cleanup, Refusal,
     Idle, Moves, Becomes
<1>5. CASE Stage
  <2>1. op'.pc = "cas" /\ op'.id = op.id
    BY <1>5, StageDoes DEF Moves, Becomes
  <2> QED
    BY <1>5, <2>1, Staged DEF StateFits, Admission, Preparation, Comparison, Swapping, Projection, Acknowledgement, Cleanup, Refusal
<1>6. CASE CompareBase \/ CompareConflict \/ Consume \/ Promoting \/ Vacate \/ Fill
  BY <1>6, CompareBaseDoes, SameStates, CompareConflictDoes, OtherStates, Owner, ConsumeDoes,
     PromotingDoes, VacateDoes, FillDoes DEF StateFits, Admission, Preparation, Comparison,
     Swapping, Projection, Acknowledgement, Cleanup, Refusal, Moves, Becomes, JournalSet
<1>7. CASE \/ PendingDatabase \/ RecordFinal \/ AppendVersion \/ Project \/ DropBackup
           \/ AcknowledgeJournal
  BY <1>7, PendingDatabaseDoes, OtherStates, Owner, RecordFinalDoes, SameStates,
     AppendVersionDoes, ProjectDoes, DropBackupDoes, AcknowledgeJournalDoes DEF StateFits,
     Admission, Preparation, Comparison, Swapping, Projection, Acknowledgement, Cleanup, Refusal,
     Moves, JournalSet, Becomes
<1>8. CASE ReleaseRetention \/ DestroyProposal \/ TerminalReceipt \/ Release \/ UndoSwap
  BY <1>8, ReleaseRetentionDoes, SameStates, DestroyProposalDoes, TerminalReceiptDoes,
     ReleaseDoes, UndoSwapDoes DEF StateFits, Admission, Preparation, Comparison, Swapping,
     Projection, Acknowledgement, Cleanup, Refusal, Moves, Becomes, HeadStays, Idle
<1>9. CASE UndoJournal
  <2>0. State(op.id) \in {"PROMOTING", "PROMOTED_PENDING_DB"} /\ op.then \in {"reject", "withdraw", "revert"}
    BY <1>9, UndoJournalDoes DEF Knows, StateFits
  <2>1. \/ State(op.id)' = "ROLLED_BACK" /\ op'.id = op.id /\ op'.pc \in {"reject", "withdraw", "revert"}
        \/ op'.pc = "journals"
        \/ op'.pc = "lock" /\ op'.id = op.id /\ State(op.id)' = State(op.id)
    BY <1>9, <2>0, UndoJournalDoes, SameStates DEF JournalSet, Moves, Becomes, LeftToAnAdministrator, Begins
  <2> QED
    BY <2>0, <2>1 DEF StateFits, Admission, Preparation, Comparison, Swapping, Projection, Acknowledgement, Cleanup, Refusal
<1>10. CASE CloseJournal
  <2>1. op'.pc \in {"reject", "withdraw"} /\ op'.id = op.id
    BY <1>10, CloseJournalDoes DEF Knows, Moves, Becomes
  <2>2. State(op.id)' = "ROLLED_BACK"
    BY <1>10, CloseJournalDoes DEF JournalSet
  <2> QED
    BY <2>1, <2>2 DEF StateFits, Admission, Preparation, Comparison, Swapping, Projection, Acknowledgement, Cleanup, Refusal
<1>11. CASE RevertVersion \/ AbortReceipt
  BY <1>11, RevertVersionDoes, SameStates, AbortReceiptDoes DEF StateFits, Admission, Preparation,
     Comparison, Swapping, Projection, Acknowledgement, Cleanup, Refusal, Moves, Becomes
<1>12. CASE Lock
  <2>1. op'.pc = "idle"
    BY <1>12, LockDoes DEF Idle
  <2> QED
    BY <2>1 DEF StateFits, Admission, Preparation, Comparison, Swapping, Projection, Acknowledgement, Cleanup, Refusal
<1>13. CASE Regenerate \/ Withdraw \/ ConfigureRow
  BY <1>13, RegenerateDoes, SameStates, WithdrawDoes, ConfigureRowDoes DEF StateFits, Admission,
     Preparation, Comparison, Swapping, Projection, Acknowledgement, Cleanup, Refusal, HeadStays,
     Idle
<1>14. CASE \E i \in Id : Examine(i)
  <2>1. PICK i \in Id : Examine(i)
    BY <1>14
  <2>2. \/ op'.pc = "journals"
        \/ /\ op'.id = i /\ State(i)' = State(i)
           /\ \/ State(i) = "ACKNOWLEDGED" /\ op'.pc \in {"terminal", "retention"}
              \/ State(i) = "ROLLED_BACK" /\ op'.pc = "revert"
              \/ State(i) = "PROMOTED_PENDING_DB" /\ op'.pc = "dropBackup"
              \/ State(i) \in {"PROMOTING", "PROMOTED_PENDING_DB"} /\ op'.pc = "undo"
    BY <2>1, ExamineDoes, SameStates DEF Begins, InSwap, State
  <2> QED
    BY <2>2 DEF StateFits, Admission, Preparation, Comparison, Swapping, Projection, Acknowledgement, Cleanup, Refusal
<1>15. CASE Acknowledged \/ RolledBack
  BY <1>15, AcknowledgedDoes, SameStates, RolledBackDoes DEF StateFits, Admission, Preparation,
     Comparison, Swapping, Projection, Acknowledgement, Cleanup, Refusal, Begins
<1>16. CASE \E r \in Run : ScanReceipt(r)
  <2>1. PICK r \in Run : ScanReceipt(r)
    BY <1>16
  <2> QED
    BY <2>1, ScanReceiptDoes, SameStates DEF StateFits, Admission, Preparation, Comparison, Swapping, Projection, Acknowledgement, Cleanup, Refusal
<1>17. CASE \E r \in Run : DisposeAtStartup(r)
  <2>1. PICK r \in Run : DisposeAtStartup(r)
    BY <1>17
  <2> QED
    BY <2>1, DisposeAtStartupDoes, SameStates DEF StateFits, Admission, Preparation, Comparison, Swapping, Projection, Acknowledgement, Cleanup, Refusal, HeadStays
<1>18. CASE Reproject \/ Settle \/ Serve
  BY <1>18, ReprojectDoes, SameStates, SettleDoes, ServeDoes DEF StateFits, Admission,
     Preparation, Comparison, Swapping, Projection, Acknowledgement, Cleanup, Refusal, Moves,
     Becomes, HeadStays, Idle
<1>19. CASE \E r \in Run : Submit(r)
  <2>1. PICK r \in Run : Submit(r)
    BY <1>19
  <2> QED
    BY <2>1, SubmitDoes, SameStates, Unstarted DEF StateFits, Admission, Preparation, Comparison, Swapping, Projection, Acknowledgement, Cleanup, Refusal, Begins, HeadStays, Idle
<1>20. CASE \E x \in Rollback : StartRollback(x)
  <2>1. PICK x \in Rollback : StartRollback(x)
    BY <1>20
  <2> QED
    BY <2>1, StartRollbackDoes, SameStates, Unstarted, Someone DEF StateFits, Admission, Preparation, Comparison, Swapping, Projection, Acknowledgement, Cleanup, Refusal, HeadStays, Idle
<1>21. CASE Configure \/ StartAgent \/ Cancel
  BY <1>21, ConfigureDoes, SameStates, StartAgentDoes, CancelDoes DEF StateFits, Admission,
     Preparation, Comparison, Swapping, Projection, Acknowledgement, Cleanup, Refusal, Begins,
     Idle, HeadStays, Becomes
<1>22. CASE Start
  BY <1>22, StartDoes, SameStates DEF StateFits, Admission, Preparation, Comparison, Swapping,
     Projection, Acknowledgement, Cleanup, Refusal, Begins
<1>23. CASE FaultAtStartup \/ Crash
  BY <1>23, FaultAtStartupDoes, SameStates, CrashDoes DEF StateFits, Admission, Preparation,
     Comparison, Swapping, Projection, Acknowledgement, Cleanup, Refusal, LeftToAnAdministrator,
     Begins, Idle
<1>24. CASE Drift
  BY <1>24, DriftDoes, SameStates DEF StateFits, Admission, Preparation, Comparison, Swapping,
     Projection, Acknowledgement, Cleanup, Refusal
<1>25. CASE Fault
  <2>1. op' = Idle \/ (op'.id = op.id /\ State(op.id)' = State(op.id))
    BY <1>25, FaultDoes, SameStates DEF FaultEarly, FaultInSwap, FaultLate, Moves, Becomes
  <2>2. CASE FaultEarly
    BY <2>1, <2>2 DEF StateFits, Admission, Preparation, Comparison, Swapping, Projection, Acknowledgement, Cleanup, Refusal, FaultEarly, Moves, Becomes, Idle
  <2>3. CASE FaultInSwap
    <3>1. op.pc = "close" => op.then \in {"reject", "withdraw"}
      BY DEF Knows
    <3> QED
      BY <2>1, <2>3, <3>1 DEF StateFits, Admission, Preparation, Comparison, Swapping, Projection, Acknowledgement, Cleanup, Refusal, FaultInSwap, Moves, Becomes, Idle
  <2>4. CASE FaultLate
    BY <2>1, <2>4 DEF StateFits, Admission, Preparation, Comparison, Swapping, Projection, Acknowledgement, Cleanup, Refusal, FaultLate, Moves, Becomes, Idle
  <2>5. CASE op' = Idle
    BY <2>5 DEF StateFits, Admission, Preparation, Comparison, Swapping, Projection, Acknowledgement, Cleanup, Refusal, Idle
  <2> QED
    BY <1>25, <2>2, <2>3, <2>4, <2>5, FaultDoes
<1> QED
  BY <1>1, <1>2, <1>3, <1>4, <1>5, <1>6, <1>7, <1>8, <1>9, <1>10, <1>11, <1>12, <1>13, <1>14,
     <1>15, <1>16, <1>17, <1>18, <1>19, <1>20, <1>21, <1>22, <1>23, <1>24, <1>25 DEF Next,
     Request, Step, RunStep, TransitionStep, StartupStep

----------------------------------------------------------------------------
(* What a step writes of a receipt; the permit at each step. *)

\* What a step does to the receipt of one run.
ReceiptSet(r, phase, decision, base, final) ==
    /\ receipt' \in [Run -> Receipts \cup {None}]
    /\ receipt'[r] # None /\ Phase(r)' = phase /\ receipt'[r].decision = decision
    /\ receipt'[r].base = base /\ receipt'[r].final = final
    /\ \A s \in Run \ {r} : receipt'[s] = receipt[s] /\ Phase(s)' = Phase(s)

LEMMA WritesReceipt ==
    ASSUME TypeOK, NEW r \in Run, NEW new \in Receipts, receipt' = [receipt EXCEPT ![r] = new]
    PROVE  ReceiptSet(r, new.phase, new.decision, new.base, new.final)
<1>1. receipt \in [Run -> Receipts \cup {None}]
  BY DEF TypeOK
<1>2. new # None
  BY NoneAssumption
<1> QED
  BY <1>1, <1>2 DEF ReceiptSet, Phase

LEMMA NewReceiptTyped ==
    ASSUME TypeOK, OpTypes, op.base \in Tree,
           NEW phase \in {"PENDING_PROMOTION", "PENDING_DISPOSITION", "TERMINAL"},
           NEW decision \in {"COMMITTED", "ABORTED", "CONFLICTED", "QUARANTINED"},
           NEW final \in Tree \cup {None}
    PROVE  /\ NewReceipt(phase, decision, final) \in Receipts
           /\ NewReceipt(phase, decision, final).phase = phase
           /\ NewReceipt(phase, decision, final).decision = decision
           /\ NewReceipt(phase, decision, final).base = op.base
           /\ NewReceipt(phase, decision, final).final = final
<1>1. op.gen \in Nat
  BY DEF OpTypes
<1>2. (IF decision = "COMMITTED" THEN op.gen + 1 ELSE op.gen) \in Nat
  BY <1>1
<1> QED
  BY <1>2 DEF NewReceipt, Receipts

LEMMA AmendedReceipt ==
    ASSUME TypeOK, NEW r \in Run, receipt[r] # None, NEW final \in Tree \cup {None}
    PROVE  /\ receipt[r] \in Receipts
           /\ [receipt[r] EXCEPT !.phase = "TERMINAL"] \in Receipts
           /\ [receipt[r] EXCEPT !.phase = "TERMINAL"].phase = "TERMINAL"
           /\ [receipt[r] EXCEPT !.phase = "TERMINAL"].decision = receipt[r].decision
           /\ [receipt[r] EXCEPT !.phase = "TERMINAL"].base = receipt[r].base
           /\ [receipt[r] EXCEPT !.phase = "TERMINAL"].final = receipt[r].final
           /\ [receipt[r] EXCEPT !.final = final] \in Receipts
           /\ [receipt[r] EXCEPT !.final = final].phase = receipt[r].phase
           /\ [receipt[r] EXCEPT !.final = final].decision = receipt[r].decision
           /\ [receipt[r] EXCEPT !.final = final].base = receipt[r].base
           /\ [receipt[r] EXCEPT !.final = final].final = final
<1>1. receipt[r] \in Receipts
  BY DEF TypeOK
<1> QED
  BY <1>1 DEF Receipts

LEMMA RevokedReceipt ==
    ASSUME TypeOK, NEW r \in Run, receipt[r] # None
    PROVE  LET revoked == [receipt[r] EXCEPT !.phase = "TERMINAL", !.decision = "ABORTED",
                                             !.final = receipt[r].base]
           IN  /\ revoked \in Receipts /\ revoked.phase = "TERMINAL" /\ revoked.decision = "ABORTED"
               /\ revoked.base = receipt[r].base /\ revoked.final = receipt[r].base
<1>1. receipt[r] \in Receipts
  BY DEF TypeOK
<1> QED
  BY <1>1 DEF Receipts

LEMMA RunsBase ==
    ASSUME TypeOK, OpTypes, Knows, PcFits,
           op.pc \in {"admission", "record", "rejectReceipt"}
    PROVE  op.base \in Tree /\ op.id \in Run
<1>1. op.id \in Run
  BY OwnerOfRun
<1>2. up = "up"
  BY InRun DEF InRecovery
<1> QED
  BY <1>1, <1>2 DEF Knows, OpTypes

LEMMA RecordAdmissionFailureWrites ==
    ASSUME TypeOK, OpTypes, Knows, PcFits, StateFits, RecordAdmissionFailure
    PROVE  /\ ReceiptSet(op.id, "PENDING_DISPOSITION", op.verdict, op.base, op.base)
           /\ op.verdict \in {"ABORTED", "CONFLICTED", "QUARANTINED"}
<1>1. op.pc = "admission" /\ receipt' = [receipt EXCEPT ![op.id] = NewReceipt("PENDING_DISPOSITION", op.verdict, op.base)]
  BY RecordAdmissionFailureDoes
<1>2. op.base \in Tree /\ op.id \in Run
  BY <1>1, RunsBase
<1>3. op.verdict \in {"ABORTED", "CONFLICTED", "QUARANTINED"}
  BY <1>1 DEF Knows
<1> DEFINE new == NewReceipt("PENDING_DISPOSITION", op.verdict, op.base)
<1>4. /\ new \in Receipts /\ new.phase = "PENDING_DISPOSITION" /\ new.decision = op.verdict
      /\ new.base = op.base /\ new.final = op.base
  BY <1>2, <1>3, NewReceiptTyped
<1>5. receipt' = [receipt EXCEPT ![op.id] = new]
  BY <1>1
<1> HIDE DEF new
<1> QED
  BY <1>2, <1>3, <1>4, <1>5, WritesReceipt

LEMMA RecordPromotionWrites ==
    ASSUME TypeOK, OpTypes, Knows, PcFits, StateFits, RecordPromotion
    PROVE  ReceiptSet(op.id, "PENDING_PROMOTION", "COMMITTED", op.base, op.tree)
<1>1. op.pc = "record" /\ receipt' = [receipt EXCEPT ![op.id] = NewReceipt("PENDING_PROMOTION", "COMMITTED", op.tree)]
  BY RecordPromotionDoes
<1>2. op.base \in Tree /\ op.id \in Run
  BY <1>1, RunsBase
<1>3. op.tree \in Tree \cup {None}
  BY DEF OpTypes
<1> DEFINE new == NewReceipt("PENDING_PROMOTION", "COMMITTED", op.tree)
<1>4. /\ new \in Receipts /\ new.phase = "PENDING_PROMOTION" /\ new.decision = "COMMITTED"
      /\ new.base = op.base /\ new.final = op.tree
  BY <1>2, <1>3, NewReceiptTyped
<1>5. receipt' = [receipt EXCEPT ![op.id] = new]
  BY <1>1
<1> HIDE DEF new
<1> QED
  BY <1>2, <1>4, <1>5, WritesReceipt

LEMMA RejectReceiptWrites ==
    ASSUME TypeOK, OpTypes, Knows, PcFits, StateFits, RejectReceipt
    PROVE  \/ Phase(op.id) = "TERMINAL" /\ receipt' = receipt
           \/ /\ Phase(op.id) # "TERMINAL"
              /\ ReceiptSet(op.id, "PENDING_DISPOSITION", op.verdict, op.base, ws)
              /\ op.verdict \in {"ABORTED", "CONFLICTED", "QUARANTINED"}
<1>1. /\ op.pc = "rejectReceipt"
      /\ IF Phase(op.id) = "TERMINAL" THEN receipt' = receipt
         ELSE receipt' = [receipt EXCEPT ![op.id] = NewReceipt("PENDING_DISPOSITION", op.verdict, ws)]
  BY RejectReceiptDoes
<1>2. op.base \in Tree /\ op.id \in Run
  BY <1>1, RunsBase
<1>3. op.verdict \in {"ABORTED", "CONFLICTED", "QUARANTINED"} /\ ws \in Tree \cup {None}
  BY <1>1 DEF Knows, TypeOK
<1> QED
  BY <1>1, <1>2, <1>3, NewReceiptTyped, WritesReceipt

LEMMA RecordFinalWrites ==
    ASSUME TypeOK, OpTypes, Knows, PcFits, StateFits, ReceiptsFit, RecordFinal
    PROVE  /\ op.id \in Run /\ Accepts(op.id)
           /\ ReceiptSet(op.id, Phase(op.id), receipt[op.id].decision, receipt[op.id].base, ws)
<1>1. op.pc = "final" /\ receipt' = [receipt EXCEPT ![op.id] = [receipt[op.id] EXCEPT !.final = ws]]
  BY RecordFinalDoes
<1>2. op.id \in Run
  BY <1>1, OwnerOfRun
<1>3. State(op.id) = "PROMOTED_PENDING_DB"
  BY <1>1 DEF StateFits, Projection
<1>4. InSwap(op.id)
  BY <1>3 DEF InSwap, State
<1>5. Accepts(op.id)
  BY <1>2, <1>4 DEF ReceiptsFit
<1>6. receipt[op.id] # None /\ ws \in Tree \cup {None}
  BY <1>5 DEF Accepts, TypeOK
<1>7. Phase(op.id) = receipt[op.id].phase
  BY <1>6 DEF Phase
<1> DEFINE new == [receipt[op.id] EXCEPT !.final = ws]
<1>8. /\ new \in Receipts /\ new.phase = Phase(op.id) /\ new.decision = receipt[op.id].decision
      /\ new.base = receipt[op.id].base /\ new.final = ws
  BY <1>2, <1>6, <1>7, AmendedReceipt
<1>9. receipt' = [receipt EXCEPT ![op.id] = new]
  BY <1>1
<1> HIDE DEF new
<1> QED
  BY <1>2, <1>5, <1>8, <1>9, WritesReceipt

LEMMA TerminalReceiptWrites ==
    ASSUME TypeOK, OpTypes, Knows, PcFits, StateFits, TerminalReceipt
    PROVE  /\ op.id \in Run
           /\ \/ (receipt[op.id] = None \/ Phase(op.id) = "TERMINAL") /\ receipt' = receipt
              \/ /\ receipt[op.id] # None
                 /\ ReceiptSet(op.id, "TERMINAL", receipt[op.id].decision, receipt[op.id].base,
                               receipt[op.id].final)
<1>1. op.id \in Run
  BY TerminalReceiptDoes, OwnerOfRun
<1> QED
  BY <1>1, TerminalReceiptDoes, AmendedReceipt, WritesReceipt

LEMMA DisposeWrites ==
    ASSUME TypeOK, OpTypes, Knows, PcFits, StateFits, ReceiptsFit, Dispose
    PROVE  /\ op.id \in Run
           /\ \/ receipt' = receipt
              \/ /\ receipt[op.id] # None
                 /\ ReceiptSet(op.id, "TERMINAL", receipt[op.id].decision, receipt[op.id].base,
                               receipt[op.id].final)
<1>1. op.id \in Run /\ op.pc = "dispose"
  BY DisposeDoes, OwnerOfRun
<1>2. receipt[op.id] # None
  BY <1>1 DEF ReceiptsFit, Phase
<1> QED
  BY <1>1, <1>2, DisposeDoes, AmendedReceipt, WritesReceipt

LEMMA DisposeAtStartupWrites ==
    ASSUME TypeOK, OpTypes, Knows, PcFits, StateFits, ReceiptsFit, NEW r \in Run, DisposeAtStartup(r)
    PROVE  \/ receipt' = receipt
           \/ /\ receipt[r] # None
              /\ ReceiptSet(r, "TERMINAL", receipt[r].decision, receipt[r].base, receipt[r].final)
<1>1. receipt[r] # None
  BY DisposeAtStartupDoes DEF ReceiptsFit, Phase
<1> DEFINE new == [receipt[r] EXCEPT !.phase = "TERMINAL"]
<1>2. /\ new \in Receipts /\ new.phase = "TERMINAL" /\ new.decision = receipt[r].decision
      /\ new.base = receipt[r].base /\ new.final = receipt[r].final
  BY <1>1, AmendedReceipt
<1>3. receipt' = receipt \/ receipt' = [receipt EXCEPT ![r] = new]
  BY DisposeAtStartupDoes
<1> HIDE DEF new
<1> QED
  BY <1>1, <1>2, <1>3, WritesReceipt

LEMMA ScanReceiptWrites ==
    ASSUME TypeOK, OpTypes, Knows, PcFits, StateFits, NEW r \in Run, ScanReceipt(r)
    PROVE  receipt[r] # None /\ ReceiptSet(r, "TERMINAL", "ABORTED", receipt[r].base, receipt[r].base)
<1>1. receipt[r] # None
  BY ScanReceiptDoes DEF Phase
<1> QED
  BY <1>1, ScanReceiptDoes, RevokedReceipt, WritesReceipt

LEMMA AbortReceiptWrites ==
    ASSUME TypeOK, OpTypes, Knows, PcFits, StateFits, AbortReceipt
    PROVE  /\ op.id \in Run
           /\ \/ (receipt[op.id] = None \/ Phase(op.id) = "TERMINAL") /\ receipt' = receipt
              \/ /\ receipt[op.id] # None
                 /\ ReceiptSet(op.id, "TERMINAL", "ABORTED", receipt[op.id].base, receipt[op.id].base)
<1>1. op.id \in Run
  BY AbortReceiptDoes, OwnerOfRun
<1> QED
  BY <1>1, AbortReceiptDoes, RevokedReceipt, WritesReceipt

LEMMA PermitFitsKept ==
    ASSUME TypeOK, OpTypes, Knows, PcFits, StateFits, PermitFits, ReceiptsFit, PublishedFits, Next
    PROVE  PermitFits'
<1>1. CASE Bind \/ Prepare \/ PrepareConflict \/ RecordAdmissionFailure \/ RunAgent \/ AgentEnds
  BY <1>1, BindDoes, OwnerOfRun, PrepareDoes, PrepareConflictDoes, RecordAdmissionFailureDoes,
     RunAgentDoes, AgentEndsDoes DEF PermitFits, Admission, Swapping, Becomes, Moves
<1>2. CASE Seal \/ SealRefuses \/ Verify \/ Reject \/ RejectReceipt \/ Publish
  BY <1>2, SealDoes, OwnerOfRun, SealRefusesDoes, VerifyDoes, RejectDoes, RejectReceiptDoes,
     PublishDoes DEF PermitFits, Admission, Swapping, Moves, Becomes, TypeOK, Permits, HeadStays,
     Idle
<1>3. CASE Dispose \/ Issue \/ Claim \/ RecordPromotion \/ Stage \/ CompareBase
  BY <1>3, DisposeDoes, OwnerOfRun, IssueDoes, Owner, ClaimDoes, RecordPromotionDoes, StageDoes,
     CompareBaseDoes DEF PermitFits, Admission, Swapping, Idle, Moves, Becomes, TypeOK, Permits
<1>4. CASE CompareConflict \/ Consume \/ Promoting \/ Vacate \/ Fill \/ PendingDatabase
  BY <1>4, CompareConflictDoes, Owner, ConsumeDoes, PromotingDoes, VacateDoes, FillDoes,
     PendingDatabaseDoes DEF PermitFits, Admission, Swapping, Becomes, Moves, JournalSet, TypeOK,
     Permits
<1>5. CASE \/ RecordFinal \/ AppendVersion \/ Project \/ DropBackup \/ AcknowledgeJournal
           \/ ReleaseRetention
  BY <1>5, RecordFinalDoes, OwnerOfRun, AppendVersionDoes, Owner, ProjectDoes, DropBackupDoes,
     AcknowledgeJournalDoes, ReleaseRetentionDoes DEF PermitFits, Admission, Swapping, Becomes,
     Moves, JournalSet
<1>6. CASE DestroyProposal \/ TerminalReceipt \/ Release \/ UndoSwap
  BY <1>6, DestroyProposalDoes, OwnerOfRun, TerminalReceiptDoes, ReleaseDoes, Owner, UndoSwapDoes DEF
     PermitFits, Admission, Swapping, Moves, Becomes, HeadStays, Idle
<1>7. CASE UndoJournal
  <2>1. op'.pc \in {"reject", "withdraw", "revert", "journals", "lock"} /\ permit' = permit
    BY <1>7, UndoJournalDoes DEF Knows, Moves, Becomes, LeftToAnAdministrator, Begins
  <2>2. \A i \in Id : journal[i] = None => journal'[i] = None
    BY <1>7, UndoJournalDoes DEF JournalSet
  <2> QED
    BY <2>1, <2>2 DEF PermitFits, Admission, Swapping
<1>8. CASE CloseJournal
  <2>1. op'.pc \in {"reject", "withdraw"} /\ op'.id = op.id /\ permit' = permit
    BY <1>8, CloseJournalDoes DEF Knows, Moves, Becomes
  <2>2. \A i \in Id : journal[i] = None => journal'[i] = None
    BY <1>8, CloseJournalDoes DEF JournalSet
  <2> QED
    BY <2>1, <2>2 DEF PermitFits, Admission, Swapping
<1>9. CASE RevertVersion
  BY <1>9, RevertVersionDoes, Owner DEF PermitFits, Admission, Swapping, Moves, Becomes
<1>10. CASE AbortReceipt
  BY <1>10, AbortReceiptDoes, OwnerOfRun DEF PermitFits, Admission, Swapping, Becomes, Moves
<1>11. CASE Lock
  BY <1>11, LockDoes, Owner DEF PermitFits, Admission, Swapping, HeadStays, Idle
<1>12. CASE Regenerate \/ Withdraw \/ ConfigureRow
  BY <1>12, RegenerateDoes, OwnerOfRollback, WithdrawDoes, ConfigureRowDoes DEF PermitFits,
     Admission, Swapping, HeadStays, Idle, TypeOK, Permits
<1>13. CASE \E i \in Id : Examine(i)
  <2>1. PICK i \in Id : Examine(i)
    BY <1>13
  <2> QED
    BY <2>1, ExamineDoes DEF PermitFits, Admission, Swapping, Begins, JournalSet
<1>14. CASE Acknowledged \/ RolledBack
  BY <1>14, AcknowledgedDoes, RolledBackDoes DEF PermitFits, Admission, Swapping, Begins
<1>15. CASE \E r \in Run : ScanReceipt(r)
  <2>1. PICK r \in Run : ScanReceipt(r)
    BY <1>15
  <2> QED
    BY <2>1, ScanReceiptDoes DEF PermitFits, Admission, Swapping
<1>16. CASE \E r \in Run : DisposeAtStartup(r)
  <2>1. PICK r \in Run : DisposeAtStartup(r)
    BY <1>16
  <2> QED
    BY <2>1, DisposeAtStartupDoes DEF PermitFits, Admission, Swapping, HeadStays
<1>17. CASE Reproject \/ Settle \/ Serve
  BY <1>17, ReprojectDoes, SettleDoes, ServeDoes DEF PermitFits, Admission, Swapping, Moves,
     Becomes, HeadStays, Idle
<1>18. CASE \E r \in Run : Submit(r)
  <2>1. PICK r \in Run : Submit(r)
    BY <1>18
  <2>2. permit[r] = "NONE" /\ op'.id = r /\ op'.pc = "bind" /\ permit' = permit /\ journal' = journal
    BY <2>1, SubmitDoes DEF PublishedFits, Unpublished, Begins
  <2> QED
    BY <2>2 DEF PermitFits, Admission, Swapping
<1>19. CASE \E x \in Rollback : StartRollback(x)
  <2>1. PICK x \in Rollback : StartRollback(x)
    BY <1>19
  <2> QED
    BY <2>1, StartRollbackDoes DEF PermitFits, Admission, Swapping, HeadStays, Idle, TypeOK, Permits
<1>20. CASE Configure \/ StartAgent \/ Cancel
  BY <1>20, ConfigureDoes, StartAgentDoes, CancelDoes DEF PermitFits, Admission, Swapping, Begins,
     Idle, HeadStays, Becomes
<1>21. CASE Start
  BY <1>21, StartDoes DEF PermitFits, Admission, Swapping, Begins
<1>22. CASE FaultAtStartup \/ Crash
  BY <1>22, FaultAtStartupDoes, CrashDoes DEF PermitFits, Admission, Swapping,
     LeftToAnAdministrator, Begins, Idle
<1>23. CASE Drift
  BY <1>23, DriftDoes DEF PermitFits, Admission, Swapping
<1>24. CASE Fault
  <2>1. permit' = permit /\ journal' = journal /\ (op.pc = "close" => op.then \in {"reject", "withdraw"})
    BY <1>24, FaultDoes DEF Knows
  <2>2. \/ op'.pc \notin Admission \cup {"regenerate", "issue", "promoting"} \cup Swapping
        \/ op'.pc = "admission" /\ op.pc = "prepare" /\ op'.id = op.id
    BY <1>24, <2>1, FaultDoes DEF Admission, Swapping, Idle, FaultEarly, FaultInSwap, FaultLate, Becomes, Moves
  <2> QED
    BY <2>1, <2>2 DEF PermitFits, Admission, Swapping
<1> QED
  BY <1>1, <1>2, <1>3, <1>4, <1>5, <1>6, <1>7, <1>8, <1>9, <1>10, <1>11, <1>12, <1>13, <1>14,
     <1>15, <1>16, <1>17, <1>18, <1>19, <1>20, <1>21, <1>22, <1>23, <1>24 DEF Next, Request, Step,
     RunStep, TransitionStep, StartupStep

----------------------------------------------------------------------------
(* Who writes what: where operations come from, and the steps that write   *)
(* nothing.                                                                *)

\* The operation goes on at the same step.
Stays ==
    /\ op'.pc = op.pc /\ op'.id = op.id /\ op'.tree = op.tree /\ op'.base = op.base
    /\ op'.gen = op.gen /\ op'.before = op.before /\ op'.then = op.then /\ up' = up
    /\ op'.outcome = "decided" => op.outcome = "decided"

\* A journal is looked at: it is closed, or its recovery begins.
LEMMA ExamineBegins ==
    ASSUME TypeOK, OpTypes, Knows, PcFits, StateFits, ReceiptsFit, NEW i \in Id, Examine(i)
    PROVE  /\ op.pc = "journals" /\ i \in startup.todo
           /\ \/ op' = op /\ State(i) = "PREPARING" /\ JournalSet(i, "ROLLED_BACK")
              \/ /\ journal' = journal /\ startup' = startup
                 /\ op'.id = i /\ op'.pc \in {"terminal", "retention", "revert", "dropBackup", "undo"}
           /\ UNCHANGED <<ws, backup, permit, proposal, receipt, versions, snapshots, db,
                          published, spoken, up, reserved, crashes, faults, drifts>>
<1>1. /\ Begins(i, "terminal", "revert") => op'.id = i /\ op'.pc = "terminal"
      /\ Begins(i, "retention", "revert") => op'.id = i /\ op'.pc = "retention"
      /\ Begins(i, "revert", "retention") => op'.id = i /\ op'.pc = "revert"
      /\ Begins(i, "dropBackup", "revert") => op'.id = i /\ op'.pc = "dropBackup"
      /\ Begins(i, "undo", "revert") => op'.id = i /\ op'.pc = "undo"
  BY DEF Begins
<1> QED
  BY <1>1, ExamineDoes

LEMMA Writers ==
    ASSUME TypeOK, OpTypes, Knows, PcFits, StateFits, ReceiptsFit, Next
    PROVE  /\ \/ ws' = ws \/ PrepareConflict \/ Vacate \/ Fill \/ UndoSwap \/ Regenerate \/ Configure
              \/ Drift \/ Fault
           /\ \/ backup' = backup \/ Vacate \/ DropBackup \/ UndoSwap
           /\ \/ journal' = journal \/ Stage \/ CompareConflict \/ Promoting \/ PendingDatabase
              \/ AcknowledgeJournal \/ UndoJournal \/ CloseJournal \/ (\E i \in Id : Examine(i))
           /\ \/ permit' = permit \/ Reject \/ Issue \/ Claim \/ Consume \/ Withdraw
           /\ \/ proposal' = proposal \/ Seal \/ Reject \/ DestroyProposal \/ AbortReceipt
           /\ \/ receipt' = receipt \/ RecordAdmissionFailure \/ RejectReceipt \/ Dispose
              \/ RecordPromotion \/ RecordFinal \/ TerminalReceipt \/ AbortReceipt
              \/ (\E r \in Run : ScanReceipt(r)) \/ (\E r \in Run : DisposeAtStartup(r))
           /\ \/ versions' = versions \/ AppendVersion \/ RevertVersion
           /\ \/ snapshots' = snapshots \/ AppendVersion \/ ReleaseRetention \/ RevertVersion
              \/ Acknowledged \/ RolledBack
           /\ \/ db' = db \/ Publish \/ Project \/ Release \/ Lock \/ Withdraw \/ ConfigureRow
              \/ (\E r \in Run : DisposeAtStartup(r)) \/ Reproject \/ Settle
              \/ (\E r \in Run : Submit(r)) \/ (\E x \in Rollback : StartRollback(x)) \/ StartAgent
           /\ \/ published' = published \/ Bind \/ Publish \/ Release \/ Lock \/ Settle
              \/ (\E r \in Run : Submit(r))
           /\ \/ spoken' = spoken \/ Project \/ Settle
           /\ \/ up' = up \/ Serve \/ Start \/ FaultAtStartup \/ Crash
           /\ \/ reserved' = reserved \/ Publish \/ Lock \/ Settle \/ Start \/ Fault
           /\ \/ startup' = startup \/ UndoJournal \/ (\E i \in Id : Examine(i)) \/ Acknowledged
              \/ RolledBack \/ (\E r \in Run : ScanReceipt(r)) \/ (\E r \in Run : DisposeAtStartup(r))
              \/ Reproject \/ Settle \/ Serve \/ Start \/ FaultAtStartup \/ Crash
<1>1. CASE Bind \/ Prepare \/ PrepareConflict \/ RecordAdmissionFailure \/ RunAgent \/ AgentEnds
  BY <1>1, BindDoes, PrepareDoes, PrepareConflictDoes, RecordAdmissionFailureDoes, RunAgentDoes,
     AgentEndsDoes DEF Becomes, Moves
<1>2. CASE Seal \/ SealRefuses \/ Verify \/ Reject \/ RejectReceipt \/ Publish
  BY <1>2, SealDoes, SealRefusesDoes, VerifyDoes, RejectDoes, RejectReceiptDoes, PublishDoes DEF
     Moves, Becomes, HeadStays, Idle
<1>3. CASE Dispose \/ Issue \/ Claim \/ RecordPromotion \/ Stage \/ CompareBase
  BY <1>3, DisposeDoes, IssueDoes, ClaimDoes, RecordPromotionDoes, StageDoes, CompareBaseDoes DEF
     Idle, Moves, Becomes
<1>4. CASE CompareConflict \/ Consume \/ Promoting \/ Vacate \/ Fill \/ PendingDatabase
  BY <1>4, CompareConflictDoes, ConsumeDoes, PromotingDoes, VacateDoes, FillDoes,
     PendingDatabaseDoes DEF Becomes, Moves, JournalSet
<1>5. CASE \/ RecordFinal \/ AppendVersion \/ Project \/ DropBackup \/ AcknowledgeJournal
           \/ ReleaseRetention
  BY <1>5, RecordFinalDoes, AppendVersionDoes, ProjectDoes, DropBackupDoes,
     AcknowledgeJournalDoes, ReleaseRetentionDoes DEF Becomes, Moves, JournalSet
<1>6. CASE \/ DestroyProposal \/ TerminalReceipt \/ Release \/ UndoSwap \/ UndoJournal
           \/ CloseJournal
  BY <1>6, DestroyProposalDoes, TerminalReceiptDoes, ReleaseDoes, UndoSwapDoes, UndoJournalDoes,
     CloseJournalDoes DEF Moves, Becomes, HeadStays, Idle, JournalSet, LeftToAnAdministrator,
     Begins
<1>7. CASE RevertVersion \/ AbortReceipt \/ Lock \/ Regenerate \/ Withdraw \/ ConfigureRow
  BY <1>7, RevertVersionDoes, AbortReceiptDoes, LockDoes, RegenerateDoes, WithdrawDoes,
     ConfigureRowDoes DEF Moves, Becomes, HeadStays, Idle
<1>8. CASE \E i \in Id : Examine(i)
  <2>1. PICK i \in Id : Examine(i)
    BY <1>8
  <2> QED
    BY <1>8, <2>1, ExamineBegins
<1>9. CASE Acknowledged \/ RolledBack
  BY <1>9, AcknowledgedDoes, RolledBackDoes DEF Begins
<1>10. CASE \E r \in Run : ScanReceipt(r)
  <2>1. PICK r \in Run : ScanReceipt(r)
    BY <1>10
  <2> QED
    BY <2>1, ScanReceiptDoes
<1>11. CASE \E r \in Run : DisposeAtStartup(r)
  <2>1. PICK r \in Run : DisposeAtStartup(r)
    BY <1>11
  <2> QED
    BY <2>1, DisposeAtStartupDoes DEF HeadStays
<1>12. CASE Reproject \/ Settle \/ Serve
  BY <1>12, ReprojectDoes, SettleDoes, ServeDoes DEF Moves, Becomes, HeadStays, Idle
<1>13. CASE \E r \in Run : Submit(r)
  <2>1. PICK r \in Run : Submit(r)
    BY <1>13
  <2> QED
    BY <2>1, SubmitDoes DEF Begins, HeadStays, Idle
<1>14. CASE \E x \in Rollback : StartRollback(x)
  <2>1. PICK x \in Rollback : StartRollback(x)
    BY <1>14
  <2> QED
    BY <2>1, StartRollbackDoes DEF HeadStays, Idle
<1>15. CASE Configure \/ StartAgent \/ Cancel \/ Start \/ FaultAtStartup \/ Crash
  BY <1>15, ConfigureDoes, StartAgentDoes, CancelDoes, StartDoes, FaultAtStartupDoes, CrashDoes DEF
     Begins, Idle, HeadStays, Becomes, LeftToAnAdministrator
<1>16. CASE Drift \/ Fault
  BY <1>16, DriftDoes, FaultDoes DEF Becomes, Moves, Idle, FaultEarly, FaultInSwap, FaultLate
<1> QED
  BY <1>1, <1>2, <1>3, <1>4, <1>5, <1>6, <1>7, <1>8, <1>9, <1>10, <1>11, <1>12, <1>13, <1>14,
     <1>15, <1>16 DEF Next, Request, Step, RunStep, TransitionStep, StartupStep

LEMMA Arrivals ==
    ASSUME TypeOK, OpTypes, Knows, PcFits, StateFits, ReceiptsFit, Next
    PROVE  /\ \/ op'.pc # "bind" \/ Stays \/ (\E r \in Run : Submit(r))
           /\ \/ op'.pc # "prepare" \/ Stays \/ Bind
           /\ \/ op'.pc # "admission" \/ Stays \/ Prepare \/ PrepareConflict \/ Fault
           /\ \/ op'.pc # "agent" \/ Stays \/ Prepare
           /\ \/ op'.pc # "seal" \/ Stays \/ RunAgent
           /\ \/ op'.pc # "verify" \/ Stays \/ Seal
           /\ \/ op'.pc # "reject" \/ Stays \/ AgentEnds \/ SealRefuses \/ Verify \/ CompareConflict \/ UndoJournal
              \/ CloseJournal \/ AbortReceipt \/ Fault
           /\ \/ op'.pc # "rejectReceipt" \/ Stays \/ Reject
           /\ \/ op'.pc # "publish" \/ Stays \/ RecordAdmissionFailure \/ RejectReceipt \/ AbortReceipt \/ Fault
           /\ \/ op'.pc # "dispose" \/ Stays \/ Publish
           /\ \/ op'.pc # "issue" \/ Stays \/ Verify \/ Regenerate
           /\ \/ op'.pc # "claim" \/ Stays \/ Issue
           /\ \/ op'.pc # "record" \/ Stays \/ Claim
           /\ \/ op'.pc # "stage" \/ Stays \/ Claim \/ RecordPromotion
           /\ \/ op'.pc # "cas" \/ Stays \/ Stage
           /\ \/ op'.pc # "consume" \/ Stays \/ CompareBase
           /\ \/ op'.pc # "promoting" \/ Stays \/ Consume
           /\ \/ op'.pc # "vacate" \/ Stays \/ Promoting
           /\ \/ op'.pc # "fill" \/ Stays \/ Vacate
           /\ \/ op'.pc # "pendingDb" \/ Stays \/ Fill
           /\ \/ op'.pc # "final" \/ Stays \/ PendingDatabase
           /\ \/ op'.pc # "append" \/ Stays \/ PendingDatabase \/ RecordFinal
           /\ \/ op'.pc # "project" \/ Stays \/ AppendVersion
           /\ \/ op'.pc # "dropBackup" \/ Stays \/ Project \/ (\E i \in Id : Examine(i)) \/ Fault
           /\ \/ op'.pc # "acknowledge" \/ Stays \/ DropBackup
           /\ \/ op'.pc # "retention" \/ Stays \/ AcknowledgeJournal \/ (\E i \in Id : Examine(i))
           /\ \/ op'.pc # "release" \/ Stays \/ ReleaseRetention \/ TerminalReceipt
           /\ \/ op'.pc # "terminal" \/ Stays \/ ReleaseRetention \/ DestroyProposal \/ (\E i \in Id : Examine(i))
           /\ \/ op'.pc # "destroy" \/ Stays \/ ReleaseRetention
           /\ \/ op'.pc # "undo" \/ Stays \/ RecordFinal \/ (\E i \in Id : Examine(i)) \/ Fault
           /\ \/ op'.pc # "close" \/ Stays \/ Fault
           /\ \/ op'.pc # "revert" \/ Stays \/ UndoJournal \/ (\E i \in Id : Examine(i))
           /\ \/ op'.pc # "abortReceipt" \/ Stays \/ RevertVersion
           /\ \/ op'.pc # "rolled" \/ Stays \/ RevertVersion \/ AbortReceipt
           /\ \/ op'.pc # "lock" \/ Stays \/ UndoJournal \/ Fault
           /\ \/ op'.pc # "regenerate" \/ Stays \/ (\E x \in Rollback : StartRollback(x))
           /\ \/ op'.pc # "withdraw" \/ Stays \/ CompareConflict \/ UndoJournal \/ CloseJournal \/ RevertVersion \/ Fault
           /\ \/ op'.pc # "configure" \/ Stays \/ Configure
           /\ \/ op'.pc # "journals" \/ Stays \/ UndoJournal \/ Acknowledged \/ RolledBack \/ Start \/ FaultAtStartup
           /\ \/ op'.pc # "settle" \/ Stays \/ Reproject
           /\ \/ op'.pc # "dispositions" \/ Stays \/ Settle
<1>1. CASE Bind \/ Prepare \/ PrepareConflict \/ RecordAdmissionFailure \/ RunAgent \/ AgentEnds
  BY <1>1, BindDoes, PrepareDoes, PrepareConflictDoes, RecordAdmissionFailureDoes, RunAgentDoes,
     AgentEndsDoes DEF Stays, Becomes, Moves
<1>2. CASE Seal \/ SealRefuses \/ Verify \/ Reject \/ RejectReceipt \/ Publish
  BY <1>2, SealDoes, SealRefusesDoes, VerifyDoes, RejectDoes, RejectReceiptDoes, PublishDoes DEF
     Stays, Moves, Becomes, HeadStays, Idle
<1>3. CASE Dispose \/ Issue \/ Claim \/ RecordPromotion \/ Stage \/ CompareBase
  BY <1>3, DisposeDoes, IssueDoes, ClaimDoes, RecordPromotionDoes, StageDoes, CompareBaseDoes DEF
     Stays, Idle, Moves, Becomes
<1>4. CASE CompareConflict \/ Consume \/ Promoting \/ Vacate \/ Fill \/ PendingDatabase
  BY <1>4, CompareConflictDoes, ConsumeDoes, PromotingDoes, VacateDoes, FillDoes,
     PendingDatabaseDoes DEF Stays, Becomes, Moves, JournalSet
<1>5. CASE \/ RecordFinal \/ AppendVersion \/ Project \/ DropBackup \/ AcknowledgeJournal
           \/ ReleaseRetention
  BY <1>5, RecordFinalDoes, AppendVersionDoes, ProjectDoes, DropBackupDoes,
     AcknowledgeJournalDoes, ReleaseRetentionDoes DEF Stays, Becomes, Moves, JournalSet
<1>6. CASE \/ DestroyProposal \/ TerminalReceipt \/ Release \/ UndoSwap \/ UndoJournal
           \/ CloseJournal
  BY <1>6, DestroyProposalDoes, TerminalReceiptDoes, ReleaseDoes, UndoSwapDoes, UndoJournalDoes,
     CloseJournalDoes DEF Stays, Moves, Becomes, HeadStays, Idle, JournalSet,
     LeftToAnAdministrator, Begins, Knows
<1>7. CASE RevertVersion
  BY <1>7, RevertVersionDoes DEF Stays, Moves, Becomes
<1>8. CASE AbortReceipt
  BY <1>8, AbortReceiptDoes DEF Stays, Becomes, Moves
<1>9. CASE Lock
  BY <1>9, LockDoes DEF Stays, HeadStays, Idle
<1>10. CASE Regenerate \/ Withdraw \/ ConfigureRow
  BY <1>10, RegenerateDoes, WithdrawDoes, ConfigureRowDoes DEF Stays, HeadStays, Idle
<1>11. CASE \E i \in Id : Examine(i)
  <2>1. PICK i \in Id : Examine(i)
    BY <1>11
  <2> QED
    BY <1>11, <2>1, ExamineBegins DEF Stays
<1>12. CASE Acknowledged \/ RolledBack
  BY <1>12, AcknowledgedDoes, RolledBackDoes DEF Stays, Begins
<1>13. CASE \E r \in Run : ScanReceipt(r)
  <2>1. PICK r \in Run : ScanReceipt(r)
    BY <1>13
  <2> QED
    BY <2>1, ScanReceiptDoes DEF Stays
<1>14. CASE \E r \in Run : DisposeAtStartup(r)
  <2>1. PICK r \in Run : DisposeAtStartup(r)
    BY <1>14
  <2> QED
    BY <2>1, DisposeAtStartupDoes DEF Stays, HeadStays
<1>15. CASE Reproject \/ Settle \/ Serve
  BY <1>15, ReprojectDoes, SettleDoes, ServeDoes DEF Stays, Moves, Becomes, HeadStays, Idle
<1>16. CASE \E r \in Run : Submit(r)
  <2>1. PICK r \in Run : Submit(r)
    BY <1>16
  <2> QED
    BY <2>1, SubmitDoes DEF Stays, Begins, HeadStays, Idle
<1>17. CASE \E x \in Rollback : StartRollback(x)
  <2>1. PICK x \in Rollback : StartRollback(x)
    BY <1>17
  <2> QED
    BY <2>1, StartRollbackDoes DEF Stays, HeadStays, Idle
<1>18. CASE Configure \/ StartAgent \/ Cancel
  BY <1>18, ConfigureDoes, StartAgentDoes, CancelDoes DEF Stays, Begins, Idle, HeadStays, Becomes
<1>19. CASE Start
  BY <1>19, StartDoes DEF Stays, Begins
<1>20. CASE FaultAtStartup \/ Crash
  BY <1>20, FaultAtStartupDoes, CrashDoes DEF Stays, LeftToAnAdministrator, Begins, Idle
<1>21. CASE Drift
  BY <1>21, DriftDoes DEF Stays
<1>22. CASE Fault
  <2>1. CASE op' = Idle
    BY <2>1 DEF Idle
  <2>2. CASE FaultEarly
    BY <1>22, <2>2 DEF FaultEarly, Becomes, Moves
  <2>3. CASE FaultInSwap
    BY <1>22, <2>3 DEF FaultInSwap, Becomes, Moves, Knows
  <2>4. CASE FaultLate
    <3>1. up' = up
      BY <1>22, FaultDoes
    <3> QED
      BY <1>22, <2>4, <3>1 DEF FaultLate, Becomes, Moves, Stays
  <2> QED
    BY <1>22, <2>1, <2>2, <2>3, <2>4, FaultDoes
<1> QED
  BY <1>1, <1>2, <1>3, <1>4, <1>5, <1>6, <1>7, <1>8, <1>9, <1>10, <1>11, <1>12, <1>13, <1>14,
     <1>15, <1>16, <1>17, <1>18, <1>19, <1>20, <1>21, <1>22 DEF Next, Request, Step, RunStep,
     TransitionStep, StartupStep

\* Which stores a step leaves alone.
LEMMA Quiet ==
    ASSUME TypeOK, OpTypes, Knows, PcFits, StateFits, ReceiptsFit, Next
    PROVE  /\ \/ backup' = backup
              \/ op.pc \in {"vacate", "dropBackup", "undo"}
           /\ \/ journal' = journal
              \/ op.pc \in {"stage", "cas", "promoting", "pendingDb", "acknowledge", "undo", 
                      "close", "journals"}
           /\ \/ permit' = permit
              \/ op.pc \in {"reject", "issue", "claim", "consume", "withdraw"}
           /\ \/ proposal' = proposal
              \/ op.pc \in {"seal", "reject", "destroy", "abortReceipt"}
           /\ \/ receipt' = receipt
              \/ op.pc \in {"admission", "rejectReceipt", "dispose", "record", "final", "terminal", 
                      "abortReceipt", "journals", "dispositions"}
           /\ \/ versions' = versions
              \/ op.pc \in {"append", "revert"}
           /\ \/ snapshots' = snapshots
              \/ op.pc \in {"append", "retention", "revert", "release", "rolled"}
           /\ \/ published' = published
              \/ op.pc \in {"bind", "publish", "release", "lock", "settle", "idle"}
           /\ \/ spoken' = spoken
              \/ op.pc \in {"project", "settle"}
           /\ \/ db' = db
              \/ op.pc \in {"publish", "project", "release", "lock", "withdraw", "configure", 
                      "dispositions", "journals", "settle", "idle"}
           /\ \/ ws' = ws \/ Drift
              \/ op.pc \in {"prepare", "vacate", "fill", "undo", "regenerate", "configure", 
                      "idle"}
<1> USE Writers
<1>0. op = Idle => op.pc = "idle"
  BY DEF Idle
<1>1. \/ backup' = backup
        \/ op.pc \in {"vacate", "dropBackup", "undo"}
  BY <1>0, Writers, VacateDoes, DropBackupDoes, UndoSwapDoes
<1>2. \/ journal' = journal
        \/ op.pc \in {"stage", "cas", "promoting", "pendingDb", "acknowledge", "undo", 
                "close", "journals"}
  BY <1>0, Writers, StageDoes, CompareConflictDoes, PromotingDoes, PendingDatabaseDoes, AcknowledgeJournalDoes, UndoJournalDoes, CloseJournalDoes, ExamineBegins
<1>3. \/ permit' = permit
        \/ op.pc \in {"reject", "issue", "claim", "consume", "withdraw"}
  BY <1>0, Writers, RejectDoes, IssueDoes, ClaimDoes, ConsumeDoes, WithdrawDoes
<1>4. \/ proposal' = proposal
        \/ op.pc \in {"seal", "reject", "destroy", "abortReceipt"}
  BY <1>0, Writers, SealDoes, RejectDoes, DestroyProposalDoes, AbortReceiptDoes
<1>5. \/ receipt' = receipt
        \/ op.pc \in {"admission", "rejectReceipt", "dispose", "record", "final", "terminal", 
                "abortReceipt", "journals", "dispositions"}
  BY <1>0, Writers, RecordAdmissionFailureDoes, RejectReceiptDoes, DisposeDoes, RecordPromotionDoes, RecordFinalDoes, TerminalReceiptDoes, AbortReceiptDoes, ScanReceiptDoes, DisposeAtStartupDoes
<1>6. \/ versions' = versions
        \/ op.pc \in {"append", "revert"}
  BY <1>0, Writers, AppendVersionDoes, RevertVersionDoes
<1>7. \/ snapshots' = snapshots
        \/ op.pc \in {"append", "retention", "revert", "release", "rolled"}
  BY <1>0, Writers, AppendVersionDoes, ReleaseRetentionDoes, RevertVersionDoes, AcknowledgedDoes, RolledBackDoes
<1>8. \/ published' = published
        \/ op.pc \in {"bind", "publish", "release", "lock", "settle", "idle"}
  BY <1>0, Writers, BindDoes, PublishDoes, ReleaseDoes, LockDoes, SettleDoes, SubmitDoes
<1>9. \/ spoken' = spoken
        \/ op.pc \in {"project", "settle"}
  BY <1>0, Writers, ProjectDoes, SettleDoes
<1>10. \/ db' = db
        \/ op.pc \in {"publish", "project", "release", "lock", "withdraw", "configure", 
                "dispositions", "journals", "settle", "idle"}
  BY <1>0, Writers, PublishDoes, ProjectDoes, ReleaseDoes, LockDoes, WithdrawDoes, ConfigureRowDoes, DisposeAtStartupDoes, ReprojectDoes, SettleDoes, SubmitDoes, StartRollbackDoes, StartAgentDoes
<1>11. \/ ws' = ws \/ Drift
        \/ op.pc \in {"prepare", "vacate", "fill", "undo", "regenerate", "configure", 
                "idle"}
  BY <1>0, Writers, PrepareConflictDoes, VacateDoes, FillDoes, UndoSwapDoes, RegenerateDoes, ConfigureDoes, FaultDoes
<1> QED
  BY <1>1, <1>2, <1>3, <1>4, <1>5, <1>6, <1>7, <1>8, <1>9, <1>10, <1>11

----------------------------------------------------------------------------
(* How journals turn. *)

\* How a journal's state turns.
StateTurns(i) ==
    \/ op.pc = "stage" /\ State(i) = "NONE" /\ State(i)' = "PREPARING"
    \/ op.pc = "promoting" /\ State(i) = "PREPARING" /\ State(i)' = "PROMOTING" /\ op'.pc = "vacate"
    \/ /\ op.pc = "pendingDb" /\ State(i) = "PROMOTING" /\ State(i)' = "PROMOTED_PENDING_DB"
       /\ op'.pc \in {"final", "append"}
    \/ /\ op.pc = "acknowledge" /\ State(i) = "PROMOTED_PENDING_DB" /\ State(i)' = "ACKNOWLEDGED"
       /\ op'.pc = "retention"
    \/ /\ op.pc = "cas" /\ i \in Rollback /\ State(i) = "PREPARING" /\ State(i)' = "ROLLED_BACK"
       /\ op'.pc = "withdraw"
    \/ /\ op.pc = "close" /\ State(i) \in {"PREPARING", "PROMOTING"} /\ State(i)' = "ROLLED_BACK"
       /\ op'.pc = op.then
    \/ /\ op.pc = "undo" /\ InSwap(i) /\ State(i)' = "ROLLED_BACK"
       /\ op'.pc = op.then /\ backup[i] = None /\ ws = journal[i].base

LEMMA SwapState ==
    \A i : /\ InSwap(i) <=> State(i) \in {"PROMOTING", "PROMOTED_PENDING_DB"}
           /\ InSwap(i)' <=> State(i)' \in {"PROMOTING", "PROMOTED_PENDING_DB"}
           /\ Settled(i) <=> State(i) = "ACKNOWLEDGED"
           /\ Settled(i)' <=> State(i)' = "ACKNOWLEDGED"
           /\ State(i) = "NONE" => ~InSwap(i)
  BY DEF InSwap, Settled, State

LEMMA JournalKnown ==
    ASSUME TypeOK, NEW i \in Id
    PROVE  /\ journal[i] = None <=> State(i) = "NONE"
           /\ journal[i] # None => journal[i] \in Journals /\ journal[i].base \in Tree
                                   /\ journal[i].target \in Tree /\ State(i) \in JournalStates
<1>1. journal[i] \in Journals \cup {None}
  BY DEF TypeOK
<1> QED
  BY <1>1 DEF State, Journals, JournalStates

LEMMA StatesTurn ==
    ASSUME TypeOK, OpTypes, Knows, PcFits, StateFits, PermitFits, ReceiptsFit, PublishedFits, Next,
           NEW i \in Id
    PROVE  /\ \/ State(i)' = State(i)
              \/ op.id = i /\ op'.id = i /\ StateTurns(i) /\ \A j \in Id \ {i} : State(j)' = State(j)
              \/ /\ op.pc = "journals" /\ i \in startup.todo /\ op' = op
                 /\ State(i) = "PREPARING" /\ State(i)' = "ROLLED_BACK"
           /\ State(i) # "NONE" => /\ journal'[i] # None
                                   /\ journal'[i].base = journal[i].base
                                   /\ journal'[i].target = journal[i].target
<1>0. /\ journal[i] = None <=> State(i) = "NONE"
      /\ InSwap(i) <=> State(i) \in {"PROMOTING", "PROMOTED_PENDING_DB"}
  BY JournalKnown, SwapState
<1>1. CASE journal' = journal
  BY <1>0, <1>1, SameStates
<1>2. CASE Stage
  <2>1. op.pc = "stage" /\ op'.id = op.id /\ State(op.id) = "NONE"
    BY <1>2, StageDoes DEF StateFits, Moves, Becomes, Preparation
  <2> QED
    BY <1>0, <1>2, <2>1, Staged DEF StateTurns, State
<1> DEFINE Of(j, state) == /\ \A k \in Id : State(k)' = IF k = j THEN state ELSE State(k)
                           /\ State(i) # "NONE" => /\ journal'[i] # None
                                                   /\ journal'[i].base = journal[i].base
                                                   /\ journal'[i].target = journal[i].target
<1>3. \A j \in Id : \A state : JournalSet(j, state) => Of(j, state)
  BY <1>0 DEF JournalSet, State
<1> HIDE DEF Of
<1>4. CASE CompareConflict
  <2>1. op.pc = "cas" /\ op.id \in Id /\ State(op.id) = "PREPARING"
    BY <1>4, CompareConflictDoes, Owner DEF StateFits, Comparison
  <2>2. \/ journal' = journal
        \/ op.id \notin Run /\ op'.id = op.id /\ op'.pc = "withdraw" /\ Of(op.id, "ROLLED_BACK")
    BY <1>3, <1>4, <2>1, CompareConflictDoes DEF Moves, Becomes
  <2>3. CASE journal' = journal
    BY <1>1, <2>3
  <2> QED
    BY <2>1, <2>2, <2>3, Someone DEF StateTurns, Of
<1>5. CASE Promoting
  <2>1. /\ op.pc = "promoting" /\ op.id \in Id /\ State(op.id) = "PREPARING" /\ op'.id = op.id
        /\ op'.pc = "vacate"
    BY <1>5, PromotingDoes, Owner DEF StateFits, Comparison, Moves, Becomes
  <2>2. Of(op.id, "PROMOTING")
    BY <1>3, <1>5, <2>1, PromotingDoes
  <2> QED
    BY <2>1, <2>2 DEF StateTurns, Of
<1>6. CASE PendingDatabase
  <2>1. /\ op.pc = "pendingDb" /\ op.id \in Id /\ State(op.id) = "PROMOTING" /\ op'.id = op.id
        /\ op'.pc \in {"final", "append"}
    BY <1>6, PendingDatabaseDoes, Owner DEF StateFits, Swapping, Moves, Becomes
  <2>2. Of(op.id, "PROMOTED_PENDING_DB")
    BY <1>3, <1>6, <2>1, PendingDatabaseDoes
  <2> QED
    BY <2>1, <2>2 DEF StateTurns, Of
<1>7. CASE AcknowledgeJournal
  <2>1. /\ op.pc = "acknowledge" /\ op.id \in Id /\ op'.id = op.id
        /\ State(op.id) \in {"PROMOTED_PENDING_DB", "ACKNOWLEDGED"} /\ op'.pc = "retention"
    BY <1>7, AcknowledgeJournalDoes, Owner DEF StateFits, Acknowledgement, Moves, Becomes
  <2>2. Of(op.id, "ACKNOWLEDGED")
    BY <1>3, <1>7, <2>1, AcknowledgeJournalDoes
  <2> QED
    BY <2>1, <2>2 DEF StateTurns, Of
<1>8. CASE CloseJournal
  <2>1. /\ op.pc = "close" /\ op.id \in Id /\ op'.id = op.id /\ op'.pc = op.then
        /\ State(op.id) \in {"PREPARING", "PROMOTING"}
    BY <1>8, CloseJournalDoes, Owner DEF StateFits, Moves, Becomes
  <2>2. Of(op.id, "ROLLED_BACK")
    BY <1>3, <1>8, <2>1, CloseJournalDoes
  <2> QED
    BY <2>1, <2>2 DEF StateTurns, Of
<1>9. CASE UndoJournal
  <2>1. /\ op.pc = "undo" /\ op.id \in Id /\ InSwap(op.id) /\ backup[op.id] = None
    BY <1>9, UndoJournalDoes, Owner, SwapState DEF StateFits
  <2>2. \/ journal' = journal
        \/ /\ ws = journal[op.id].base /\ Of(op.id, "ROLLED_BACK")
           /\ op'.id = op.id /\ op'.pc = op.then
    BY <1>3, <1>9, <2>1, UndoJournalDoes DEF Moves, Becomes
  <2>3. CASE journal' = journal
    BY <1>1, <2>3
  <2> QED
    BY <1>0, <2>1, <2>2, <2>3 DEF StateTurns, Of
<1>10. CASE \E j \in Id : Examine(j)
  <2>1. PICK j \in Id : Examine(j)
    BY <1>10
  <2>2. \/ journal' = journal
        \/ /\ op.pc = "journals" /\ j \in startup.todo /\ op' = op
           /\ State(j) = "PREPARING" /\ Of(j, "ROLLED_BACK")
    BY <1>3, <2>1, ExamineBegins
  <2>3. CASE journal' = journal
    BY <1>1, <2>3
  <2> QED
    BY <2>2, <2>3 DEF Of
<1> QED
  BY <1>1, <1>2, <1>4, <1>5, <1>6, <1>7, <1>8, <1>9, <1>10, Writers

----------------------------------------------------------------------------
(* How receipts turn. *)

\* How a receipt turns.
ReceiptIs(r, phase, decision, base, final) ==
    /\ receipt'[r] # None /\ Phase(r)' = phase /\ receipt'[r].decision = decision
    /\ receipt'[r].base = base /\ receipt'[r].final = final

Refusals == {"ABORTED", "CONFLICTED", "QUARANTINED"}

ReceiptTurns(r) ==
    \/ /\ op.pc = "admission" /\ ReceiptIs(r, "PENDING_DISPOSITION", op.verdict, op.base, op.base)
       /\ op.verdict \in Refusals /\ op'.pc = "publish"
    \/ /\ op.pc = "record" /\ ReceiptIs(r, "PENDING_PROMOTION", "COMMITTED", op.base, op.tree)
       /\ op'.pc = "stage"
    \/ /\ op.pc = "rejectReceipt" /\ ReceiptIs(r, "PENDING_DISPOSITION", op.verdict, op.base, ws)
       /\ Phase(r) # "TERMINAL" /\ op.verdict \in Refusals /\ op'.pc \in {"rejectReceipt", "publish"}
    \/ /\ op.pc = "final" /\ Accepts(r)
       /\ ReceiptIs(r, Phase(r), "COMMITTED", receipt[r].base, ws)
       /\ op'.pc \in {"append", "undo"}
    \/ /\ op.pc \in {"terminal", "dispose"} /\ receipt[r] # None
       /\ ReceiptIs(r, "TERMINAL", receipt[r].decision, receipt[r].base, receipt[r].final)
       /\ op'.pc \in {"release", "idle"}
    \/ /\ op.pc = "abortReceipt" /\ receipt[r] # None
       /\ ReceiptIs(r, "TERMINAL", "ABORTED", receipt[r].base, receipt[r].base)
       /\ op'.pc \in {"rolled", "publish", "reject"}

RecoveryTurns(r) ==
    \/ /\ op.pc = "dispositions" /\ r \in startup.todo /\ receipt[r] # None
       /\ ReceiptIs(r, "TERMINAL", receipt[r].decision, receipt[r].base, receipt[r].final)
    \/ /\ op.pc = "journals" /\ receipt[r] # None /\ startup.todo = {}
       /\ Phase(r) = "PENDING_PROMOTION" /\ journal[r] = None /\ ws = receipt[r].base
       /\ r \in startup'.rolled
       /\ ReceiptIs(r, "TERMINAL", "ABORTED", receipt[r].base, receipt[r].base)

LEMMA ReceiptsTurn ==
    ASSUME TypeOK, OpTypes, Knows, PcFits, StateFits, PermitFits, ReceiptsFit, PublishedFits, Next,
           NEW r \in Run
    PROVE  \/ /\ receipt'[r] = receipt[r] /\ Phase(r)' = Phase(r)
              /\ Accepts(r)' <=> Accepts(r)
              /\ AwaitsAck(r)' <=> AwaitsAck(r)
           \/ op.id = r /\ ReceiptTurns(r) /\ op'.id \in {r, None}
           \/ op' = op /\ RecoveryTurns(r)
<1> DEFINE Same == receipt'[r] = receipt[r] /\ Phase(r)' = Phase(r)
<1>0. Same => (Accepts(r)' <=> Accepts(r)) /\ (AwaitsAck(r)' <=> AwaitsAck(r))
  BY DEF Accepts, AwaitsAck
<1>1. CASE receipt' = receipt
  BY <1>0, <1>1 DEF Phase
<1> DEFINE Set(s, phase, decision, base, final) ==
              IF s = r THEN ReceiptIs(r, phase, decision, base, final) ELSE Same
<1>2. \A s \in Run : \A phase, decision, base, final :
         ReceiptSet(s, phase, decision, base, final) => Set(s, phase, decision, base, final)
  BY DEF ReceiptSet, ReceiptIs
<1> HIDE DEF Set

<1>3. CASE RecordAdmissionFailure
  <2>1. op.pc = "admission" /\ op.id \in Run /\ op'.id = op.id /\ op'.pc = "publish"
    BY <1>3, RecordAdmissionFailureDoes, OwnerOfRun DEF Moves, Becomes
  <2>2. /\ Set(op.id, "PENDING_DISPOSITION", op.verdict, op.base, op.base)
        /\ op.verdict \in Refusals
    BY <1>2, <1>3, <2>1, RecordAdmissionFailureWrites DEF Refusals
  <2> QED
    BY <1>0, <2>1, <2>2 DEF Set, ReceiptTurns
<1>4. CASE RejectReceipt
  <2>1. /\ op.pc = "rejectReceipt" /\ op.id \in Run /\ op'.id = op.id
        /\ op'.pc \in {"rejectReceipt", "publish"}
    BY <1>4, RejectReceiptDoes, OwnerOfRun DEF Moves, Becomes
  <2>2. \/ receipt' = receipt
        \/ /\ Set(op.id, "PENDING_DISPOSITION", op.verdict, op.base, ws)
           /\ Phase(op.id) # "TERMINAL" /\ op.verdict \in Refusals
    BY <1>2, <1>4, <2>1, RejectReceiptWrites DEF Refusals
  <2> QED
    BY <1>0, <1>1, <2>1, <2>2 DEF Set, ReceiptTurns
<1>5. CASE Dispose
  <2>1. op.pc = "dispose" /\ op.id \in Run /\ op'.id = None /\ op'.pc = "idle"
    BY <1>5, DisposeDoes, OwnerOfRun DEF Idle
  <2>2. \/ receipt' = receipt
        \/ /\ receipt[op.id] # None
           /\ Set(op.id, "TERMINAL", receipt[op.id].decision, receipt[op.id].base, receipt[op.id].final)
    BY <1>2, <1>5, <2>1, DisposeWrites
  <2> QED
    BY <1>0, <1>1, <2>1, <2>2 DEF Set, ReceiptTurns
<1>6. CASE RecordPromotion
  <2>1. op.pc = "record" /\ op.id \in Run /\ op'.id = op.id /\ op'.pc = "stage"
    BY <1>6, RecordPromotionDoes, OwnerOfRun DEF Moves, Becomes
  <2>2. Set(op.id, "PENDING_PROMOTION", "COMMITTED", op.base, op.tree)
    BY <1>2, <1>6, <2>1, RecordPromotionWrites
  <2> QED
    BY <1>0, <2>1, <2>2 DEF Set, ReceiptTurns
<1>7. CASE RecordFinal
  <2>1. op.pc = "final" /\ op'.id = op.id /\ op'.pc \in {"append", "undo"}
    BY <1>7, RecordFinalDoes DEF Moves, Becomes
  <2>2. /\ Set(op.id, Phase(op.id), "COMMITTED", receipt[op.id].base, ws)
        /\ Accepts(op.id)
    BY <1>2, <1>7, RecordFinalWrites DEF Accepts
  <2> QED
    BY <1>0, <2>1, <2>2 DEF Set, ReceiptTurns
<1>8. CASE TerminalReceipt
  <2>1. op.pc = "terminal" /\ op'.id = op.id /\ op'.pc = "release" /\ op.id \in Run
    BY <1>8, TerminalReceiptDoes, OwnerOfRun DEF Moves, Becomes
  <2>2. \/ receipt' = receipt
        \/ /\ receipt[op.id] # None
           /\ Set(op.id, "TERMINAL", receipt[op.id].decision, receipt[op.id].base, receipt[op.id].final)
    BY <1>2, <1>8, <2>1, TerminalReceiptWrites
  <2> QED
    BY <1>0, <1>1, <2>1, <2>2 DEF Set, ReceiptTurns
<1>9. CASE AbortReceipt
  <2>1. op.pc = "abortReceipt" /\ op'.id = op.id /\ op'.pc \in {"rolled", "publish", "reject"} /\ op.id \in Run
    BY <1>9, AbortReceiptDoes, OwnerOfRun DEF Moves, Becomes
  <2>2. \/ receipt' = receipt
        \/ /\ receipt[op.id] # None
           /\ Set(op.id, "TERMINAL", "ABORTED", receipt[op.id].base, receipt[op.id].base)
    BY <1>2, <1>9, <2>1, AbortReceiptWrites
  <2> QED
    BY <1>0, <1>1, <2>1, <2>2 DEF Set, ReceiptTurns
<1>10. CASE \E s \in Run : ScanReceipt(s)
  <2>1. PICK s \in Run : ScanReceipt(s)
    BY <1>10
  <2>2. /\ op.pc = "journals" /\ startup.todo = {} /\ op' = op
        /\ Phase(s) = "PENDING_PROMOTION" /\ journal[s] = None /\ ws = receipt[s].base
        /\ s \in startup'.rolled /\ receipt[s] # None
        /\ Set(s, "TERMINAL", "ABORTED", receipt[s].base, receipt[s].base)
    BY <1>2, <2>1, ScanReceiptDoes, ScanReceiptWrites
  <2> QED
    BY <1>0, <2>2 DEF Set, RecoveryTurns
<1>11. CASE \E s \in Run : DisposeAtStartup(s)
  <2>1. PICK s \in Run : DisposeAtStartup(s)
    BY <1>11
  <2>2. /\ op.pc = "dispositions" /\ op' = op /\ s \in startup.todo
        /\ \/ receipt' = receipt
           \/ /\ receipt[s] # None
              /\ Set(s, "TERMINAL", receipt[s].decision, receipt[s].base, receipt[s].final)
    BY <1>2, <2>1, DisposeAtStartupDoes, DisposeAtStartupWrites
  <2> QED
    BY <1>0, <1>1, <2>2 DEF Set, RecoveryTurns
<1> QED
  BY <1>1, <1>3, <1>4, <1>5, <1>6, <1>7, <1>8, <1>9, <1>10, <1>11, Writers

----------------------------------------------------------------------------
(* How the index of versions turns. *)

\* How the index of versions turns.
Appended ==
    /\ op.pc = "append" /\ op'.pc = "project" /\ op'.id = op.id /\ op.id \in Id
    /\ Len(versions)' = Len(versions) + 1
    /\ \A k \in 1..Len(versions) : versions'[k] = versions[k]
    /\ Latest' = versions'[Len(versions) + 1] /\ Latest'.id = op.id
    /\ Latest'.v = IF op.id \in Run THEN op.tree.v ELSE ws.v

Reverted ==
    /\ op.pc = "revert" /\ op'.pc \in {"abortReceipt", "rolled", "withdraw"} /\ op'.id = op.id
    /\ op.id \in Id /\ Latest.id = op.id
    /\ Len(versions) > 1 /\ Len(versions)' = Len(versions) - 1
    /\ \A k \in 1..(Len(versions) - 1) : versions'[k] = versions[k]

LEMMA IndexTyped ==
    ASSUME TypeOK
    PROVE  /\ Len(versions) \in Nat /\ Len(versions) >= 1 /\ DOMAIN versions = 1..Len(versions)
           /\ Latest \in Versions /\ Latest.id \in Id \cup {Initial} /\ Latest.v \in Content
           /\ \A k \in 1..Len(versions) :
                 versions[k] \in Versions /\ versions[k].id \in Id \cup {Initial}
                 /\ versions[k].v \in Content
<1>1. versions \in Seq(Versions) /\ versions # <<>>
  BY DEF TypeOK
<1>2. Len(versions) \in Nat /\ Len(versions) >= 1 /\ DOMAIN versions = 1..Len(versions)
  BY <1>1
<1>3. \A k \in 1..Len(versions) : versions[k] \in Versions
  BY <1>1
<1> QED
  BY <1>2, <1>3 DEF Latest, Versions

LEMMA CommittedMeans ==
    ASSUME TypeOK
    PROVE  \A i : Committed(i) <=> \E k \in 1..Len(versions) : versions[k].id = i
  BY IndexTyped DEF Committed

LEMMA Appends ==
    ASSUME TypeOK, OpTypes, Knows, PcFits, StateFits, AppendVersion
    PROVE  Appended
<1>1. op.pc = "append" /\ op'.pc = "project" /\ op'.id = op.id /\ op.id \in Id
  BY AppendVersionDoes, Owner DEF Moves, Becomes
<1> DEFINE new == [id |-> op.id, v |-> IF op.id \in Run THEN op.tree.v ELSE ws.v]
<1>2. versions' = Append(versions, new)
  BY AppendVersionDoes
<1>3. versions \in Seq(Versions)
  BY DEF TypeOK
<1>4. new.id = op.id /\ new.v = IF op.id \in Run THEN op.tree.v ELSE ws.v
  OBVIOUS
<1> HIDE DEF new
<1>5. /\ Len(versions') = Len(versions) + 1 /\ versions'[Len(versions) + 1] = new
      /\ \A k \in 1..Len(versions) : versions'[k] = versions[k]
  BY <1>2, <1>3
<1> QED
  BY <1>1, <1>4, <1>5 DEF Appended, Latest

LEMMA Reverts ==
    ASSUME TypeOK, OpTypes, Knows, PcFits, StateFits, VersionsFit, RevertVersion
    PROVE  /\ op.pc = "revert" /\ op'.pc \in {"abortReceipt", "rolled", "withdraw"} /\ op'.id = op.id
           /\ \/ Latest.id # op.id /\ versions' = versions
              \/ Reverted
<1>1. /\ op.pc = "revert" /\ op'.pc \in {"abortReceipt", "rolled", "withdraw"} /\ op'.id = op.id
      /\ op.id \in Id
  BY RevertVersionDoes, Owner DEF Moves, Becomes
<1>2. CASE Latest.id # op.id
  BY <1>1, <1>2, RevertVersionDoes
<1>3. CASE Latest.id = op.id
  <2>1. versions' = SubSeq(versions, 1, Len(versions) - 1)
    BY <1>3, RevertVersionDoes
  <2>2. versions[1].id = Initial /\ Initial \notin Id
    BY Someone DEF VersionsFit
  <2>3. Len(versions) > 1
    BY <1>1, <1>3, <2>2, IndexTyped DEF Latest
  <2>4. versions \in Seq(Versions)
    BY DEF TypeOK
  <2>5. /\ Len(versions') = Len(versions) - 1
        /\ \A k \in 1..(Len(versions) - 1) : versions'[k] = versions[k]
    BY <2>1, <2>3, <2>4
  <2> QED
    BY <1>1, <1>3, <2>3, <2>5 DEF Reverted
<1> QED
  BY <1>1, <1>2, <1>3

LEMMA IndexTurns ==
    ASSUME TypeOK, OpTypes, Knows, PcFits, StateFits, ReceiptsFit, VersionsFit, Next
    PROVE  /\ \/ versions' = versions /\ Latest' = Latest /\ \A i : Committed(i)' <=> Committed(i)
              \/ Appended /\ \A i : Committed(i)' <=> Committed(i) \/ i = op.id
              \/ Reverted /\ \A i : Committed(i)' <=> Committed(i) /\ i # op.id
           /\ \A i : Committed(i)' <=> \E k \in 1..Len(versions') : versions'[k].id = i
<1>1. CASE versions' = versions
  <2>1. \A i : Committed(i)' <=> Committed(i)
    BY <1>1 DEF Committed
  <2> QED
    BY <1>1, <2>1, CommittedMeans DEF Latest
<1>0. versions \in Seq(Versions) /\ versions # <<>>
  BY DEF TypeOK
<1>2. CASE AppendVersion
  <2>1. Appended
    BY <1>2, Appends
  <2>2. DOMAIN versions' = 1..Len(versions')
    BY <1>0, <1>2, AppendVersionDoes
  <2>3. \A i : Committed(i)' <=> \E k \in 1..Len(versions') : versions'[k].id = i
    BY <2>2 DEF Committed
  <2>4. \A i : Committed(i)' <=> Committed(i) \/ i = op.id
    BY <2>1, <2>3, CommittedMeans, IndexTyped DEF Appended
  <2> QED
    BY <2>1, <2>3, <2>4
<1>3. CASE RevertVersion /\ versions' # versions
  <2>1. Reverted
    BY <1>3, Reverts
  <2>2. DOMAIN versions' = 1..Len(versions')
    BY <1>0, <1>3, <2>1, RevertVersionDoes DEF Reverted
  <2>3. \A i : Committed(i)' <=> \E k \in 1..Len(versions') : versions'[k].id = i
    BY <2>2 DEF Committed
  <2>4. \A k \in 1..(Len(versions) - 1) : versions[k].id # op.id
    BY <2>1, IndexTyped DEF Reverted, VersionsFit, Latest
  <2>5. \A i : Committed(i)' <=> Committed(i) /\ i # op.id
    BY <2>1, <2>3, <2>4, CommittedMeans, IndexTyped DEF Reverted, Latest
  <2> QED
    BY <2>1, <2>3, <2>5
<1> QED
  BY <1>1, <1>2, <1>3, Writers

----------------------------------------------------------------------------
(* The index has each version once, accepted but for the last. *)

\* The state of a journal after a step, of an identity that the step computes.
StateAfter(i) == IF journal'[i] = None THEN "NONE" ELSE journal'[i].state

\* The versions of the index, by themselves.
LEMMA IndexFitsKept ==
    ASSUME TypeOK, OpTypes, Knows, PcFits, StateFits, PermitFits, ReceiptsFit, PublishedFits,
           VersionsFit, OpenFits, Next
    PROVE  /\ versions'[1].id = Initial
           /\ \A j, k \in 1..Len(versions') : versions'[j].id = versions'[k].id => j = k
           /\ \A k \in 2..(Len(versions') - 1) : StateAfter(versions'[k].id) = "ACKNOWLEDGED"
<1>0. /\ versions[1].id = Initial /\ Initial \notin Id
      /\ \A j, k \in 1..Len(versions) : versions[j].id = versions[k].id => j = k
      /\ \A k \in 2..(Len(versions) - 1) : State(versions[k].id) = "ACKNOWLEDGED"
      /\ Len(versions) \in Nat /\ Len(versions) >= 1
      /\ \A k \in 1..Len(versions) : versions[k].id \in Id \cup {Initial}
  BY IndexTyped, Someone DEF VersionsFit
<1>1. \A k \in 2..Len(versions) : versions[k].id \in Id
  BY <1>0
<1>2. \A i \in Id : State(i) = "ACKNOWLEDGED" => State(i)' = "ACKNOWLEDGED"
  BY StatesTurn, SwapState DEF StateTurns
<1>8. \A i \in Id : State(i)' = StateAfter(i)
  BY DEF State, StateAfter
<1>3. \A k \in 2..(Len(versions) - 1) : StateAfter(versions[k].id) = "ACKNOWLEDGED"
  BY <1>0, <1>1, <1>2, <1>8
<1>4. CASE versions' = versions
  BY <1>0, <1>3, <1>4
<1>5. CASE Reverted
  <2>1. /\ Len(versions) > 1 /\ Len(versions)' = Len(versions) - 1
        /\ \A k \in 1..(Len(versions) - 1) : versions'[k] = versions[k] /\ k \in 1..Len(versions)
    BY <1>0, <1>5 DEF Reverted
  <2>2. \A k \in 1..Len(versions') : versions'[k].id = versions[k].id /\ k \in 1..Len(versions)
    BY <2>1
  <2>3. \A k \in 2..(Len(versions') - 1) : k \in 1..Len(versions') /\ k \in 2..(Len(versions) - 1)
    BY <1>0, <2>1
  <2>4. 1 \in 1..Len(versions')
    BY <1>0, <2>1
  <2>5. \A j, k \in 1..Len(versions') : versions'[j].id = versions'[k].id => j = k
    BY <1>0, <2>2
  <2>6. \A k \in 2..(Len(versions') - 1) : StateAfter(versions'[k].id) = "ACKNOWLEDGED"
    BY <1>3, <2>2, <2>3
  <2> QED
    BY <1>0, <2>2, <2>4, <2>5, <2>6
<1>6. CASE Appended
  <2>1. State(op.id) = "PROMOTED_PENDING_DB" /\ ~Committed(op.id) /\ op.id # None /\ op.id \in Id
    BY <1>6, Someone DEF Appended, StateFits, Projection, VersionsFit
  <2>2. Open(op.id)
    BY <2>1, SwapState DEF Open
  <2>3. \A k \in 1..Len(versions) : versions[k].id # op.id
    BY <2>1, CommittedMeans
  <2>4. ASSUME Len(versions) > 1
        PROVE  StateAfter(Latest.id) = "ACKNOWLEDGED"
    <3>1. Latest.id \in Id /\ Committed(Latest.id) /\ Latest.id # op.id
      BY <1>0, <1>1, <2>3, <2>4, CommittedMeans DEF Latest
    <3>2. State(Latest.id) \in {"PROMOTED_PENDING_DB", "ACKNOWLEDGED", "ROLLED_BACK"}
      BY <3>1 DEF VersionsFit
    <3>3. ~Open(Latest.id)
      BY <2>1, <2>2, <3>1 DEF OpenFits
    <3>4. State(Latest.id) = "ACKNOWLEDGED"
      BY <3>1, <3>2, <3>3, SwapState DEF Open, Undecided
    <3> QED
      BY <1>2, <1>8, <3>1, <3>4
  <2>5. \A k \in 2..(Len(versions') - 1) : StateAfter(versions'[k].id) = "ACKNOWLEDGED"
    BY <1>0, <1>3, <1>6, <2>4 DEF Appended, Latest
  <2> QED
    BY <1>0, <1>6, <2>3, <2>5 DEF Appended
<1> QED
  BY <1>4, <1>5, <1>6, IndexTurns

\* ... and with the journals.
LEMMA CommittedFitsKept ==
    ASSUME TypeOK, OpTypes, Knows, PcFits, StateFits, PermitFits, ReceiptsFit, PublishedFits,
           VersionsFit, OpenFits, Next, NEW i \in Id
    PROVE  /\ State(i)' = "ACKNOWLEDGED" => Committed(i)'
           /\ Committed(i)' => State(i)' \in {"PROMOTED_PENDING_DB", "ACKNOWLEDGED", "ROLLED_BACK"}
<1>0. /\ State(i) = "ACKNOWLEDGED" => Committed(i)
      /\ Committed(i) => State(i) \in {"PROMOTED_PENDING_DB", "ACKNOWLEDGED", "ROLLED_BACK"}
      /\ op.id # None /\ op.pc \in {"project"} \cup Acknowledgement => Committed(op.id)
  BY DEF VersionsFit
<1>1. i # None
  BY Someone
<1>2. CASE versions' = versions
  <2>1. Committed(i)' <=> Committed(i)
    BY <1>2 DEF Committed
  <2>2. op.id = i /\ op.pc = "acknowledge" => Committed(i)
    BY <1>0, <1>1 DEF Acknowledgement
  <2> QED
    BY <1>0, <2>1, <2>2, StatesTurn, SwapState DEF StateTurns
<1>3. CASE Appended
  <2>1. (Committed(i)' <=> Committed(i) \/ i = op.id) /\ op.pc = "append"
    BY <1>3, IndexTurns, IndexTyped DEF Appended, Reverted
  <2>2. State(op.id) = "PROMOTED_PENDING_DB"
    BY <2>1 DEF StateFits, Projection
  <2> QED
    BY <1>0, <2>1, <2>2, StatesTurn DEF StateTurns
<1>4. CASE Reverted
  <2>1. (Committed(i)' <=> Committed(i) /\ i # op.id) /\ op.pc = "revert"
    BY <1>4, IndexTurns, IndexTyped DEF Appended, Reverted
  <2>2. State(op.id) = "ROLLED_BACK"
    BY <2>1 DEF StateFits
  <2> QED
    BY <1>0, <2>1, <2>2, StatesTurn DEF StateTurns
<1> QED
  BY <1>2, <1>3, <1>4, IndexTurns

----------------------------------------------------------------------------
(* The index and the operation in progress. *)

\* Where an operation comes from when its journal is being taken back or it is refused.
LEMMA TakesBack ==
    ASSUME TypeOK, OpTypes, Knows, PcFits, StateFits, ReceiptsFit, Next
    PROVE  /\ \/ op'.pc \notin Refusal
              \/ Stays
              \/ /\ op'.id = op.id
                 /\ \/ op.pc \in Admission \cup Preparation \cup Comparison \cup Swapping
                                   \cup {"regenerate", "close", "abortReceipt"} \cup Refusal
                    \/ op.pc = "publish" /\ op'.pc = "dispose"
                    \/ op.pc = "undo" /\ op.then \in {"reject", "withdraw"} /\ op'.pc = op.then
                    \/ op.pc = "revert" /\ op'.pc = "withdraw" /\ RevertVersion
           /\ \/ op'.pc # "undo"
              \/ Stays
              \/ op'.then = "revert"
              \/ op'.id = op.id /\ op.pc \in Swapping \cup {"final", "append"}
<1>1. ASSUME op'.pc \in Refusal, ~Stays
      PROVE  /\ op'.id = op.id
             /\ \/ op.pc \in Admission \cup Preparation \cup Comparison \cup Swapping
                               \cup {"regenerate", "close", "abortReceipt"} \cup Refusal
                \/ op.pc = "publish" /\ op'.pc = "dispose"
                \/ op.pc = "undo" /\ op.then \in {"reject", "withdraw"} /\ op'.pc = op.then
                \/ op.pc = "revert" /\ op'.pc = "withdraw" /\ RevertVersion
  <2>1. CASE Fault
    <3>1. op'.pc # "idle"
      BY <1>1 DEF Refusal
    <3>2. op.pc = "close" => op.then \in {"reject", "withdraw"}
      BY DEF Knows
    <3>3. FaultEarly \/ FaultInSwap \/ FaultLate
      BY <2>1, <3>1, FaultDoes DEF Idle
    <3>4. FaultEarly => op'.id = op.id /\ op.pc \in Admission \cup Preparation \cup Comparison \cup {"regenerate"}
      BY DEF FaultEarly, Becomes, Moves, Admission, Preparation, Comparison
    <3>5. FaultInSwap => op'.id = op.id /\ op.pc = "close"
      BY <1>1, <3>2 DEF FaultInSwap, Becomes, Moves, Refusal
    <3>6. FaultLate => op'.id = op.id /\ op.pc = "rejectReceipt"
      BY <1>1 DEF FaultLate, Becomes, Moves, Refusal
    <3> QED
      BY <3>3, <3>4, <3>5, <3>6 DEF Refusal
  <2>2. CASE UndoJournal
    BY <1>1, <2>2, UndoJournalDoes DEF Knows, Moves, Becomes, LeftToAnAdministrator, Begins, Refusal
  <2>3. CASE RevertVersion
    BY <1>1, <2>3, RevertVersionDoes DEF Moves, Becomes, Refusal
  <2>4. CASE CompareConflict \/ CloseJournal \/ AbortReceipt
    BY <2>4, CompareConflictDoes, CloseJournalDoes, AbortReceiptDoes DEF Moves, Becomes, Comparison
  <2>5. CASE AgentEnds \/ SealRefuses \/ Verify
    BY <2>5, AgentEndsDoes, SealRefusesDoes, VerifyDoes DEF Becomes, Moves, Admission
  <2>6. CASE Reject \/ Publish
    BY <1>1, <2>6, RejectDoes, PublishDoes DEF Becomes, Moves, Refusal, Idle
  <2> QED
    BY <1>1, <2>1, <2>2, <2>3, <2>4, <2>5, <2>6, Arrivals DEF Refusal
<1>2. ASSUME op'.pc = "undo", ~Stays
      PROVE  op'.then = "revert" \/ (op'.id = op.id /\ op.pc \in Swapping \cup {"final", "append"})
  <2>1. CASE Fault
    <3>1. op.pc = "close" => op.then \in {"reject", "withdraw"}
      BY DEF Knows
    <3>2. FaultInSwap
      BY <1>2, <2>1, FaultDoes DEF Idle, FaultEarly, FaultLate, Becomes, Moves
    <3> QED
      BY <1>2, <3>1, <3>2 DEF FaultInSwap, Becomes, Moves, Swapping
  <2>2. CASE RecordFinal
    BY <1>2, <2>2, RecordFinalDoes DEF Becomes, Moves
  <2>3. CASE \E i \in Id : Examine(i)
    <3>1. PICK i \in Id : Examine(i)
      BY <2>3
    <3>2. op' = op => op.pc = "journals"
      BY <3>1, ExamineBegins
    <3> QED
      BY <1>2, <3>1, <3>2, ExamineDoes DEF Begins
  <2> QED
    BY <1>2, <2>1, <2>2, <2>3, Arrivals
<1> QED
  BY <1>1, <1>2

\* What an operation knows of its version.
LEMMA KnownVersionKept ==
    ASSUME TypeOK, OpTypes, Knows, PcFits, StateFits, PermitFits, ReceiptsFit, PublishedFits,
           VersionsFit, OpenFits, Next, NEW i \in Id, op'.id = i
    PROVE  /\ op'.pc \in {"final", "append", "abortReceipt", "rolled"} \cup Refusal => ~Committed(i)'
           /\ op'.pc \in {"project"} \cup Acknowledgement => Committed(i)'
           /\ op'.pc = "undo" /\ op'.then \in {"reject", "withdraw"} => ~Committed(i)'
<1>1. i # None
  BY Someone
<1>2. /\ State(i) = "ACKNOWLEDGED" => Committed(i)
      /\ Committed(i) => State(i) \in {"PROMOTED_PENDING_DB", "ACKNOWLEDGED", "ROLLED_BACK"}
  BY DEF VersionsFit
<1>3. \/ versions' = versions /\ (Committed(i)' <=> Committed(i))
      \/ op.pc = "append" /\ op'.pc = "project" /\ op.id = i /\ Committed(i)'
      \/ /\ op.pc = "revert" /\ op'.pc \in {"abortReceipt", "rolled", "withdraw"} /\ op.id = i
         /\ ~Committed(i)'
  BY IndexTurns DEF Appended, Reverted
<1>4. op.id = i /\ op.pc \in Admission \cup Preparation \cup Comparison \cup Swapping \cup {"regenerate", "close"}
        => ~Committed(i)
  <2>1. op.id = i /\ op.pc \in Admission \cup Preparation \cup Comparison \cup Swapping \cup {"regenerate", "close"}
          => State(i) \in {"NONE", "PREPARING", "PROMOTING"}
    BY DEF StateFits
  <2> QED
    BY <1>2, <2>1
<1>5. op.id = i => /\ op.pc \in {"final", "append", "abortReceipt", "rolled"} \cup Refusal => ~Committed(i)
                   /\ op.pc \in {"project"} \cup Acknowledgement => Committed(i)
                   /\ op.pc = "undo" /\ op.then \in {"reject", "withdraw"} => ~Committed(i)
  BY <1>1 DEF VersionsFit
<1>6. op.id = i /\ op.pc \in Cleanup => Committed(i)
  BY <1>2 DEF StateFits
<1>7. RevertVersion => op.id = i /\ ~Committed(i)'
  <2>1. SUFFICES ASSUME RevertVersion PROVE op.id = i /\ ~Committed(i)'
    OBVIOUS
  <2>2. op.pc = "revert" /\ op.id = i /\ State(i) = "ROLLED_BACK"
    BY <2>1, Reverts DEF StateFits
  <2>3. Latest.id # i => ~Committed(i)
    <3>1. SUFFICES ASSUME Latest.id # i, Committed(i) PROVE FALSE
      OBVIOUS
    <3>2. PICK k \in 1..Len(versions) : versions[k].id = i
      BY <3>1, CommittedMeans
    <3>3. k # Len(versions) /\ k # 1
      BY <3>1, <3>2, Someone DEF Latest, VersionsFit
    <3>0. Len(versions) \in Nat
      BY IndexTyped
    <3>4. k \in 2..(Len(versions) - 1)
      BY <3>0, <3>2, <3>3
    <3>5. State(versions[k].id) = "ACKNOWLEDGED"
      BY <3>4 DEF VersionsFit
    <3> QED
      BY <2>2, <3>2, <3>5
  <2>4. Reverted => versions' # versions
    BY IndexTyped DEF Reverted
  <2>5. Latest.id # op.id \/ Reverted
    BY <2>1, Reverts
  <2> QED
    BY <1>3, <2>2, <2>3, <2>4, <2>5
<1>8. op'.pc \in {"final", "append"} => ~Committed(i)'
  <2>1. PendingDatabase => op.id = i /\ op.pc = "pendingDb"
    BY PendingDatabaseDoes DEF Moves, Becomes
  <2>2. RecordFinal => op.id = i /\ op.pc = "final"
    BY RecordFinalDoes DEF Moves, Becomes
  <2>3. op'.pc \in {"final", "append"} => op.id = i /\ op.pc \in {"pendingDb", "final", "append"}
    BY <2>1, <2>2, Arrivals DEF Stays
  <2> QED
    BY <1>3, <1>4, <1>5, <2>3 DEF Swapping
<1>9. op'.pc \in {"abortReceipt", "rolled"} => ~Committed(i)'
  <2>1. AbortReceipt => op.id = i /\ op.pc = "abortReceipt"
    BY AbortReceiptDoes DEF Moves, Becomes
  <2> QED
    BY <1>3, <1>5, <1>7, <2>1, Arrivals DEF Stays
<1>10. op'.pc \in Refusal => ~Committed(i)'
  <2>1. CASE Stays
    BY <1>3, <1>5, <2>1 DEF Stays, Refusal
  <2>2. CASE op.pc = "publish" /\ op'.pc = "dispose"
    <3>1. Publish
      BY <2>2, Arrivals DEF Stays
    <3>2. op.id = i /\ Phase(i) = "PENDING_DISPOSITION" /\ i \in Run
      BY <2>2, <3>1, PublishDoes, OwnerOfRun DEF Moves, Becomes, Idle
    <3>3. receipt[i] # None /\ ~Accepts(i)
      BY <3>2 DEF ReceiptsFit, Phase
    <3> QED
      BY <1>3, <2>2, <3>2, <3>3 DEF ReceiptsFit
  <2>3. ASSUME op'.pc \in Refusal PROVE ~(op.pc = "append" /\ op'.pc = "project")
    BY <2>3 DEF Refusal
  <2>4. ASSUME op'.pc \in Refusal, ~Stays, ~(op.pc = "publish" /\ op'.pc = "dispose"), ~RevertVersion
        PROVE  op.id = i /\ ~Committed(i)
    BY <1>4, <1>5, <2>4, TakesBack
  <2> QED
    BY <1>3, <1>7, <2>1, <2>2, <2>3, <2>4
<1>11. op'.pc \in {"project"} \cup Acknowledgement => Committed(i)'
  <2>1. AppendVersion => Committed(i)'
    <3>1. SUFFICES ASSUME AppendVersion PROVE Committed(i)'
      OBVIOUS
    <3>2. Len(versions) \in Nat
      BY IndexTyped
    <3>3. Len(versions)' = Len(versions) + 1 /\ op.pc = "append"
      BY <3>1, Appends DEF Appended
    <3>4. versions' # versions
      BY <3>2, <3>3
    <3> QED
      BY <1>3, <3>3, <3>4
  <2>2. Project \/ DropBackup => op.id = i /\ op.pc \in {"project", "dropBackup"}
    BY ProjectDoes, DropBackupDoes DEF Moves, Becomes
  <2>3. ASSUME NEW j \in Id, Examine(j), op'.pc = "dropBackup"
        PROVE  Committed(i) /\ op.pc = "journals"
    <3>1. op' = op => op.pc = "journals"
      BY <2>3, ExamineBegins
    <3>2. Begins(j, "dropBackup", "revert") /\ DatabaseCommitted(j) /\ op.pc = "journals"
      BY <2>3, <3>1, ExamineDoes DEF Begins
    <3> QED
      BY <3>2, IndexTyped, CommittedMeans DEF Begins, DatabaseCommitted, Latest
  <2>4. Fault /\ op'.pc = "dropBackup" => op.id = i /\ op.pc \in Acknowledgement \cup Cleanup
    <3>1. op.pc = "close" => op.then \in {"reject", "withdraw"}
      BY DEF Knows
    <3> QED
      BY <3>1, FaultDoes DEF Idle, FaultEarly, FaultInSwap, FaultLate, Becomes, Moves, Acknowledgement, Cleanup
  <2>5. Stays /\ op'.pc \in {"project"} \cup Acknowledgement => Committed(i)'
    BY <1>3, <1>5 DEF Stays, Acknowledgement
  <2>6. op'.pc \in {"project"} \cup Acknowledgement => ~(op.pc = "revert" /\ op'.pc \in {"abortReceipt", "rolled", "withdraw"})
    BY DEF Acknowledgement
  <2>7. op'.pc = "project" => Committed(i)'
    BY <1>3, <2>1, <2>5, Arrivals
  <2>8. op'.pc = "dropBackup" => Committed(i)'
    <3>1. CASE Project
      BY <1>3, <1>5, <2>2, <3>1 DEF Acknowledgement
    <3>2. CASE \E j \in Id : Examine(j)
      BY <1>3, <2>3, <3>2
    <3>3. CASE Fault
      BY <1>3, <1>5, <1>6, <2>4, <3>3 DEF Acknowledgement, Cleanup
    <3> QED
      BY <2>5, <3>1, <3>2, <3>3, Arrivals DEF Acknowledgement
  <2>9. op'.pc = "acknowledge" => Committed(i)'
    BY <1>3, <1>5, <2>2, <2>5, Arrivals DEF Acknowledgement
  <2> QED
    BY <2>7, <2>8, <2>9 DEF Acknowledgement
<1>12. op'.pc = "undo" /\ op'.then \in {"reject", "withdraw"} => ~Committed(i)'
  BY <1>3, <1>4, <1>5, TakesBack DEF Stays
<1> QED
  BY <1>8, <1>9, <1>10, <1>11, <1>12

LEMMA VersionsFitKept ==
    ASSUME TypeOK, OpTypes, Knows, PcFits, StateFits, PermitFits, ReceiptsFit, PublishedFits,
           VersionsFit, OpenFits, TypeOK', Next
    PROVE  VersionsFit'
<1>1. \A i \in Id : State(i)' = StateAfter(i)
  BY DEF State, StateAfter
<1>2. DOMAIN versions' = 1..Len(versions')
  BY DEF TypeOK
<1>3. op'.id \in Id \cup {None}
  BY DEF TypeOK
<1>4. \A k \in 2..(Len(versions') - 1) : IF journal'[versions'[k].id] = None THEN FALSE
                                        ELSE journal'[versions'[k].id].state = "ACKNOWLEDGED"
  BY IndexFitsKept DEF StateAfter
<1>5. op'.id # None =>
         /\ op'.pc \in {"final", "append", "abortReceipt", "rolled"} \cup Refusal => ~Committed(op.id)'
         /\ op'.pc \in {"project"} \cup Acknowledgement => Committed(op.id)'
         /\ op'.pc = "undo" /\ op'.then \in {"reject", "withdraw"} => ~Committed(op.id)'
  BY <1>3, KnownVersionKept DEF Committed
<1>6. /\ versions'[1].id = Initial
      /\ \A j, k \in DOMAIN versions' : versions'[j].id = versions'[k].id => j = k
  BY <1>2, IndexFitsKept
<1>7. \A i \in Id :
         /\ State(i)' = "ACKNOWLEDGED" => Committed(i)'
         /\ Committed(i)' => State(i)' \in {"PROMOTED_PENDING_DB", "ACKNOWLEDGED", "ROLLED_BACK"}
  BY CommittedFitsKept
<1> QED
  BY <1>4, <1>5, <1>6, <1>7 DEF VersionsFit, State

----------------------------------------------------------------------------
(* How the report of a recovery turns. *)

\* How the report of startup recovery turns.
ReportTurns ==
    \/ startup' = NoReport /\ op' = Idle /\ up' \in {"up", "down"}
    \/ /\ up = "down" /\ op'.pc = "journals" /\ up' = "starting"
       /\ startup'.todo = {i \in Id : journal[i] # None} /\ startup'.rolled = {}
       /\ startup'.acked = {} /\ startup'.manual = "no"
    \/ /\ op.pc = "journals" /\ op' = op
       /\ \E i \in startup.todo :
              /\ startup'.todo = startup.todo \ {i} /\ State(i) = "PREPARING"
              /\ State(i)' = "ROLLED_BACK"
       /\ startup'.rolled = startup.rolled /\ startup'.acked = startup.acked
       /\ startup'.manual = startup.manual
    \/ /\ op.id # None /\ op'.pc = "journals" /\ startup'.todo = startup.todo \ {op.id}
       /\ startup'.rolled = startup.rolled /\ startup'.acked = startup.acked
       /\ startup'.manual # "no"
    \/ /\ op.pc = "release" /\ op'.pc = "journals" /\ startup'.todo = startup.todo \ {op.id}
       /\ startup'.rolled = startup.rolled /\ startup'.acked = startup.acked \cup {op.id}
       /\ startup'.manual = startup.manual
    \/ /\ op.pc = "rolled" /\ op'.pc = "journals" /\ startup'.todo = startup.todo \ {op.id}
       /\ startup'.rolled = startup.rolled \cup {op.id} /\ startup'.acked = startup.acked
       /\ startup'.manual = startup.manual
    \/ /\ op.pc = "journals" /\ op' = op /\ startup'.todo = startup.todo /\ startup.todo = {}
       /\ \E r \in Run :
              /\ startup'.rolled = startup.rolled \cup {r} /\ Phase(r) = "PENDING_PROMOTION"
              /\ journal[r] = None /\ Phase(r)' = "TERMINAL"
       /\ startup'.acked = startup.acked /\ startup'.manual = startup.manual
    \/ /\ op.pc = "dispositions" /\ op' = op
       /\ \E r \in startup.todo :
              /\ startup'.todo = startup.todo \ {r}
              /\ \A s \in Run \ {r} : receipt'[s] = receipt[s]
       /\ startup'.rolled = startup.rolled /\ startup'.acked = startup.acked
       /\ startup'.manual = startup.manual
    \/ /\ op.pc = "journals" /\ op'.pc = "settle" /\ startup.todo = {} /\ startup'.todo = {}
       /\ startup'.rolled = startup.rolled /\ startup'.acked = startup.acked
       /\ startup.manual # "no" => startup'.manual = startup.manual
    \/ /\ op.pc = "settle" /\ op'.pc = "dispositions"
       /\ startup'.todo = {r \in Run : Phase(r) = "PENDING_DISPOSITION"}
       /\ startup'.rolled = startup.rolled /\ startup'.acked = startup.acked
       /\ startup'.manual = startup.manual

LEMMA ReportsTurn ==
    ASSUME TypeOK, OpTypes, Knows, PcFits, StateFits, PermitFits, ReceiptsFit, PublishedFits, Next
    PROVE  startup' = startup \/ ReportTurns
<1>1. CASE UndoJournal
  BY <1>1, UndoJournalDoes, Owner DEF LeftToAnAdministrator, Begins, ReportTurns
<1>2. CASE \E i \in Id : Examine(i)
  <2>1. PICK i \in Id : Examine(i)
    BY <1>2
  <2>2. i \in startup.todo /\ op.pc = "journals"
    BY <2>1, ExamineBegins
  <2>3. CASE op' = op /\ State(i) = "PREPARING" /\ JournalSet(i, "ROLLED_BACK") /\ startup' # startup
    BY <2>1, <2>2, <2>3, ExamineDoes DEF JournalSet, ReportTurns
  <2> QED
    BY <2>1, <2>3, ExamineBegins
<1>3. CASE Acknowledged
  BY <1>3, AcknowledgedDoes DEF Begins, ReportTurns
<1>4. CASE RolledBack
  BY <1>4, RolledBackDoes DEF Begins, ReportTurns
<1>5. CASE \E r \in Run : ScanReceipt(r)
  <2>1. PICK r \in Run : ScanReceipt(r)
    BY <1>5
  <2>2. Phase(r)' = "TERMINAL"
    BY <2>1, ScanReceiptWrites DEF ReceiptSet
  <2> QED
    BY <2>1, <2>2, ScanReceiptDoes DEF ReportTurns
<1>6. CASE \E r \in Run : DisposeAtStartup(r)
  <2>1. PICK r \in Run : DisposeAtStartup(r)
    BY <1>6
  <2>2. \A s \in Run \ {r} : receipt'[s] = receipt[s]
    BY <2>1, DisposeAtStartupWrites DEF ReceiptSet
  <2> QED
    BY <2>1, <2>2, DisposeAtStartupDoes DEF ReportTurns
<1>7. CASE Reproject
  BY <1>7, ReprojectDoes DEF Moves, Becomes, ReportTurns
<1>8. CASE Settle
  BY <1>8, SettleDoes DEF Moves, Becomes, ReportTurns
<1>9. CASE Serve \/ Crash
  BY <1>9, ServeDoes, CrashDoes DEF ReportTurns
<1>10. CASE Start
  BY <1>10, StartDoes DEF Begins, ReportTurns
<1>11. CASE FaultAtStartup
  BY <1>11, FaultAtStartupDoes DEF LeftToAnAdministrator, Begins, ReportTurns
<1> QED
  BY <1>1, <1>2, <1>3, <1>4, <1>5, <1>6, <1>7, <1>8, <1>9, <1>10, <1>11, Writers

----------------------------------------------------------------------------
(* Receipts and journals agree. *)

LEMMA PhaseKnown ==
    ASSUME TypeOK, NEW r \in Run
    PROVE  /\ receipt[r] = None <=> Phase(r) = "NONE"
           /\ receipt[r] # None => receipt[r] \in Receipts /\ Phase(r) = receipt[r].phase
                                   /\ receipt[r].base \in Tree /\ receipt[r].final \in Tree \cup {None}
           /\ Accepts(r) <=> receipt[r] # None /\ receipt[r].decision = "COMMITTED"
           /\ AwaitsAck(r) <=> Phase(r) = "PENDING_PROMOTION" /\ Accepts(r)
<1>1. receipt[r] \in Receipts \cup {None}
  BY DEF TypeOK
<1> QED
  BY <1>1 DEF Phase, Receipts, Accepts, AwaitsAck

\* Receipts, journals and the index, of one run.
LEMMA ReceiptFitsKept ==
    ASSUME TypeOK, OpTypes, Knows, PcFits, StateFits, PermitFits, ReceiptsFit, PublishedFits,
           VersionsFit, OpenFits, Next, NEW r \in Run
    PROVE  /\ Phase(r)' = "PENDING_PROMOTION" => Accepts(r)'
           /\ Phase(r)' = "PENDING_DISPOSITION" => ~Accepts(r)'
           /\ Phase(r)' = "TERMINAL" /\ Accepts(r)' => State(r)' = "ACKNOWLEDGED"
           /\ InSwap(r)' \/ State(r)' = "ACKNOWLEDGED" => Accepts(r)'
           /\ Committed(r)' => Accepts(r)'
<1>0. /\ Phase(r) = "PENDING_PROMOTION" => Accepts(r)
      /\ Phase(r) = "PENDING_DISPOSITION" => ~Accepts(r)
      /\ Phase(r) = "TERMINAL" /\ Accepts(r) => State(r) = "ACKNOWLEDGED"
      /\ InSwap(r) \/ State(r) = "ACKNOWLEDGED" => Accepts(r)
      /\ Committed(r) => Accepts(r)
      /\ InSwap(r) <=> State(r) \in {"PROMOTING", "PROMOTED_PENDING_DB"}
      /\ InSwap(r)' <=> State(r)' \in {"PROMOTING", "PROMOTED_PENDING_DB"}
      /\ r \in Id /\ r # None
  BY SwapState, Someone DEF ReceiptsFit
<1>1. /\ Accepts(r) <=> receipt[r] # None /\ receipt[r].decision = "COMMITTED"
      /\ Accepts(r)' <=> receipt'[r] # None /\ receipt'[r].decision = "COMMITTED"
      /\ AwaitsAck(r) <=> Phase(r) = "PENDING_PROMOTION" /\ Accepts(r)
  BY PhaseKnown DEF Accepts
<1>2. \/ versions' = versions /\ (Committed(r)' <=> Committed(r))
      \/ op.pc = "append" /\ (Committed(r)' <=> Committed(r) \/ op.id = r)
      \/ op.pc = "revert" /\ (Committed(r)' => Committed(r))
  BY IndexTurns DEF Appended, Reverted
<1>3. CASE op.id = r /\ ReceiptTurns(r)
  <2>1. State(r)' = State(r)
    BY <1>0, <1>3, StatesTurn DEF ReceiptTurns, StateTurns
  <2>2. op.pc # "append" /\ op.pc # "revert"
    BY <1>3 DEF ReceiptTurns
  <2>3. CASE op.pc \in {"admission", "record"}
    <3>1. State(r) = "NONE"
      BY <1>3, <2>3 DEF StateFits, Admission, Preparation
    <3>2. ~Committed(r)
      BY <1>0, <3>1 DEF VersionsFit
    <3> QED
      BY <1>0, <1>1, <1>2, <1>3, <2>1, <2>2, <2>3, <3>1, <3>2 DEF ReceiptTurns, ReceiptIs, Refusals
  <2>4. CASE op.pc = "rejectReceipt"
    <3>1. State(r) \in {"NONE", "PREPARING", "ROLLED_BACK"}
      BY <1>3, <2>4 DEF StateFits, Refusal
    <3>2. ~Committed(r)
      BY <1>0, <1>3, <2>4 DEF VersionsFit, Refusal
    <3> QED
      BY <1>0, <1>1, <1>2, <1>3, <2>1, <2>2, <2>4, <3>1, <3>2 DEF ReceiptTurns, ReceiptIs, Refusals
  <2>5. CASE op.pc = "final"
    BY <1>0, <1>1, <1>2, <1>3, <2>1, <2>2, <2>5 DEF ReceiptTurns, ReceiptIs
  <2>6. CASE op.pc = "terminal"
    <3>1. State(r) = "ACKNOWLEDGED"
      BY <1>3, <2>6 DEF StateFits, Cleanup
    <3> QED
      BY <1>0, <1>1, <1>2, <1>3, <2>1, <2>2, <2>6, <3>1 DEF ReceiptTurns, ReceiptIs
  <2>7. CASE op.pc = "dispose"
    <3>1. Phase(r) = "PENDING_DISPOSITION"
      BY <1>3, <2>7 DEF ReceiptsFit
    <3> QED
      BY <1>0, <1>1, <1>2, <1>3, <2>1, <2>2, <2>7, <3>1 DEF ReceiptTurns, ReceiptIs
  <2>8. CASE op.pc = "abortReceipt"
    <3>1. State(r) = "ROLLED_BACK"
      BY <1>3, <2>8 DEF StateFits
    <3>2. ~Committed(r)
      BY <1>0, <1>3, <2>8 DEF VersionsFit
    <3> QED
      BY <1>0, <1>1, <1>2, <1>3, <2>1, <2>2, <2>8, <3>1, <3>2 DEF ReceiptTurns, ReceiptIs
  <2> QED
    BY <1>3, <2>3, <2>4, <2>5, <2>6, <2>7, <2>8 DEF ReceiptTurns
<1>4. CASE op' = op /\ RecoveryTurns(r)
  <2>1. op.pc \in {"journals", "dispositions"}
    BY <1>4 DEF RecoveryTurns
  <2>2. op.id = None
    BY <2>1, OwnerOfNobody
  <2>3. State(r)' = State(r) \/ State(r)' = "ROLLED_BACK"
    BY <1>0, <2>2, StatesTurn
  <2>4. CASE op.pc = "dispositions"
    <3>1. Phase(r) = "PENDING_DISPOSITION"
      BY <1>4, <2>4 DEF ReceiptsFit, RecoveryTurns
    <3> QED
      BY <1>0, <1>1, <1>2, <1>4, <2>3, <2>4, <3>1 DEF RecoveryTurns, ReceiptIs
  <2>5. CASE op.pc = "journals"
    <3>1. State(r) = "NONE"
      BY <1>4, <2>5 DEF RecoveryTurns, State
    <3>2. ~Committed(r)
      BY <1>0, <3>1 DEF VersionsFit
    <3> QED
      BY <1>0, <1>1, <1>2, <1>4, <2>3, <2>5, <3>1, <3>2 DEF RecoveryTurns, ReceiptIs
  <2> QED
    BY <2>1, <2>4, <2>5
<1>5. CASE receipt'[r] = receipt[r] /\ Phase(r)' = Phase(r) /\ (Accepts(r)' <=> Accepts(r))
  <2>1. op.id = r /\ op.pc = "append" => Accepts(r)
    BY <1>0 DEF StateFits, Projection
  <2>2. op.id = r /\ op.pc = "promoting" => Accepts(r)
    BY <1>0, <1>1 DEF ReceiptsFit, Comparison
  <2>3. op.id = r /\ StateTurns(r) /\ State(r)' \in {"PROMOTING", "PROMOTED_PENDING_DB", "ACKNOWLEDGED"} => Accepts(r)
    BY <1>0, <2>2 DEF StateTurns
  <2>4. State(r) = "ACKNOWLEDGED" => State(r)' = "ACKNOWLEDGED"
    BY <1>0, StatesTurn DEF StateTurns
  <2>5. InSwap(r)' \/ State(r)' = "ACKNOWLEDGED" => Accepts(r)
    BY <1>0, <2>3, StatesTurn
  <2> QED
    BY <1>0, <1>2, <1>5, <2>1, <2>4, <2>5
<1> QED
  BY <1>3, <1>4, <1>5, ReceiptsTurn

\* What an operation knows of its receipt.
LEMMA KnownReceiptKept ==
    ASSUME TypeOK, OpTypes, Knows, PcFits, StateFits, PermitFits, ReceiptsFit, PublishedFits,
           VersionsFit, OpenFits, Next, NEW r \in Run, op'.id = r
    PROVE  /\ op'.pc \in Admission \cup {"issue", "claim", "record"} => receipt'[r] = None
           /\ op'.pc \in {"stage"} \cup Comparison => AwaitsAck(r)'
           /\ op'.pc = "publish" /\ op'.outcome = "decided" => receipt'[r] # None /\ ~Accepts(r)'
           /\ op'.pc = "release" => Phase(r)' = "TERMINAL"
           /\ op'.pc = "dispose" => Phase(r)' = "PENDING_DISPOSITION"
<1>0. r \in Id /\ r # None /\ r \notin Rollback
  BY Someone
<1>1. op.id = r =>
         /\ op.pc \in Admission \cup {"issue", "claim", "record"} => receipt[r] = None
         /\ op.pc \in {"stage"} \cup Comparison => AwaitsAck(r)
         /\ op.pc = "publish" /\ op.outcome = "decided" => receipt[r] # None /\ ~Accepts(r)
         /\ op.pc = "release" => Phase(r) = "TERMINAL"
         /\ op.pc = "dispose" => Phase(r) = "PENDING_DISPOSITION"
  BY DEF ReceiptsFit
<1> DEFINE Same == receipt'[r] = receipt[r] /\ Phase(r)' = Phase(r) /\ (Accepts(r)' <=> Accepts(r))
                   /\ (AwaitsAck(r)' <=> AwaitsAck(r))
<1>2. receipt' = receipt => Same
  BY DEF Phase, Accepts, AwaitsAck
<1> HIDE DEF Same
<1>3. op'.pc \in Admission \cup {"issue", "claim", "record"} => receipt'[r] = None
  <2>1. CASE op.id = r /\ op.pc \in Admission \cup {"issue", "claim", "record"} /\ op.pc \notin {"admission", "record"}
    <3>1. receipt' = receipt
      BY <2>1, Quiet DEF Admission
    <3> QED
      BY <1>1, <2>1, <3>1
  <2>2. CASE op.id = r /\ op.pc \in {"admission", "record"} /\ receipt' # receipt
    <3>1. RecordAdmissionFailure \/ RecordPromotion
      BY <2>2, Writers, RejectReceiptDoes, DisposeDoes, RecordFinalDoes, TerminalReceiptDoes,
         AbortReceiptDoes, ScanReceiptDoes, DisposeAtStartupDoes
    <3>2. op'.pc \in {"publish", "stage"}
      BY <3>1, RecordAdmissionFailureDoes, RecordPromotionDoes DEF Moves, Becomes
    <3> QED
      BY <3>2 DEF Admission
  <2>3. CASE op.id = r /\ op.pc \in {"admission", "record"} /\ receipt' = receipt
    BY <1>1, <2>3 DEF Admission
  <2>4. CASE \E s \in Run : Submit(s)
    <3>1. op'.id = r /\ Submit(r)
      BY <2>4, SubmitDoes DEF Begins
    <3>2. receipt[r] = None /\ receipt' = receipt
      BY <3>1, SubmitDoes DEF PublishedFits, Unpublished
    <3> QED
      BY <3>2
  <2>5. \/ Bind \/ Prepare \/ PrepareConflict \/ RunAgent \/ Seal \/ Verify \/ Issue \/ Claim
        => op.id = r /\ op.pc \in Admission \cup {"issue", "claim"}
    BY BindDoes, PrepareDoes, PrepareConflictDoes, RunAgentDoes, SealDoes, VerifyDoes, IssueDoes,
       ClaimDoes DEF Moves, Becomes, Admission
  <2>6. Regenerate => FALSE
    BY <1>0, RegenerateDoes, OwnerOfRollback
  <2>7. Fault /\ op'.pc = "admission" => op.id = r /\ op.pc = "prepare"
    <3>1. op.pc = "close" => op.then \in {"reject", "withdraw"}
      BY DEF Knows
    <3> QED
      BY <3>1, FaultDoes DEF Idle, FaultEarly, FaultInSwap, FaultLate, Becomes, Moves
  <2>8. Stays => op.id = r /\ op.pc = op'.pc
    BY DEF Stays
  <2> QED
    BY <2>1, <2>2, <2>3, <2>4, <2>5, <2>6, <2>7, <2>8, Arrivals DEF Admission
<1>4. op'.pc \in {"stage"} \cup Comparison => AwaitsAck(r)'
  <2>1. CASE RecordPromotion
    <3>1. op.id = r
      BY <2>1, RecordPromotionDoes DEF Moves, Becomes
    <3> QED
      BY <2>1, <3>1, RecordPromotionWrites DEF ReceiptSet, AwaitsAck
  <2>2. op.id = r /\ op.pc \in {"stage"} \cup Comparison => AwaitsAck(r)'
    <3>1. op.pc \in {"stage"} \cup Comparison => receipt' = receipt
      BY Quiet DEF Comparison
    <3> QED
      BY <1>1, <1>2, <3>1 DEF Same
  <2>3. Stage \/ CompareBase \/ Consume => op.id = r /\ op.pc \in {"stage"} \cup Comparison
    BY StageDoes, CompareBaseDoes, ConsumeDoes DEF Moves, Becomes, Comparison
  <2>4. Claim => op'.pc = "record"
    BY ClaimDoes DEF Moves, Becomes
  <2>5. Stays => op.id = r /\ op.pc = op'.pc
    BY DEF Stays
  <2> QED
    BY <2>1, <2>2, <2>3, <2>4, <2>5, Arrivals DEF Comparison
<1>5. op'.pc = "release" => Phase(r)' = "TERMINAL"
  <2>1. CASE Stays
    <3>1. op'.pc = "release" => receipt' = receipt /\ op.id = r /\ op.pc = "release"
      BY <2>1, Quiet DEF Stays
    <3> QED
      BY <1>1, <1>2, <3>1 DEF Same
  <2>2. ReleaseRetention => op'.pc # "release"
    BY ReleaseRetentionDoes DEF Moves, Becomes
  <2>3. CASE TerminalReceipt
    <3>1. op.id = r /\ op.pc = "terminal"
      BY <2>3, TerminalReceiptDoes DEF Moves, Becomes
    <3>2. State(r) = "ACKNOWLEDGED"
      BY <3>1 DEF StateFits, Cleanup
    <3>3. receipt[r] # None
      BY <3>2 DEF ReceiptsFit, Accepts
    <3> QED
      BY <1>2, <2>3, <3>1, <3>3, TerminalReceiptWrites DEF ReceiptSet, Same
  <2> QED
    BY <2>1, <2>2, <2>3, Arrivals
<1>6. op'.pc = "dispose" => Phase(r)' = "PENDING_DISPOSITION"
  <2>1. CASE Publish
    <3>1. op'.pc = "dispose" => Phase(r) = "PENDING_DISPOSITION" /\ receipt' = receipt
      BY <2>1, PublishDoes DEF Moves, Becomes, Idle
    <3> QED
      BY <1>2, <3>1 DEF Same
  <2>2. CASE Stays /\ op'.pc = "dispose"
    <3>1. op.pc = "dispose" /\ op.id = r
      BY <2>2 DEF Stays
    <3>2. ~Dispose
      BY <2>2, DisposeDoes DEF Idle
    <3>3. receipt' = receipt
      BY <3>1, <3>2, Writers, RecordAdmissionFailureDoes, RejectReceiptDoes, RecordPromotionDoes,
         RecordFinalDoes, TerminalReceiptDoes, AbortReceiptDoes, ScanReceiptDoes, DisposeAtStartupDoes
    <3> QED
      BY <1>1, <1>2, <3>1, <3>3 DEF Same
  <2> QED
    BY <2>1, <2>2, Arrivals
<1>7. op'.pc = "publish" /\ op'.outcome = "decided" => receipt'[r] # None /\ ~Accepts(r)'
  <2>1. CASE RecordAdmissionFailure
    <3>1. op.id = r
      BY <2>1, RecordAdmissionFailureDoes DEF Moves, Becomes
    <3> QED
      BY <2>1, <3>1, RecordAdmissionFailureWrites DEF ReceiptSet, Accepts
  <2>2. CASE RejectReceipt
    <3>1. op.id = r /\ op.pc = "rejectReceipt"
      BY <2>2, RejectReceiptDoes DEF Moves, Becomes
    <3>2. CASE receipt' = receipt /\ Phase(r) = "TERMINAL"
      <4>1. State(r) # "ACKNOWLEDGED"
        BY <3>1 DEF StateFits, Refusal
      <4> QED
        BY <1>2, <3>2, <4>1, PhaseKnown DEF ReceiptsFit, Same
    <3>3. CASE ReceiptSet(op.id, "PENDING_DISPOSITION", op.verdict, op.base, ws) /\ op.verdict \in Refusals
      BY <3>1, <3>3 DEF ReceiptSet, Accepts, Refusals
    <3> QED
      BY <2>2, <3>1, <3>2, <3>3, RejectReceiptWrites DEF Refusals
  <2>3. CASE AbortReceipt
    BY <2>3, AbortReceiptDoes DEF Moves, Becomes
  <2>4. CASE Fault
    <3>1. op.pc = "close" => op.then \in {"reject", "withdraw"}
      BY DEF Knows
    <3> QED
      BY <2>4, <3>1, FaultDoes DEF Idle, FaultEarly, FaultInSwap, FaultLate, Becomes, Moves
  <2>5. CASE Stays
    <3>1. op'.pc = "publish" => op.id = r /\ op.pc = "publish" /\ receipt' = receipt
      BY <2>5, Quiet DEF Stays
    <3> QED
      BY <1>1, <1>2, <2>5, <3>1 DEF Same, Stays
  <2> QED
    BY <2>1, <2>2, <2>3, <2>4, <2>5, Arrivals
<1> QED
  BY <1>3, <1>4, <1>5, <1>6, <1>7

----------------------------------------------------------------------------
(* Receipts and the report of the recovery. *)

\* What startup recovery knows of the runs and the rollbacks it has seen.
LEMMA RolledFitsKept ==
    ASSUME TypeOK, OpTypes, Knows, PcFits, StateFits, PermitFits, ReceiptsFit, PublishedFits,
           VersionsFit, OpenFits, Next, NEW i \in Id, i \in startup'.rolled
    PROVE  State(i)' \in {"NONE", "ROLLED_BACK"} /\ ~Committed(i)'
<1>1. up = "starting" \/ startup = NoReport
  BY DEF PcFits, ProcessFits
<1>2. \/ i \in startup.rolled
      \/ op.pc = "rolled" /\ i = op.id
      \/ op.pc = "journals" /\ i \in Run /\ journal[i] = None
  BY ReportsTurn DEF ReportTurns, NoReport
<1>3. op.pc \in InRecovery
  BY <1>1, <1>2 DEF NoReport, InRecovery, PcFits, ProcessFits
<1>4. i # None
  BY Someone
<1>5. State(i) \in {"NONE", "ROLLED_BACK"} /\ ~Committed(i)
  <2>1. CASE i \in startup.rolled
    BY <2>1 DEF ReceiptsFit
  <2>2. CASE op.pc = "rolled" /\ i = op.id
    BY <1>4, <2>2 DEF StateFits, VersionsFit
  <2>3. CASE i \in Run /\ journal[i] = None
    BY <2>3 DEF VersionsFit, State
  <2> QED
    BY <1>2, <2>1, <2>2, <2>3
<1>6. State(i)' = State(i)
  BY <1>3, <1>5, StatesTurn, SwapState DEF StateTurns, InRecovery
<1>7. op.pc # "append"
  BY <1>3 DEF InRecovery
<1> QED
  BY <1>5, <1>6, <1>7, IndexTurns DEF Appended

\* From the dispositions, startup goes nowhere but to the end.
LEMMA DispositionsLast ==
    ASSUME TypeOK, OpTypes, Knows, PcFits, StateFits, ReceiptsFit, Next, op.pc = "dispositions",
           up' = "starting", PcFits'
    PROVE  op'.pc = "dispositions"
<1>1. op'.pc \in InRecovery
  BY DEF PcFits, ProcessFits
<1>2. ~Fault /\ ~Start
  BY FaultDoes, StartDoes, Recovers
<1>3. FaultAtStartup => FALSE
  BY FaultAtStartupDoes
<1>4. ~(\E i \in Id : Examine(i))
  BY ExamineBegins
<1>5. /\ ~UndoJournal /\ ~Acknowledged /\ ~RolledBack /\ ~Reproject /\ ~Project /\ ~DropBackup
      /\ ~AcknowledgeJournal /\ ~ReleaseRetention /\ ~TerminalReceipt /\ ~DestroyProposal
      /\ ~RecordFinal /\ ~RevertVersion /\ ~AbortReceipt
  BY DEF UndoJournal, Acknowledged, RolledBack, Reproject, Project, DropBackup,
         AcknowledgeJournal, ReleaseRetention, TerminalReceipt, DestroyProposal,
         RecordFinal, RevertVersion, AbortReceipt, At
<1> QED
  BY <1>1, <1>2, <1>3, <1>4, <1>5, Arrivals DEF InRecovery, Stays

LEMMA TodoJournaledKept ==
    ASSUME TypeOK, OpTypes, Knows, PcFits, StateFits, PermitFits, ReceiptsFit, PublishedFits,
           Next, PcFits', up' = "starting", op'.pc # "dispositions", NEW i \in Id, i \in startup'.todo
    PROVE  journal'[i] # None
<1>1. journal[i] # None => journal'[i] # None
  BY StatesTurn, JournalKnown
<1>2. up \in {"starting", "down"}
  BY Writers, ServeDoes, FaultAtStartupDoes, CrashDoes, StartDoes
<1>3. up = "down" => startup = NoReport
  BY DEF PcFits, ProcessFits
<1>4. up = "starting" => op.pc # "dispositions"
  BY DispositionsLast
<1>5. op.pc # "settle" \/ op'.pc # "dispositions"
  OBVIOUS
<1>6. \/ i \in startup.todo
      \/ journal[i] # None
  BY <1>5, ReportsTurn DEF ReportTurns, NoReport
<1> QED
  BY <1>1, <1>2, <1>3, <1>4, <1>6 DEF ReceiptsFit, NoReport

LEMMA TodoDisposedKept ==
    ASSUME TypeOK, OpTypes, Knows, PcFits, StateFits, PermitFits, ReceiptsFit, PublishedFits,
           Next, op'.pc = "dispositions", NEW i \in startup'.todo
    PROVE  i \in Run /\ Phase(i)' = "PENDING_DISPOSITION"
<1>1. CASE Settle
  BY <1>1, SettleDoes DEF Phase
<1>2. CASE Stays
  <2>1. op.pc = "dispositions"
    BY <1>2 DEF Stays
  <2>2. i \in startup.todo
    BY <2>1, ReportsTurn DEF ReportTurns, NoReport, Idle
  <2>3. CASE receipt' = receipt
    BY <2>1, <2>2, <2>3 DEF ReceiptsFit, Phase
  <2>4. CASE \E r \in Run : DisposeAtStartup(r)
    <3>1. PICK r \in Run : DisposeAtStartup(r)
      BY <2>4
    <3>2. i # r
      BY <3>1, DisposeAtStartupDoes
    <3>3. i \in Run /\ Phase(i) = "PENDING_DISPOSITION"
      BY <2>1, <2>2 DEF ReceiptsFit
    <3>4. receipt'[i] = receipt[i]
      BY <3>1, <3>2, <3>3, DisposeAtStartupWrites DEF ReceiptSet
    <3> QED
      BY <3>3, <3>4 DEF Phase
  <2> QED
    BY <2>1, <2>3, <2>4, Writers, RecordAdmissionFailureDoes, RejectReceiptDoes, RecordPromotionDoes,
       RecordFinalDoes, TerminalReceiptDoes, AbortReceiptDoes, ScanReceiptDoes, DisposeDoes
<1> QED
  BY <1>1, <1>2, Arrivals

LEMMA ReceiptsFitKept ==
    ASSUME TypeOK, OpTypes, Knows, PcFits, StateFits, PermitFits, ReceiptsFit, PublishedFits,
           VersionsFit, OpenFits, TypeOK', PcFits', Next
    PROVE  ReceiptsFit'
<1>1. \A r \in Run :
         /\ Phase(r)' = "PENDING_PROMOTION" => Accepts(r)'
         /\ Phase(r)' = "PENDING_DISPOSITION" => ~Accepts(r)'
         /\ Phase(r)' = "TERMINAL" /\ Accepts(r)' => State(r)' = "ACKNOWLEDGED"
         /\ InSwap(r)' \/ State(r)' = "ACKNOWLEDGED" => Accepts(r)'
         /\ Committed(r)' => Accepts(r)'
  BY ReceiptFitsKept
<1> DEFINE AfterPhase(r) == IF receipt'[r] = None THEN "NONE" ELSE receipt'[r].phase
           AfterAccepts(r) == receipt'[r] # None /\ receipt'[r].decision = "COMMITTED"
<1>2. \A r \in Run : /\ Phase(r)' = AfterPhase(r) /\ (Accepts(r)' <=> AfterAccepts(r))
                     /\ AwaitsAck(r)' <=> AfterPhase(r) = "PENDING_PROMOTION" /\ receipt'[r].decision = "COMMITTED"
  BY DEF Phase, Accepts, AwaitsAck
<1>3. op'.id \in Run =>
         /\ op'.pc \in Admission \cup {"issue", "claim", "record"} => receipt'[op'.id] = None
         /\ op'.pc \in {"stage"} \cup Comparison => AfterPhase(op'.id) = "PENDING_PROMOTION" /\ receipt'[op'.id].decision = "COMMITTED"
         /\ op'.pc = "publish" /\ op'.outcome = "decided" => receipt'[op'.id] # None /\ ~AfterAccepts(op'.id)
         /\ op'.pc = "release" => AfterPhase(op'.id) = "TERMINAL"
         /\ op'.pc = "dispose" => AfterPhase(op'.id) = "PENDING_DISPOSITION"
  BY <1>2, KnownReceiptKept
<1>4. op'.pc \in {"publish", "dispose"} => op'.id \in Run
  BY DEF PcFits, OwnerFits, OfRuns
<1>5. op'.pc = "dispositions" => \A i \in startup'.todo : i \in Run /\ Phase(i)' = "PENDING_DISPOSITION"
  BY TodoDisposedKept
<1>6. startup' \in Reports
  BY DEF TypeOK
<1>7. up' = "starting" /\ op'.pc # "dispositions" => \A i \in startup'.todo : journal'[i] # None
  BY <1>6, TodoJournaledKept DEF Reports
<1>8. \A i \in startup'.rolled : State(i)' \in {"NONE", "ROLLED_BACK"} /\ ~Committed(i)'
  BY <1>6, RolledFitsKept DEF Reports
<1>9. /\ op'.pc \in Admission \cup {"issue", "claim", "record"} /\ op'.id \in Run => receipt'[op'.id] = None
      /\ op'.pc \in {"stage"} \cup Comparison /\ op'.id \in Run => AwaitsAck(op.id)'
      /\ op'.pc = "publish" /\ op'.outcome = "decided" => receipt'[op'.id] # None /\ ~Accepts(op.id)'
      /\ op'.pc = "release" /\ op'.id \in Run => Phase(op.id)' = "TERMINAL"
      /\ op'.pc = "dispose" => Phase(op.id)' = "PENDING_DISPOSITION"
  BY <1>3, <1>4 DEF Phase, Accepts, AwaitsAck
<1> QED
  BY <1>1, <1>5, <1>7, <1>8, <1>9 DEF ReceiptsFit

----------------------------------------------------------------------------
(* Types: the trees. *)

\* An identity comes from the operation in progress, or there is none.
LEMMA WhoGoesOn ==
    ASSUME TypeOK, OpTypes, Knows, PcFits, StateFits, ReceiptsFit, Next
    PROVE  op'.id \in {op.id, None} \/ (op.id = None /\ op'.id \in Id)
<1>1. CASE Bind \/ Prepare \/ PrepareConflict \/ RecordAdmissionFailure \/ RunAgent \/ AgentEnds
  BY <1>1, BindDoes, PrepareDoes, PrepareConflictDoes, RecordAdmissionFailureDoes, RunAgentDoes,
     AgentEndsDoes DEF Becomes, Moves
<1>2. CASE Seal \/ SealRefuses \/ Verify \/ Reject \/ RejectReceipt \/ Publish
  BY <1>2, SealDoes, SealRefusesDoes, VerifyDoes, RejectDoes, RejectReceiptDoes, PublishDoes DEF
     Moves, Becomes, HeadStays, Idle
<1>3. CASE Dispose \/ Issue \/ Claim \/ RecordPromotion \/ Stage \/ CompareBase
  BY <1>3, DisposeDoes, IssueDoes, ClaimDoes, RecordPromotionDoes, StageDoes, CompareBaseDoes DEF
     Idle, Moves, Becomes
<1>4. CASE CompareConflict \/ Consume \/ Promoting \/ Vacate \/ Fill \/ PendingDatabase
  BY <1>4, CompareConflictDoes, ConsumeDoes, PromotingDoes, VacateDoes, FillDoes,
     PendingDatabaseDoes DEF Becomes, Moves, JournalSet
<1>5. CASE \/ RecordFinal \/ AppendVersion \/ Project \/ DropBackup \/ AcknowledgeJournal
           \/ ReleaseRetention
  BY <1>5, RecordFinalDoes, AppendVersionDoes, ProjectDoes, DropBackupDoes,
     AcknowledgeJournalDoes, ReleaseRetentionDoes DEF Becomes, Moves, JournalSet
<1>6. CASE \/ DestroyProposal \/ TerminalReceipt \/ Release \/ UndoSwap \/ UndoJournal
           \/ CloseJournal
  BY <1>6, DestroyProposalDoes, TerminalReceiptDoes, ReleaseDoes, UndoSwapDoes, UndoJournalDoes,
     CloseJournalDoes DEF Moves, Becomes, HeadStays, Idle, JournalSet, LeftToAnAdministrator,
     Begins
<1>7. CASE RevertVersion
  BY <1>7, RevertVersionDoes DEF Moves, Becomes
<1>8. CASE AbortReceipt
  BY <1>8, AbortReceiptDoes DEF Becomes, Moves
<1>9. CASE Lock
  BY <1>9, LockDoes DEF HeadStays, Idle
<1>10. CASE Regenerate \/ Withdraw \/ ConfigureRow
  BY <1>10, RegenerateDoes, WithdrawDoes, ConfigureRowDoes DEF HeadStays, Idle
<1>11. CASE \E i \in Id : Examine(i)
  <2>1. PICK i \in Id : Examine(i)
    BY <1>11
  <2>2. op.pc = "journals" /\ (op' = op \/ op'.id = i)
    BY <2>1, ExamineBegins
  <2> QED
    BY <2>2, OwnerOfNobody
<1>12. CASE Acknowledged \/ RolledBack
  BY <1>12, AcknowledgedDoes, RolledBackDoes DEF Begins
<1>13. CASE \E r \in Run : ScanReceipt(r)
  <2>1. PICK r \in Run : ScanReceipt(r)
    BY <1>13
  <2> QED
    BY <2>1, ScanReceiptDoes
<1>14. CASE \E r \in Run : DisposeAtStartup(r)
  <2>1. PICK r \in Run : DisposeAtStartup(r)
    BY <1>14
  <2> QED
    BY <2>1, DisposeAtStartupDoes DEF HeadStays
<1>15. CASE Reproject \/ Settle \/ Serve
  BY <1>15, ReprojectDoes, SettleDoes, ServeDoes DEF Moves, Becomes, HeadStays, Idle
<1>16. CASE \E r \in Run : Submit(r)
  <2>1. PICK r \in Run : Submit(r)
    BY <1>16
  <2> QED
    BY <2>1, SubmitDoes, Someone DEF Idle, Begins
<1>17. CASE \E x \in Rollback : StartRollback(x)
  <2>1. PICK x \in Rollback : StartRollback(x)
    BY <1>17
  <2> QED
    BY <2>1, StartRollbackDoes, Someone DEF Idle
<1>18. CASE Configure \/ StartAgent \/ Cancel
  BY <1>18, ConfigureDoes, StartAgentDoes, CancelDoes DEF Begins, Idle, HeadStays, Becomes
<1>19. CASE Start
  BY <1>19, StartDoes DEF Begins
<1>20. CASE FaultAtStartup \/ Crash
  BY <1>20, FaultAtStartupDoes, CrashDoes DEF LeftToAnAdministrator, Begins, Idle
<1>21. CASE Drift \/ Fault
  BY <1>21, DriftDoes, FaultDoes DEF Becomes, Moves, Idle, FaultEarly, FaultInSwap, FaultLate
<1> QED
  BY <1>1, <1>2, <1>3, <1>4, <1>5, <1>6, <1>7, <1>8, <1>9, <1>10, <1>11, <1>12, <1>13, <1>14,
     <1>15, <1>16, <1>17, <1>18, <1>19, <1>20, <1>21 DEF Next, Request, Step, RunStep,
     TransitionStep, StartupStep

LEMMA TreeEdited ==
    ASSUME NEW t \in Tree, NEW v \in Content, NEW p \in 0..MaxConfigs
    PROVE  /\ [t EXCEPT !.v = v] \in Tree /\ [t EXCEPT !.v = v].v = v /\ [t EXCEPT !.v = v].p = t.p
           /\ [t EXCEPT !.p = p] \in Tree /\ [t EXCEPT !.p = p].p = p /\ [t EXCEPT !.p = p].v = t.v
           /\ t.v \in Content /\ t.p \in 0..MaxConfigs /\ t # None
  BY NoneAssumption DEF Tree

\* Away from a swap the workspace is there.
LEMMA WorkspaceThere ==
    ASSUME TypeOK, PcFits, StateFits, OpenFits, BackupFits,
           \/ op.pc \in Admission \cup Preparation \cup Comparison \cup Projection
           \/ op.pc \in {"regenerate", "configure", "vacate", "pendingDb"}
           \/ op = Idle /\ up = "up" /\ ~db.locked /\ ~reserved
    PROVE  ws \in Tree /\ ws # None
<1>1. ws \in Tree \cup {None}
  BY DEF TypeOK
<1>2. SUFFICES ASSUME ws = None PROVE FALSE
  BY <1>1
<1>3. PICK i \in Id : InSwap(i) /\ backup[i] # None
  BY <1>2 DEF BackupFits
<1>4. Open(i) /\ i # None
  BY <1>3, Someone DEF Open
<1>5. CASE op = Idle /\ up = "up" /\ ~db.locked /\ ~reserved
  BY <1>4, <1>5 DEF OpenFits, AwaitsRecovery, Idle
<1>6. CASE op.pc \in Admission \cup Preparation \cup Comparison \cup Projection \cup {"regenerate", "configure", "vacate", "pendingDb"}
  <2>1. op.pc \notin InRecovery /\ op.pc # "idle"
    BY <1>6 DEF Admission, Preparation, Comparison, Projection, InRecovery
  <2>2. up = "up"
    BY <2>1, InRun
  <2>3. op # Idle
    BY <2>1 DEF Idle
  <2>4. op.id = i
    BY <1>4, <2>2, <2>3 DEF OpenFits, AwaitsRecovery
  <2>5. State(op.id) \in {"PROMOTING", "PROMOTED_PENDING_DB"}
    BY <1>3, <2>4, SwapState
  <2>6. op.pc \notin Admission \cup Preparation \cup Comparison \cup {"regenerate"}
    BY <2>5 DEF StateFits
  <2> QED
    BY <1>2, <1>3, <1>4, <1>6, <2>4, <2>6, OwnerOfNobody DEF BackupFits
<1> QED
  BY <1>5, <1>6

LEMMA WorkspaceTyped ==
    ASSUME TypeOK, OpTypes, Knows, PcFits, StateFits, ReceiptsFit, OpenFits, BackupFits, OpTrees, Next
    PROVE  ws' \in Tree \cup {None}
<1>0. ws \in Tree \cup {None} /\ db.cfg \in 0..MaxConfigs /\ Edited \in Content /\ MaxConfigs \in Nat
  BY GateAssumption DEF TypeOK, Rows, Content
<1>1. PrepareConflict \/ Drift => ws' \in Tree
  <2>1. PrepareConflict \/ Drift => ws \in Tree /\ ws' = [ws EXCEPT !.v = Edited]
    BY <1>0, PrepareConflictDoes, DriftDoes, WorkspaceThere DEF Admission
  <2> QED
    BY <1>0, <2>1, TreeEdited
<1>2. Vacate => ws' = None
  BY VacateDoes
<1>3. Fill => ws' \in Tree
  <2>1. Fill => op.pc = "fill" /\ ws' = journal[op.id].target /\ op.id \in Id
    BY FillDoes, Owner
  <2>2. op.pc = "fill" => State(op.id) = "PROMOTING"
    BY DEF StateFits, Swapping
  <2> QED
    BY <2>1, <2>2, JournalKnown
<1>4. UndoSwap => ws' \in Tree \cup {None}
  <2>1. UndoSwap => op.id \in Id
    BY UndoSwapDoes, Owner
  <2> QED
    BY <2>1, UndoSwapDoes DEF TypeOK
<1>5. Regenerate => ws' \in Tree
  <2>1. Regenerate => ws \in Tree /\ ws' = [ws EXCEPT !.p = db.cfg]
    BY <1>0, RegenerateDoes
  <2> QED
    BY <1>0, <2>1, TreeEdited
<1>6. Configure => ws' \in Tree
  <2>1. Configure => ws \in Tree /\ db.cfg + 1 \in 0..MaxConfigs /\ ws' = [ws EXCEPT !.p = db.cfg + 1]
    BY <1>0, ConfigureDoes
  <2> QED
    BY <1>0, <2>1, TreeEdited
<1>7. Fault => ws' \in Tree \cup {None}
  <2>1. Fault => ws' = ws \/ (ws \in Tree /\ ws' = [ws EXCEPT !.p = db.cfg])
    BY <1>0, FaultDoes, WorkspaceThere
  <2> QED
    BY <1>0, <2>1, TreeEdited
<1> QED
  BY <1>0, <1>1, <1>2, <1>3, <1>4, <1>5, <1>6, <1>7, Writers

LEMMA DiskTyped ==
    ASSUME TypeOK, OpTypes, Knows, PcFits, StateFits, ReceiptsFit, OpenFits, BackupFits, OpTrees, Next
    PROVE  /\ backup' \in [Id -> Tree \cup {None}]
           /\ journal' \in [Id -> Journals \cup {None}]
           /\ permit' \in [Id -> Permits]
           /\ proposal' \in [Run -> {"NONE", "SEALED", "DESTROYED"}]
           /\ receipt' \in [Run -> Receipts \cup {None}]
<1>0. /\ ws \in Tree \cup {None} /\ backup \in [Id -> Tree \cup {None}]
      /\ journal \in [Id -> Journals \cup {None}] /\ permit \in [Id -> Permits]
      /\ proposal \in [Run -> {"NONE", "SEALED", "DESTROYED"}]
      /\ receipt \in [Run -> Receipts \cup {None}]
  BY DEF TypeOK
<1>1. backup' \in [Id -> Tree \cup {None}]
  BY <1>0, Writers, VacateDoes, DropBackupDoes, UndoSwapDoes
<1>2. journal' \in [Id -> Journals \cup {None}]
  <2>1. (\E i \in Id : Examine(i)) => journal' \in [Id -> Journals \cup {None}]
    BY <1>0, ExamineBegins DEF JournalSet
  <2>2. Stage => journal' \in [Id -> Journals \cup {None}]
    BY Staged
  <2> QED
    BY <1>0, <2>1, <2>2, Writers, CompareConflictDoes, PromotingDoes, PendingDatabaseDoes,
       AcknowledgeJournalDoes, UndoJournalDoes, CloseJournalDoes DEF JournalSet
<1>3. permit' \in [Id -> Permits]
  BY <1>0, Writers, RejectDoes, IssueDoes, ClaimDoes, ConsumeDoes, WithdrawDoes DEF Permits
<1>4. proposal' \in [Run -> {"NONE", "SEALED", "DESTROYED"}]
  <2>1. Reject => proposal' \in [Run -> {"NONE", "SEALED", "DESTROYED"}]
    BY <1>0, RejectDoes, OwnerOfRun
  <2> QED
    BY <1>0, <2>1, Writers, SealDoes, DestroyProposalDoes, AbortReceiptDoes
<1>5. receipt' \in [Run -> Receipts \cup {None}]
  BY <1>0, Writers, RecordAdmissionFailureWrites, RecordPromotionWrites, RejectReceiptWrites,
     RecordFinalWrites, TerminalReceiptWrites, DisposeWrites, DisposeAtStartupWrites,
     ScanReceiptWrites, AbortReceiptWrites DEF ReceiptSet
<1> QED
  BY <1>1, <1>2, <1>3, <1>4, <1>5

LEMMA IndexStaysTyped ==
    ASSUME TypeOK, OpTypes, Knows, PcFits, StateFits, ReceiptsFit, VersionsFit, OpenFits, BackupFits, OpTrees, Next
    PROVE  versions' \in Seq(Versions) /\ versions' # <<>>
<1>0. versions \in Seq(Versions) /\ versions # <<>>
  BY DEF TypeOK
<1>1. CASE AppendVersion
  <2>1. op.pc = "append" /\ op.id \in Id
    BY <1>1, AppendVersionDoes, Owner
  <2>2. op.tree \in Tree /\ ws \in Tree
    BY <2>1, WorkspaceThere DEF Knows, OpTypes, Projection
  <2> DEFINE new == [id |-> op.id, v |-> IF op.id \in Run THEN op.tree.v ELSE ws.v]
  <2>3. new \in Versions
    BY <2>1, <2>2 DEF Versions, Tree
  <2>4. versions' = Append(versions, new)
    BY <1>1, AppendVersionDoes
  <2> HIDE DEF new
  <2> QED
    BY <1>0, <2>3, <2>4
<1>2. CASE RevertVersion /\ versions' # versions
  <2>1. Len(versions) > 1 /\ versions' = SubSeq(versions, 1, Len(versions) - 1)
    BY <1>2, Reverts, RevertVersionDoes DEF Reverted
  <2>2. Len(versions) \in Nat
    BY <1>0
  <2>3. versions' \in Seq(Versions) /\ Len(versions') = Len(versions) - 1
    BY <1>0, <2>1, <2>2
  <2>6. Len(versions) > 1
    BY <2>1
  <2>7. \A n \in Nat : n > 1 => n - 1 # 0
    OBVIOUS
  <2>4. Len(versions') # 0
    BY <2>2, <2>3, <2>6, <2>7
  <2>5. versions' = <<>> => Len(versions') = 0
    OBVIOUS
  <2> QED
    BY <2>3, <2>4, <2>5
<1> QED
  BY <1>0, <1>1, <1>2, Writers

----------------------------------------------------------------------------
(* Retention and imports of snapshots. *)

\* Retention changes nothing but which snapshots are pruned, and neither the
\* initial one nor the head's.
LEMMA RetentionIs ==
    ASSUME NEW index \in Seq(Snapshots), NEW head
    PROVE  /\ Retention(index, head) \in Seq(Snapshots) /\ Len(Retention(index, head)) = Len(index)
           /\ \A k \in 1..Len(index) :
                 /\ Retention(index, head)[k].v = index[k].v
                 /\ index[k].pruned => Retention(index, head)[k].pruned
                 /\ index[k].v \in {Initial, head.v} =>
                        (Retention(index, head)[k].pruned <=> index[k].pruned)
<1> DEFINE excess == Cardinality(Available(index)) - (IF Recovering THEN RetainedAtStartup ELSE Retained)
           free == {k \in Available(index) : index[k].v \notin {Initial, head.v}}
           dropped == {k \in free : Cardinality({j \in free : j < k}) < excess}
           kept == [k \in DOMAIN index |-> [index[k] EXCEPT !.pruned = @ \/ k \in dropped]]
<1>1. Retention(index, head) = kept
  BY DEF Retention
<1>2. \A k \in DOMAIN index : index[k].v \in {Initial, head.v} => k \notin dropped
  OBVIOUS
<1> HIDE DEF dropped
<1>3. DOMAIN index = 1..Len(index) /\ Len(index) \in Nat
  OBVIOUS
<1>4. \A k \in 1..Len(index) : index[k] \in Snapshots
  OBVIOUS
<1>5. \A k \in 1..Len(index) : kept[k] = [index[k] EXCEPT !.pruned = @ \/ k \in dropped]
  BY <1>3
<1>6. \A k \in 1..Len(index) :
         /\ kept[k] \in Snapshots /\ kept[k].v = index[k].v
         /\ kept[k].pruned <=> (index[k].pruned \/ k \in dropped)
  <2> TAKE k \in 1..Len(index)
  <2>1. index[k] \in Snapshots /\ kept[k] = [index[k] EXCEPT !.pruned = @ \/ k \in dropped]
    BY <1>4, <1>5
  <2> HIDE DEF kept
  <2>2. index[k] = [v |-> index[k].v, pruned |-> index[k].pruned] /\ index[k].v \in Content
    BY <2>1 DEF Snapshots
  <2>3. (index[k].pruned \/ k \in dropped) \in BOOLEAN
    OBVIOUS
  <2>4. kept[k] = [v |-> index[k].v, pruned |-> index[k].pruned \/ k \in dropped]
    BY <2>1, <2>2
  <2>5. kept[k].v = index[k].v /\ kept[k].pruned = (index[k].pruned \/ k \in dropped)
    BY <2>4
  <2>6. kept[k] \in Snapshots
    BY <2>2, <2>3, <2>4 DEF Snapshots
  <2> QED
    BY <2>5, <2>6
<1>7. kept \in [1..Len(index) -> Snapshots]
  BY <1>3, <1>6
<1>8. kept \in Seq(Snapshots) /\ Len(kept) = Len(index)
  BY <1>3, <1>7
<1> HIDE DEF kept
<1> QED
  BY <1>1, <1>2, <1>3, <1>4, <1>6, <1>8 DEF Snapshots

\* At startup as many snapshots are kept as there are contents.
LEMMA NothingPruned ==
    ASSUME NEW index \in Seq(Snapshots), NEW head, Recovering, RetainedAtStartup \in Nat,
           IsFiniteSet(Content), Cardinality(Content) <= RetainedAtStartup,
           \A j, k \in 1..Len(index) : index[j].v = index[k].v => j = k
    PROVE  \A k \in 1..Len(index) : Retention(index, head)[k].pruned <=> index[k].pruned
<1> DEFINE excess == Cardinality(Available(index)) - (IF Recovering THEN RetainedAtStartup ELSE Retained)
           free == {k \in Available(index) : index[k].v \notin {Initial, head.v}}
           dropped == {k \in free : Cardinality({j \in free : j < k}) < excess}
           kept == [k \in DOMAIN index |-> [index[k] EXCEPT !.pruned = @ \/ k \in dropped]]
           places == [k \in Available(index) |-> index[k].v]
<1>1. Retention(index, head) = kept
  BY DEF Retention
<1>2. DOMAIN index = 1..Len(index) /\ Len(index) \in Nat
  OBVIOUS
<1>16. \A k \in 1..Len(index) : index[k] \in Snapshots
  OBVIOUS
<1>3. \A k \in 1..Len(index) : index[k] \in Snapshots /\ index[k].v \in Content
  BY <1>16 DEF Snapshots
<1>4. Available(index) \subseteq 1..Len(index) /\ IsFiniteSet(1..Len(index))
  BY <1>2, FS_Interval DEF Available
<1>5. IsFiniteSet(Available(index)) /\ Cardinality(Available(index)) \in Nat
  BY <1>4, FS_Subset, FS_CardinalityType
<1>6. places \in Injection(Available(index), Content)
  <2>1. places \in [Available(index) -> Content]
    BY <1>3, <1>4
  <2>2. \A j, k \in Available(index) : places[j] = places[k] => j = k
    BY <1>4
  <2> HIDE DEF places
  <2> QED
    BY <2>1, <2>2, Fun_IsInj
<1>7. Cardinality(Available(index)) <= Cardinality(Content) /\ Cardinality(Content) \in Nat
  BY <1>6, FS_Injection, FS_CardinalityType
<1>8. excess \in Int /\ excess <= 0
  BY <1>5, <1>7
<1>9. \A k \in free : IsFiniteSet({j \in free : j < k})
  BY <1>5, FS_Subset
<1>10. \A k \in free : Cardinality({j \in free : j < k}) \in Nat
  BY <1>9, FS_CardinalityType
<1> HIDE DEF excess, free
<1>11. dropped = {}
  BY <1>8, <1>10
<1> HIDE DEF dropped
<1>12. \A k \in 1..Len(index) : kept[k] = [index[k] EXCEPT !.pruned = @ \/ k \in dropped]
  BY <1>2
<1> SUFFICES ASSUME NEW k \in 1..Len(index) PROVE kept[k].pruned <=> index[k].pruned
  BY <1>1
<1> HIDE DEF kept
<1>13. index[k] = [v |-> index[k].v, pruned |-> index[k].pruned] /\ index[k].pruned \in BOOLEAN
  BY <1>3 DEF Snapshots
<1>14. kept[k] = [v |-> index[k].v, pruned |-> index[k].pruned \/ k \in dropped]
  BY <1>12, <1>13
<1>15. kept[k].pruned = (index[k].pruned \/ k \in dropped)
  BY <1>14
<1> QED
  BY <1>11, <1>15

LEMMA WithoutIs ==
    ASSUME NEW index \in Seq(Snapshots), NEW v,
           \A j, k \in 1..Len(index) : index[j].v = index[k].v => j = k
    PROVE  /\ Without(index, v) \in Seq(Snapshots)
           /\ \A k \in 1..Len(Without(index, v)) : Without(index, v)[k].v # v
           /\ \A k \in 1..Len(Without(index, v)) :
                 \E j \in 1..Len(index) : Without(index, v)[k] = index[j]
           /\ \A k \in 1..Len(index) : index[k].v # v =>
                 \E j \in 1..Len(Without(index, v)) : Without(index, v)[j] = index[k]
           /\ \A j, k \in 1..Len(Without(index, v)) :
                 Without(index, v)[j].v = Without(index, v)[k].v => j = k
<1>1. DOMAIN index = 1..Len(index) /\ Len(index) \in Nat
  OBVIOUS
<1>2. CASE ~ \E k \in DOMAIN index : index[k].v = v
  <2>1. Without(index, v) = index
    BY <1>2 DEF Without
  <2> QED
    BY <1>1, <1>2, <2>1
<1>3. CASE \E k \in DOMAIN index : index[k].v = v
  <2> DEFINE at == CHOOSE k \in DOMAIN index : index[k].v = v
             low == SubSeq(index, 1, at - 1)
             high == SubSeq(index, at + 1, Len(index))
             rest == low \o high
  <2>1. at \in 1..Len(index) /\ index[at].v = v
    BY <1>1, <1>3
  <2>2. Without(index, v) = rest
    BY <1>3 DEF Without
  <2> HIDE DEF at
  <2>3. /\ low \in Seq(Snapshots) /\ Len(low) = at - 1
        /\ \A k \in 1..(at - 1) : low[k] = index[k]
    BY <1>1, <2>1
  <2>4. /\ high \in Seq(Snapshots) /\ Len(high) = Len(index) - at
        /\ \A k \in 1..(Len(index) - at) : high[k] = index[at + k]
    <3>1. /\ at + 1 \in 1..(Len(index) + 1) /\ Len(index) \in 0..Len(index)
          /\ Len(index) - (at + 1) + 1 = Len(index) - at
      BY <1>1, <2>1
    <3>2. high \in Seq(Snapshots)
      BY <3>1
    <3>3. Len(high) = IF at + 1 <= Len(index) THEN Len(index) - (at + 1) + 1 ELSE 0
      BY <1>1, <2>1
    <3>7. \A n, a \in Nat : a \in 1..n => (IF a + 1 <= n THEN n - (a + 1) + 1 ELSE 0) = n - a
      OBVIOUS
    <3>5. \A k \in 1..(Len(index) - (at + 1) + 1) : high[k] = index[(at + 1) + k - 1]
      BY <1>1, <2>1, <3>1
    <3> HIDE DEF high
    <3>8. at \in Nat /\ Len(index) \in Nat /\ at \in 1..Len(index)
      BY <1>1, <2>1
    <3>9. (IF at + 1 <= Len(index) THEN Len(index) - (at + 1) + 1 ELSE 0) = Len(index) - at
      BY <3>7, <3>8
    <3>4. Len(high) = Len(index) - at
      BY <3>3, <3>9
    <3>6. \A k \in 1..(Len(index) - at) : (at + 1) + k - 1 = at + k
      BY <1>1, <2>1
    <3> QED
      BY <3>1, <3>2, <3>4, <3>5, <3>6
  <2> HIDE DEF low, high
  <2>5. rest \in Seq(Snapshots) /\ Len(rest) = Len(index) - 1
    <3>1. rest \in Seq(Snapshots) /\ Len(rest) = Len(low) + Len(high)
      BY <2>3, <2>4, ConcatProperties
    <3>2. (at - 1) + (Len(index) - at) = Len(index) - 1
      BY <1>1, <2>1
    <3> QED
      BY <2>3, <2>4, <3>1, <3>2
  <2>6. \A k \in 1..Len(rest) : rest[k] = IF k < at THEN low[k] ELSE high[k - (at - 1)]
    BY <1>1, <2>1, <2>3, <2>4, <2>5
  <2>7. \A k \in 1..Len(rest) : rest[k] = index[IF k < at THEN k ELSE k + 1]
    BY <1>1, <2>1, <2>3, <2>4, <2>5, <2>6
  <2> HIDE DEF rest
  <2> DEFINE from(k) == IF k < at THEN k ELSE k + 1
  <2>8. \A k \in 1..Len(rest) : rest[k] = index[from(k)] /\ from(k) \in 1..Len(index) /\ from(k) # at
    BY <1>1, <2>1, <2>5, <2>7
  <2>9. \A j, k \in 1..Len(rest) : from(j) = from(k) => j = k
    BY <1>1, <2>1, <2>5
  <2>10. \A k \in 1..Len(index) : k # at => \E j \in 1..Len(rest) : from(j) = k
    <3> TAKE k \in 1..Len(index)
    <3>1. k < at => k \in 1..Len(rest) /\ from(k) = k
      BY <1>1, <2>1, <2>5
    <3>2. k > at => k - 1 \in 1..Len(rest) /\ from(k - 1) = k
      BY <1>1, <2>1, <2>5
    <3>3. k # at => k < at \/ k > at
      BY <1>1, <2>1
    <3> QED
      BY <3>1, <3>2, <3>3
  <2> HIDE DEF from
  <2>11. \A k \in 1..Len(rest) : rest[k].v # v
    BY <2>1, <2>8
  <2>12. \A k \in 1..Len(index) : index[k].v # v => \E j \in 1..Len(rest) : rest[j] = index[k]
    BY <2>1, <2>8, <2>10
  <2>13. \A j, k \in 1..Len(rest) : rest[j].v = rest[k].v => j = k
    BY <2>8, <2>9
  <2> QED
    BY <2>2, <2>5, <2>8, <2>11, <2>12, <2>13
<1> QED
  BY <1>2, <1>3

LEMMA ImportIs ==
    ASSUME TypeOK, NEW v \in Content,
           \A j, k \in 1..Len(snapshots) : snapshots[j].v = snapshots[k].v => j = k
    PROVE  /\ Import(v) \in Seq(Snapshots)
           /\ \A j, k \in 1..Len(Import(v)) : Import(v)[j].v = Import(v)[k].v => j = k
           /\ {Import(v)[k].v : k \in Available(Import(v))} = Restorable \cup {v}
<1>0. snapshots \in Seq(Snapshots) /\ DOMAIN snapshots = 1..Len(snapshots)
  BY DEF TypeOK
<1>1. CASE v \in Restorable
  BY <1>0, <1>1 DEF Import, Restorable
<1>2. CASE v \notin Restorable
  <2> DEFINE rest == Without(snapshots, v)
             new == [v |-> v, pruned |-> FALSE]
  <2>1. Import(v) = Append(rest, new)
    BY <1>2 DEF Import
  <2>2. /\ rest \in Seq(Snapshots)
        /\ \A k \in 1..Len(rest) : rest[k].v # v
        /\ \A k \in 1..Len(rest) : \E j \in 1..Len(snapshots) : rest[k] = snapshots[j]
        /\ \A k \in 1..Len(snapshots) : snapshots[k].v # v => \E j \in 1..Len(rest) : rest[j] = snapshots[k]
        /\ \A j, k \in 1..Len(rest) : rest[j].v = rest[k].v => j = k
    BY <1>0, WithoutIs
  <2>3. new \in Snapshots /\ new.v = v /\ ~new.pruned
    BY DEF Snapshots
  <2> HIDE DEF rest, new
  <2> DEFINE all == Append(rest, new)
  <2>4. /\ all \in Seq(Snapshots) /\ Len(all) = Len(rest) + 1 /\ Len(rest) \in Nat
        /\ \A k \in 1..Len(rest) : all[k] = rest[k]
        /\ all[Len(rest) + 1] = new
        /\ DOMAIN all = 1..Len(all)
    BY <2>2, <2>3
  <2> HIDE DEF all
  <2>5. \A k \in 1..Len(all) : k \in 1..Len(rest) \/ k = Len(rest) + 1
    BY <2>4
  <2>6. \A j, k \in 1..Len(all) : all[j].v = all[k].v => j = k
    <3>1. \A k \in 1..Len(rest) : all[k].v # v /\ all[k] = rest[k]
      BY <2>2, <2>4
    <3>2. all[Len(rest) + 1].v = v
      BY <2>3, <2>4
    <3> QED
      BY <2>2, <2>5, <3>1, <3>2
  <2>7. \A u : u \in {all[k].v : k \in Available(all)} <=> \E k \in 1..Len(all) : all[k].v = u /\ ~all[k].pruned
    BY <2>4 DEF Available
  <2>8. \A u : u \in Restorable <=> \E k \in 1..Len(snapshots) : snapshots[k].v = u /\ ~snapshots[k].pruned
    BY <1>0 DEF Available, Restorable
  <2>9. \A u : (\E k \in 1..Len(all) : all[k].v = u /\ ~all[k].pruned)
                 <=> u = v \/ \E k \in 1..Len(snapshots) : snapshots[k].v = u /\ ~snapshots[k].pruned
    <3> TAKE u
    <3>1. ASSUME NEW k \in 1..Len(all), all[k].v = u, ~all[k].pruned
          PROVE  u = v \/ \E j \in 1..Len(snapshots) : snapshots[j].v = u /\ ~snapshots[j].pruned
      BY <2>2, <2>3, <2>4, <2>5, <3>1
    <3>2. u = v => \E k \in 1..Len(all) : all[k].v = u /\ ~all[k].pruned
      BY <2>3, <2>4
    <3>3. ASSUME NEW k \in 1..Len(snapshots), snapshots[k].v = u, ~snapshots[k].pruned, u # v
          PROVE  \E j \in 1..Len(all) : all[j].v = u /\ ~all[j].pruned
      <4>1. PICK j \in 1..Len(rest) : rest[j] = snapshots[k]
        BY <2>2, <3>3
      <4>2. j \in 1..Len(all) /\ all[j] = rest[j]
        BY <2>4, <4>1
      <4> QED
        BY <3>3, <4>1, <4>2
    <3> QED
      BY <3>1, <3>2, <3>3
  <2>10. {all[k].v : k \in Available(all)} = Restorable \cup {v}
    BY <2>7, <2>8, <2>9
  <2>11. Import(v) = all
    BY <2>1 DEF all
  <2>12. Import(v) = all => {Import(v)[k].v : k \in Available(Import(v))} = {all[k].v : k \in Available(all)}
    OBVIOUS
  <2> HIDE DEF all
  <2> QED
    BY <2>4, <2>6, <2>10, <2>11, <2>12
<1> QED
  BY <1>1, <1>2

----------------------------------------------------------------------------
(* Types: the row, the runs, the report. *)

LEMMA SnapshotsTyped ==
    ASSUME TypeOK, OpTypes, Knows, PcFits, StateFits, ReceiptsFit, VersionsFit, OpenFits, BackupFits,
           SnapshotsFit, Next
    PROVE  snapshots' \in Seq(Snapshots)
<1>0. snapshots \in Seq(Snapshots) /\ DOMAIN snapshots = 1..Len(snapshots)
  BY DEF TypeOK
<1>1. CASE AppendVersion
  <2>1. op.pc = "append"
    BY <1>1, AppendVersionDoes
  <2>2. op.tree \in Tree /\ ws \in Tree
    BY <2>1, WorkspaceThere DEF Knows, OpTypes, Projection
  <2>3. \E v \in Content : snapshots' = Import(v)
    BY <1>1, <2>2, AppendVersionDoes DEF Tree
  <2> QED
    BY <1>0, <2>3, ImportIs DEF SnapshotsFit
<1>2. \A head : Retention(snapshots, head) \in Seq(Snapshots)
  BY <1>0, RetentionIs
<1> QED
  BY <1>0, <1>1, <1>2, Writers, ReleaseRetentionDoes, RevertVersionDoes, AcknowledgedDoes, RolledBackDoes

LEMMA RowIs ==
    ASSUME NEW row \in Rows, NEW head \in Id, NEW live \in Tree, NEW thread \in Run \cup {None},
           row.gen + 1 \in Nat
    PROVE  [row EXCEPT !.head = head, !.headLive = live, !.live = live, !.gen = @ + 1, !.thread = thread]
               \in Rows
BY DEF Rows

LEMMA RowConfigured ==
    ASSUME NEW row \in Rows, NEW live \in Tree, row.cfg + 1 \in 0..MaxConfigs
    PROVE  [row EXCEPT !.cfg = @ + 1, !.gen = @ + 1, !.live = live, !.thread = None] \in Rows
<1>1. row.gen + 1 \in Nat
  BY DEF Rows
<1> DEFINE cfg == row.cfg + 1
           gen == row.gen + 1
<1>2. [row EXCEPT !.cfg = @ + 1, !.gen = @ + 1, !.live = live, !.thread = None]
        = [row EXCEPT !.cfg = cfg, !.gen = gen, !.live = live, !.thread = None]
  BY DEF Rows
<1>3. cfg \in 0..MaxConfigs /\ gen \in Nat
  BY <1>1
<1> HIDE DEF cfg, gen
<1> QED
  BY <1>2, <1>3 DEF Rows

LEMMA RowTyped ==
    ASSUME TypeOK, OpTypes, Knows, PcFits, StateFits, ReceiptsFit, OpenFits, BackupFits, OpTrees, Next
    PROVE  db' \in Rows
<1>0. db \in Rows
  BY DEF TypeOK
<1>1. CASE Publish
  BY <1>0, <1>1 DEF Publish, Rows
<1>2. CASE Project
  <2>1. op.pc = "project" /\ op.id \in Id
    BY <1>2, ProjectDoes, Owner
  <2>2. ws \in Tree
    BY <2>1, WorkspaceThere DEF Projection
  <2>3. op.id \in Run => receipt[op.id].final \in Tree
    <3>1. SUFFICES ASSUME op.id \in Run PROVE receipt[op.id].final \in Tree
      OBVIOUS
    <3>2. receipt[op.id].final # None /\ Accepts(op.id)
      BY <2>1, <3>1, SwapState DEF OpTrees, Projection, Near, ReceiptsFit, StateFits
    <3> QED
      BY <3>1, <3>2, PhaseKnown
  <2> DEFINE live == IF op.id \in Run THEN receipt[op.id].final ELSE ws
             thread == IF op.id \in Run THEN op.id ELSE None
  <2>4. db' = [db EXCEPT !.head = op.id, !.headLive = live, !.live = live, !.gen = @ + 1, !.thread = thread]
    BY <1>2 DEF Project, IsRun
  <2>5. live \in Tree /\ thread \in Run \cup {None}
    BY <2>2, <2>3
  <2> HIDE DEF live, thread
  <2>6. db.gen + 1 \in Nat
    BY <1>0 DEF Rows
  <2> QED
    BY <1>0, <2>1, <2>4, <2>5, <2>6, RowIs
<1>3. CASE Release
  BY <1>0, <1>3 DEF Release, Rows
<1>4. CASE Lock
  BY <1>0, <1>4 DEF Lock, Rows
<1>5. CASE Withdraw
  <2>1. op.id \in Rollback /\ up = "up"
    BY <1>5, WithdrawDoes, OwnerOfRollback, InRun DEF InRecovery
  <2>2. op.before \in {"ready", "error"}
    BY <2>1 DEF Knows
  <2> QED
    BY <1>0, <1>5, <2>2 DEF Withdraw, Rows
<1>6. CASE ConfigureRow
  <2>1. op.pc = "configure"
    BY <1>6, ConfigureRowDoes
  <2>2. ws \in Tree /\ db.cfg + 1 \in 0..MaxConfigs
    BY <2>1, WorkspaceThere DEF OpTrees
  <2>3. db' = [db EXCEPT !.cfg = @ + 1, !.gen = @ + 1, !.live = ws, !.thread = None]
    BY <1>6 DEF ConfigureRow
  <2> QED
    BY <1>0, <2>2, <2>3, RowConfigured
<1>7. CASE \E r \in Run : DisposeAtStartup(r)
  <2>1. db' = db \/ db' = [db EXCEPT !.status = "error", !.locked = TRUE, !.thread = None]
    BY <1>7 DEF DisposeAtStartup
  <2> QED
    BY <1>0, <2>1 DEF Rows
<1>8. CASE Reproject
  <2>1. db' = db \/ (ws # None /\ db' = [db EXCEPT !.head = Latest.id, !.headLive = ws, !.live = ws])
    BY <1>8 DEF Reproject
  <2>2. Latest.id \in Id \cup {Initial} /\ ws \in Tree \cup {None}
    BY IndexTyped DEF TypeOK
  <2> QED
    BY <1>0, <2>1, <2>2 DEF Rows
<1>9. CASE Settle
  BY <1>0, <1>9 DEF Settle, Rows
<1>10. CASE \E r \in Run : Submit(r)
  BY <1>0, <1>10 DEF Submit, Rows
<1>11. CASE \E x \in Rollback : StartRollback(x)
  BY <1>0, <1>11 DEF StartRollback, Rows
<1>12. CASE StartAgent
  BY <1>0, <1>12 DEF StartAgent, Rows
<1> QED
  BY <1>0, <1>1, <1>2, <1>3, <1>4, <1>5, <1>6, <1>7, <1>8, <1>9, <1>10, <1>11, <1>12, Writers

LEMMA RunsTyped ==
    ASSUME TypeOK, OpTypes, Knows, PcFits, StateFits, ReceiptsFit, Next
    PROVE  /\ published' \in [Run -> {"none", "queued", "running", "completed", "failed", "cancelled"}]
           /\ spoken' \subseteq Run
           /\ up' \in {"up", "down", "starting"} /\ reserved' \in BOOLEAN
<1>0. /\ published \in [Run -> {"none", "queued", "running", "completed", "failed", "cancelled"}]
      /\ spoken \subseteq Run /\ up \in {"up", "down", "starting"} /\ reserved \in BOOLEAN
  BY DEF TypeOK
<1>1. spoken' \subseteq Run
  BY <1>0, Writers, ProjectDoes, SettleDoes
<1>2. up' \in {"up", "down", "starting"}
  BY <1>0, Writers, ServeDoes, StartDoes, FaultAtStartupDoes, CrashDoes
<1>3. reserved' \in BOOLEAN
  BY <1>0, Writers, PublishDoes, LockDoes, SettleDoes, StartDoes, FaultDoes
<1>4. published' \in [Run -> {"none", "queued", "running", "completed", "failed", "cancelled"}]
  <2>1. Publish => published' \in [Run -> {"none", "queued", "running", "completed", "failed", "cancelled"}]
    BY <1>0, PublishDoes DEF Outcome
  <2>2. Settle => published' \in [Run -> {"none", "queued", "running", "completed", "failed", "cancelled"}]
    BY <1>0 DEF Settle
  <2> QED
    BY <1>0, <2>1, <2>2, Writers, BindDoes, ReleaseDoes, LockDoes, SubmitDoes
<1> QED
  BY <1>1, <1>2, <1>3, <1>4

LEMMA ReportTyped ==
    ASSUME TypeOK, OpTypes, Knows, PcFits, StateFits, ReceiptsFit, Next
    PROVE  startup' \in Reports
<1>0. startup \in Reports
  BY DEF TypeOK
<1>1. NoReport \in Reports /\ [NoReport EXCEPT !.todo = {i \in Id : journal[i] # None}] \in Reports
  BY DEF NoReport, Reports
<1>2. UndoJournal \/ FaultAtStartup => startup' \in Reports
  <2>1. ASSUME NEW why \in {"ambiguous", "fault"}
        PROVE  [startup EXCEPT !.manual = IF @ = "no" THEN why ELSE @, !.todo = @ \ {op.id}] \in Reports
    BY <1>0 DEF Reports
  <2>2. UndoJournal => startup' = startup \/ Manual("ambiguous")
    BY DEF UndoJournal
  <2>3. FaultAtStartup => startup' = NoReport \/ Manual("fault")
    BY DEF FaultAtStartup
  <2> QED
    BY <1>0, <1>1, <2>1, <2>2, <2>3 DEF Manual
<1>3. (\E i \in Id : Examine(i)) => startup' \in Reports
  BY <1>0 DEF Examine, Clean, Reports
<1>4. Acknowledged \/ RolledBack => startup' \in Reports
  <2>1. Acknowledged \/ RolledBack => op.id \in Id
    BY AcknowledgedDoes, RolledBackDoes, Owner
  <2>2. op.id \in Id => /\ [startup EXCEPT !["acked"] = @ \cup {op.id}, !.todo = @ \ {op.id}] \in Reports
                        /\ [startup EXCEPT !["rolled"] = @ \cup {op.id}, !.todo = @ \ {op.id}] \in Reports
    BY <1>0 DEF Reports
  <2> QED
    BY <2>1, <2>2 DEF Acknowledged, RolledBack, Report
<1>5. (\E r \in Run : ScanReceipt(r)) => startup' \in Reports
  BY <1>0 DEF ScanReceipt, Reports, Id
<1>6. (\E r \in Run : DisposeAtStartup(r)) => startup' \in Reports
  BY <1>0 DEF DisposeAtStartup, Reports
<1>7. Reproject => startup' \in Reports
  BY <1>0 DEF Reproject, Reports
<1>8. Settle => startup' \in Reports
  BY <1>0 DEF Settle, Reports, Id
<1>9. Serve \/ Start \/ Crash => startup' \in Reports
  BY <1>1 DEF Serve, Start, Crash
<1> QED
  BY <1>0, <1>2, <1>3, <1>4, <1>5, <1>6, <1>7, <1>8, <1>9, Writers

\* Deaths, faults and writes from outside are counted.
LEMMA BoundsTurn ==
    ASSUME TypeOK, OpTypes, Knows, PcFits, StateFits, ReceiptsFit, Next
    PROVE  /\ crashes' = crashes \/ (crashes' = crashes + 1 /\ up' = "down")
           /\ faults' \in {faults, faults + 1} /\ drifts' \in {drifts, drifts + 1}
<1>1. CASE Bind \/ Prepare \/ PrepareConflict \/ RecordAdmissionFailure \/ RunAgent \/ AgentEnds
  BY <1>1, BindDoes, PrepareDoes, PrepareConflictDoes, RecordAdmissionFailureDoes, RunAgentDoes,
     AgentEndsDoes DEF Becomes, Moves
<1>2. CASE Seal \/ SealRefuses \/ Verify
  BY <1>2, SealDoes, SealRefusesDoes, VerifyDoes DEF Moves, Becomes
<1>3. CASE Reject
  <2>1. faults' \in {faults, faults + 1}
    BY <1>3 DEF Reject
  <2> QED
    BY <1>3, <2>1, RejectDoes
<1>4. CASE RejectReceipt \/ Publish \/ Dispose \/ Issue \/ Claim \/ RecordPromotion
  BY <1>4, RejectReceiptDoes, PublishDoes, DisposeDoes, IssueDoes, ClaimDoes, RecordPromotionDoes DEF
     Becomes, Moves, HeadStays, Idle
<1>5. CASE Stage \/ CompareBase \/ CompareConflict \/ Consume \/ Promoting \/ Vacate
  BY <1>5, StageDoes, CompareBaseDoes, CompareConflictDoes, ConsumeDoes, PromotingDoes, VacateDoes DEF
     Moves, Becomes, JournalSet
<1>6. CASE Fill \/ PendingDatabase \/ RecordFinal \/ AppendVersion \/ Project \/ DropBackup
  BY <1>6, FillDoes, PendingDatabaseDoes, RecordFinalDoes, AppendVersionDoes, ProjectDoes,
     DropBackupDoes DEF Moves, Becomes, JournalSet
<1>7. CASE \/ AcknowledgeJournal \/ ReleaseRetention \/ DestroyProposal \/ TerminalReceipt
           \/ Release \/ UndoSwap
  BY <1>7, AcknowledgeJournalDoes, ReleaseRetentionDoes, DestroyProposalDoes, TerminalReceiptDoes,
     ReleaseDoes, UndoSwapDoes DEF Moves, JournalSet, Becomes, HeadStays, Idle
<1>8. CASE UndoJournal \/ CloseJournal \/ RevertVersion \/ AbortReceipt \/ Lock \/ Regenerate
  BY <1>8, UndoJournalDoes, CloseJournalDoes, RevertVersionDoes, AbortReceiptDoes, LockDoes,
     RegenerateDoes DEF Moves, JournalSet, LeftToAnAdministrator, Becomes, Begins, HeadStays, Idle
<1>9. CASE Withdraw \/ ConfigureRow
  BY <1>9, WithdrawDoes, ConfigureRowDoes DEF HeadStays, Idle
<1>10. CASE \E i \in Id : Examine(i)
  <2>1. PICK i \in Id : Examine(i)
    BY <1>10
  <2> QED
    BY <2>1, ExamineDoes DEF Begins, JournalSet
<1>11. CASE Acknowledged \/ RolledBack
  BY <1>11, AcknowledgedDoes, RolledBackDoes DEF Begins
<1>12. CASE \E r \in Run : ScanReceipt(r)
  <2>1. PICK r \in Run : ScanReceipt(r)
    BY <1>12
  <2> QED
    BY <2>1, ScanReceiptDoes
<1>13. CASE \E r \in Run : DisposeAtStartup(r)
  <2>1. PICK r \in Run : DisposeAtStartup(r)
    BY <1>13
  <2> QED
    BY <2>1, DisposeAtStartupDoes DEF HeadStays
<1>14. CASE Reproject \/ Settle \/ Serve
  BY <1>14, ReprojectDoes, SettleDoes, ServeDoes DEF Moves, Becomes, HeadStays, Idle
<1>15. CASE \E r \in Run : Submit(r)
  <2>1. PICK r \in Run : Submit(r)
    BY <1>15
  <2> QED
    BY <2>1, SubmitDoes DEF Begins, HeadStays, Idle
<1>16. CASE \E x \in Rollback : StartRollback(x)
  <2>1. PICK x \in Rollback : StartRollback(x)
    BY <1>16
  <2> QED
    BY <2>1, StartRollbackDoes DEF HeadStays, Idle
<1>17. CASE Configure \/ StartAgent \/ Cancel \/ Start \/ FaultAtStartup \/ Crash
  BY <1>17, ConfigureDoes, StartAgentDoes, CancelDoes, StartDoes, FaultAtStartupDoes, CrashDoes DEF
     Begins, Idle, HeadStays, Becomes, LeftToAnAdministrator
<1>18. CASE Drift \/ Fault
  BY <1>18, DriftDoes, FaultDoes DEF Becomes, Moves, Idle, FaultEarly, FaultInSwap, FaultLate
<1> QED
  BY <1>1, <1>2, <1>3, <1>4, <1>5, <1>6, <1>7, <1>8, <1>9, <1>10, <1>11, <1>12, <1>13, <1>14,
     <1>15, <1>16, <1>17, <1>18 DEF Next, Request, Step, RunStep, TransitionStep, StartupStep

LEMMA TypeOKKept ==
    ASSUME TypeOK, OpTypes, Knows, PcFits, StateFits, PermitFits, ReceiptsFit, PublishedFits,
           VersionsFit, OpenFits, BackupFits, OpTrees, SnapshotsFit, Next
    PROVE  TypeOK'
<1>1. op'.id \in Id \cup {None}
  BY WhoGoesOn DEF TypeOK
<1>2. crashes' \in Nat /\ faults' \in Nat /\ drifts' \in Nat
  BY BoundsTurn DEF TypeOK
<1> QED
  BY <1>1, <1>2, WorkspaceTyped, DiskTyped, IndexStaysTyped, SnapshotsTyped, RowTyped, RunsTyped,
     ReportTyped DEF TypeOK

----------------------------------------------------------------------------
(* Where operations go. *)

\* Where an operation goes on.
LEMMA Departures ==
    ASSUME TypeOK, OpTypes, Knows, PcFits, StateFits, ReceiptsFit, op.id # None, op'.id = op.id, Next
    PROVE  /\ op.pc = "bind" => Stays \/ op'.pc \in {"prepare"}
           /\ op.pc = "prepare" => Stays \/ op'.pc \in {"agent", "admission"}
           /\ op.pc = "admission" => Stays \/ op'.pc \in {"publish"}
           /\ op.pc = "agent" => Stays \/ op'.pc \in {"seal", "reject"}
           /\ op.pc = "seal" => Stays \/ op'.pc \in {"verify", "reject"}
           /\ op.pc = "verify" => Stays \/ op'.pc \in {"issue", "reject"}
           /\ op.pc = "regenerate" => Stays \/ op'.pc \in {"issue", "withdraw"}
           /\ op.pc = "issue" => Stays \/ op'.pc \in {"claim", "reject", "withdraw"}
           /\ op.pc = "claim" => Stays \/ op'.pc \in {"record", "stage", "reject", "withdraw"}
           /\ op.pc = "record" => Stays \/ op'.pc \in {"stage", "reject"}
           /\ op.pc = "stage" => Stays \/ op'.pc \in {"cas", "reject", "withdraw"}
           /\ op.pc = "cas" => Stays \/ op'.pc \in {"consume", "reject", "withdraw"}
           /\ op.pc = "consume" => Stays \/ op'.pc \in {"promoting", "close"}
           /\ op.pc = "promoting" => Stays \/ op'.pc \in {"vacate", "reject", "withdraw"}
           /\ op.pc = "vacate" => Stays \/ op'.pc \in {"fill", "close"}
           /\ op.pc = "fill" => Stays \/ op'.pc \in {"pendingDb", "undo"}
           /\ op.pc = "pendingDb" => Stays \/ op'.pc \in {"final", "append", "lock"}
           /\ op.pc = "final" => Stays \/ op'.pc \in {"append", "undo"}
           /\ op.pc = "append" => Stays \/ op'.pc \in {"project", "undo"}
           /\ op.pc = "project" => Stays \/ op'.pc \in {"dropBackup", "undo"}
           /\ op.pc = "dropBackup" => Stays \/ op'.pc \in {"acknowledge", "lock"}
           /\ op.pc = "acknowledge" => Stays \/ op'.pc \in {"retention", "lock", "dropBackup"}
           /\ op.pc = "retention" => Stays \/ op'.pc \in {"terminal", "destroy", "release", "lock", "dropBackup"}
           /\ op.pc = "destroy" => Stays \/ op'.pc \in {"terminal"}
           /\ op.pc = "terminal" => Stays \/ op'.pc \in {"release", "lock", "dropBackup"}
           /\ op.pc = "release" => Stays \/ op'.pc \in {"publish", "lock"}
           /\ op.pc = "undo" => Stays \/ op'.pc \in {"reject", "withdraw", "revert", "lock"}
           /\ op.pc = "close" => Stays \/ op'.pc \in {"reject", "withdraw", "lock"}
           /\ op.pc = "revert" => Stays \/ op'.pc \in {"abortReceipt", "rolled", "withdraw", "lock"}
           /\ op.pc = "abortReceipt" => Stays \/ op'.pc \in {"rolled", "publish", "reject", "lock"}
           /\ op.pc = "reject" => Stays \/ op'.pc \in {"rejectReceipt"}
           /\ op.pc = "rejectReceipt" => Stays \/ op'.pc \in {"publish"}
           /\ op.pc = "publish" => Stays \/ op'.pc \in {"dispose"}
           /\ op.pc = "dispose" => Stays
           /\ op.pc = "withdraw" => Stays
           /\ op.pc = "lock" => Stays
           /\ op.pc = "rolled" => Stays
<1>1. CASE Bind \/ Prepare \/ PrepareConflict \/ RecordAdmissionFailure \/ RunAgent \/ AgentEnds
  BY <1>1, BindDoes, PrepareDoes, PrepareConflictDoes, RecordAdmissionFailureDoes, RunAgentDoes,
     AgentEndsDoes DEF Stays, Becomes, Moves
<1>2. CASE Seal \/ SealRefuses \/ Verify \/ Reject \/ RejectReceipt \/ Publish
  BY <1>2, SealDoes, SealRefusesDoes, VerifyDoes, RejectDoes, RejectReceiptDoes, PublishDoes DEF
     Stays, Moves, Becomes, HeadStays, Idle
<1>3. CASE Dispose \/ Issue \/ Claim \/ RecordPromotion \/ Stage \/ CompareBase
  BY <1>3, DisposeDoes, IssueDoes, ClaimDoes, RecordPromotionDoes, StageDoes, CompareBaseDoes DEF
     Stays, Idle, Moves, Becomes
<1>4. CASE CompareConflict \/ Consume \/ Promoting \/ Vacate \/ Fill \/ PendingDatabase
  BY <1>4, CompareConflictDoes, ConsumeDoes, PromotingDoes, VacateDoes, FillDoes,
     PendingDatabaseDoes DEF Stays, Becomes, Moves, JournalSet
<1>5. CASE \/ RecordFinal \/ AppendVersion \/ Project \/ DropBackup \/ AcknowledgeJournal
           \/ ReleaseRetention
  BY <1>5, RecordFinalDoes, AppendVersionDoes, ProjectDoes, DropBackupDoes,
     AcknowledgeJournalDoes, ReleaseRetentionDoes DEF Stays, Becomes, Moves, JournalSet
<1>6. CASE DestroyProposal \/ TerminalReceipt \/ Release \/ UndoSwap
  BY <1>6, DestroyProposalDoes, TerminalReceiptDoes, ReleaseDoes, UndoSwapDoes DEF Stays, Moves,
     Becomes, HeadStays, Idle
<1>7. CASE UndoJournal
  <2>1. op.pc = "close" => op.then \in {"reject", "withdraw"}
    BY DEF Knows
  <2>2. op.pc = "undo" => op.then \in {"reject", "withdraw", "revert"}
    BY DEF Knows
  <2> QED
    BY <1>7, <2>1, <2>2, UndoJournalDoes DEF Stays, Moves, Becomes, LeftToAnAdministrator, Begins
<1>8. CASE CloseJournal
  <2>1. op.pc = "close" => op.then \in {"reject", "withdraw"}
    BY DEF Knows
  <2>2. op.pc = "undo" => op.then \in {"reject", "withdraw", "revert"}
    BY DEF Knows
  <2> QED
    BY <1>8, <2>1, <2>2, CloseJournalDoes DEF Stays, Moves, Becomes
<1>9. CASE RevertVersion
  BY <1>9, RevertVersionDoes DEF Stays, Moves, Becomes
<1>10. CASE AbortReceipt
  BY <1>10, AbortReceiptDoes DEF Stays, Becomes, Moves
<1>11. CASE Lock
  BY <1>11, LockDoes DEF Stays, HeadStays, Idle
<1>12. CASE Regenerate \/ Withdraw \/ ConfigureRow
  BY <1>12, RegenerateDoes, WithdrawDoes, ConfigureRowDoes DEF Stays, HeadStays, Idle
<1>13. CASE \E i \in Id : Examine(i)
  <2>1. PICK i \in Id : Examine(i)
    BY <1>13
  <2> QED
    BY <2>1, ExamineBegins, OwnerOfNobody
<1>14. CASE Acknowledged \/ RolledBack
  BY <1>14, AcknowledgedDoes, RolledBackDoes DEF Stays, Begins
<1>15. CASE \E r \in Run : ScanReceipt(r)
  <2>1. PICK r \in Run : ScanReceipt(r)
    BY <1>15
  <2> QED
    BY <2>1, ScanReceiptDoes DEF Stays
<1>16. CASE \E r \in Run : DisposeAtStartup(r)
  <2>1. PICK r \in Run : DisposeAtStartup(r)
    BY <1>16
  <2> QED
    BY <2>1, DisposeAtStartupDoes DEF Stays, HeadStays
<1>17. CASE Reproject \/ Settle \/ Serve
  BY <1>17, ReprojectDoes, SettleDoes, ServeDoes DEF Stays, Moves, Becomes, HeadStays, Idle
<1>18. CASE \E r \in Run : Submit(r)
  <2>1. PICK r \in Run : Submit(r)
    BY <1>18
  <2> QED
    BY <2>1, SubmitDoes, OwnerOfNobody DEF Idle
<1>19. CASE \E x \in Rollback : StartRollback(x)
  <2>1. PICK x \in Rollback : StartRollback(x)
    BY <1>19
  <2> QED
    BY <2>1, StartRollbackDoes, OwnerOfNobody DEF Idle
<1>20. CASE Configure \/ StartAgent \/ Cancel
  BY <1>20, ConfigureDoes, StartAgentDoes, CancelDoes DEF Stays, Begins, Idle, HeadStays, Becomes
<1>21. CASE Start
  BY <1>21, StartDoes DEF Stays, Begins
<1>22. CASE FaultAtStartup \/ Crash
  BY <1>22, FaultAtStartupDoes, CrashDoes DEF Stays, LeftToAnAdministrator, Begins, Idle
<1>23. CASE Drift
  BY <1>23, DriftDoes DEF Stays
<1>24. CASE Fault
  <2>1. op.pc = "close" => op.then \in {"reject", "withdraw"}
    BY DEF Knows
  <2>2. FaultEarly \/ FaultInSwap \/ FaultLate \/ op' = Idle
    BY <1>24, FaultDoes
  <2>3. up' = up
    BY <1>24, FaultDoes
  <2>4. CASE FaultEarly
    BY <2>4 DEF FaultEarly, Moves, Becomes
  <2>5. CASE FaultInSwap
    BY <2>1, <2>5 DEF FaultInSwap, Moves, Becomes
  <2>6. CASE FaultLate
    BY <2>3, <2>6 DEF FaultLate, Moves, Becomes, Stays
  <2> QED
    BY <2>2, <2>4, <2>5, <2>6 DEF Idle
<1> QED
  BY <1>1, <1>2, <1>3, <1>4, <1>5, <1>6, <1>7, <1>8, <1>9, <1>10, <1>11, <1>12, <1>13, <1>14,
     <1>15, <1>16, <1>17, <1>18, <1>19, <1>20, <1>21, <1>22, <1>23, <1>24 DEF Next, Request, Step,
     RunStep, TransitionStep, StartupStep

----------------------------------------------------------------------------
(* How the status of a run turns; where operations begin. *)

\* How the row of a run turns.
RunTurns(r) ==
    \/ op.pc = "bind" /\ op.id = r /\ published'[r] = "running"
    \/ /\ op.pc \in {"publish", "lock", "release"} /\ op.id = r
       /\ published'[r] \in {"completed", "failed", "cancelled"}
       /\ op' = Idle \/ op'.pc = "dispose"
       /\ published'[r] = "completed" /\ Accepts(r) => Phase(r) = "TERMINAL"
    \/ op.pc = "settle" /\ op'.pc = "dispositions" /\ published'[r] \in {"failed", "cancelled"}
    \/ published[r] = "none" /\ published'[r] = "queued" /\ op = Idle /\ op'.id = r

LEMMA RunsTurn ==
    ASSUME TypeOK, OpTypes, Knows, PcFits, StateFits, ReceiptsFit, Next, NEW r \in Run
    PROVE  published'[r] = published[r] \/ RunTurns(r)
<1>0. /\ published \in [Run -> {"none", "queued", "running", "completed", "failed", "cancelled"}]
  BY DEF TypeOK
<1>1. CASE Bind
  BY <1>0, <1>1, BindDoes DEF RunTurns
<1>2. CASE Publish
  <2>1. op.pc = "publish" /\ published' = [published EXCEPT ![op.id] = Outcome] /\ (op' = Idle \/ op'.pc = "dispose")
    BY <1>2, PublishDoes DEF Moves, Becomes
  <2>2. Outcome \in {"completed", "failed", "cancelled"} /\ (Outcome = "completed" => op.outcome = "decided")
    BY DEF Outcome
  <2>3. op.outcome = "decided" => ~Accepts(op.id)
    BY <2>1 DEF ReceiptsFit
  <2> QED
    BY <1>0, <2>1, <2>2, <2>3 DEF RunTurns
<1>3. CASE Release
  <2>1. op.pc = "release" /\ op' = Idle
        /\ published' = IF op.id \in Run THEN [published EXCEPT ![op.id] = "completed"] ELSE published
    BY <1>3, ReleaseDoes
  <2>2. op.id \in Run => Phase(op.id) = "TERMINAL"
    BY <2>1 DEF ReceiptsFit
  <2> QED
    BY <1>0, <2>1, <2>2 DEF RunTurns
<1>4. CASE Lock
  BY <1>0, <1>4, LockDoes DEF RunTurns
<1>5. CASE Settle
  <2>1. op.pc = "settle" /\ op'.pc = "dispositions"
    BY <1>5, SettleDoes DEF Moves, Becomes
  <2>2. published'[r] \in {published[r], "cancelled", "failed"}
    BY <1>5, SettleDoes
  <2> QED
    BY <2>1, <2>2 DEF RunTurns
<1>6. CASE \E s \in Run : Submit(s)
  <2>1. PICK s \in Run : Submit(s)
    BY <1>6
  <2>2. published[s] = "none" /\ published' = [published EXCEPT ![s] = "queued"] /\ op = Idle /\ op'.id = s
    BY <2>1, SubmitDoes DEF Begins
  <2> QED
    BY <1>0, <2>2 DEF RunTurns
<1> QED
  BY <1>1, <1>2, <1>3, <1>4, <1>5, <1>6, Writers

LEMMA Beginnings ==
    ASSUME TypeOK, OpTypes, Knows, PcFits, StateFits, ReceiptsFit, op.id = None, op'.id # None, Next
    PROVE  (\E r \in Run : Submit(r)) \/ (\E x \in Rollback : StartRollback(x)) \/ (\E i \in Id : Examine(i))
<1>1. CASE Bind \/ Prepare \/ PrepareConflict \/ RecordAdmissionFailure \/ RunAgent \/ AgentEnds
  BY <1>1, BindDoes, PrepareDoes, PrepareConflictDoes, RecordAdmissionFailureDoes, RunAgentDoes,
     AgentEndsDoes DEF Becomes, Moves
<1>2. CASE Seal \/ SealRefuses \/ Verify \/ Reject \/ RejectReceipt \/ Publish
  BY <1>2, SealDoes, SealRefusesDoes, VerifyDoes, RejectDoes, RejectReceiptDoes, PublishDoes DEF
     Moves, Becomes, HeadStays, Idle
<1>3. CASE Dispose \/ Issue \/ Claim \/ RecordPromotion \/ Stage \/ CompareBase
  BY <1>3, DisposeDoes, IssueDoes, ClaimDoes, RecordPromotionDoes, StageDoes, CompareBaseDoes DEF
     Idle, Moves, Becomes
<1>4. CASE CompareConflict \/ Consume \/ Promoting \/ Vacate \/ Fill \/ PendingDatabase
  BY <1>4, CompareConflictDoes, ConsumeDoes, PromotingDoes, VacateDoes, FillDoes,
     PendingDatabaseDoes DEF Becomes, Moves, JournalSet
<1>5. CASE \/ RecordFinal \/ AppendVersion \/ Project \/ DropBackup \/ AcknowledgeJournal
           \/ ReleaseRetention
  BY <1>5, RecordFinalDoes, AppendVersionDoes, ProjectDoes, DropBackupDoes,
     AcknowledgeJournalDoes, ReleaseRetentionDoes DEF Becomes, Moves, JournalSet
<1>6. CASE \/ DestroyProposal \/ TerminalReceipt \/ Release \/ UndoSwap \/ UndoJournal
           \/ CloseJournal
  BY <1>6, DestroyProposalDoes, TerminalReceiptDoes, ReleaseDoes, UndoSwapDoes, UndoJournalDoes,
     CloseJournalDoes DEF Moves, Becomes, HeadStays, Idle, JournalSet, LeftToAnAdministrator,
     Begins
<1>7. CASE RevertVersion
  BY <1>7, RevertVersionDoes DEF Moves, Becomes
<1>8. CASE AbortReceipt
  BY <1>8, AbortReceiptDoes DEF Becomes, Moves
<1>9. CASE Lock
  BY <1>9, LockDoes DEF HeadStays, Idle
<1>10. CASE Regenerate \/ Withdraw \/ ConfigureRow
  BY <1>10, RegenerateDoes, WithdrawDoes, ConfigureRowDoes DEF HeadStays, Idle
<1>11. CASE \E i \in Id : Examine(i)
  BY <1>11
<1>12. CASE Acknowledged \/ RolledBack
  BY <1>12, AcknowledgedDoes, RolledBackDoes DEF Begins
<1>13. CASE \E r \in Run : ScanReceipt(r)
  <2>1. PICK r \in Run : ScanReceipt(r)
    BY <1>13
  <2> QED
    BY <2>1, ScanReceiptDoes
<1>14. CASE \E r \in Run : DisposeAtStartup(r)
  <2>1. PICK r \in Run : DisposeAtStartup(r)
    BY <1>14
  <2> QED
    BY <2>1, DisposeAtStartupDoes DEF HeadStays
<1>15. CASE Reproject \/ Settle \/ Serve
  BY <1>15, ReprojectDoes, SettleDoes, ServeDoes DEF Moves, Becomes, HeadStays, Idle
<1>16. CASE \E r \in Run : Submit(r)
  BY <1>16
<1>17. CASE \E x \in Rollback : StartRollback(x)
  BY <1>17
<1>18. CASE Configure \/ StartAgent \/ Cancel
  BY <1>18, ConfigureDoes, StartAgentDoes, CancelDoes DEF Begins, Idle, HeadStays, Becomes
<1>19. CASE Start
  BY <1>19, StartDoes DEF Begins
<1>20. CASE FaultAtStartup \/ Crash
  BY <1>20, FaultAtStartupDoes, CrashDoes DEF LeftToAnAdministrator, Begins, Idle
<1>21. CASE Drift \/ Fault
  BY <1>21, DriftDoes, FaultDoes DEF Becomes, Moves, Idle, FaultEarly, FaultInSwap, FaultLate
<1> QED
  BY <1>1, <1>2, <1>3, <1>4, <1>5, <1>6, <1>7, <1>8, <1>9, <1>10, <1>11, <1>12, <1>13, <1>14,
     <1>15, <1>16, <1>17, <1>18, <1>19, <1>20, <1>21 DEF Next, Request, Step, RunStep,
     TransitionStep, StartupStep

\* Who begins.
LEMMA Beginners ==
    ASSUME TypeOK, OpTypes, Knows, PcFits, StateFits, ReceiptsFit, Next, op'.id # None, op'.id # op.id
    PROVE  /\ op.id = None
           /\ \/ \E r \in Run : Submit(r) /\ op'.id = r
              \/ \E x \in Rollback : StartRollback(x) /\ op'.id = x
              \/ \E i \in Id : Examine(i) /\ op'.id = i /\ up = "starting" /\ up' = "starting"
<1>1. op.id = None
  BY WhoGoesOn
<1>2. op.pc \in OfNobody
  BY <1>1 DEF PcFits, OwnerFits
<1>3. (\E r \in Run : Submit(r)) => \E r \in Run : Submit(r) /\ op'.id = r
  BY SubmitDoes DEF Begins
<1>4. (\E x \in Rollback : StartRollback(x)) => \E x \in Rollback : StartRollback(x) /\ op'.id = x
  BY StartRollbackDoes
<1>5. (\E i \in Id : Examine(i)) =>
         \E i \in Id : Examine(i) /\ op'.id = i /\ up = "starting" /\ up' = "starting"
  BY <1>1, ExamineBegins, Recovers
<1>6. \/ (\E r \in Run : Submit(r)) \/ (\E x \in Rollback : StartRollback(x)) \/ (\E i \in Id : Examine(i))
  <2>1. op'.pc \notin OfNobody \/ op'.id = None
    BY OwnerFitsKept DEF OwnerFits
  <2>2. ~Stays
    BY DEF Stays
  <2> QED
    BY <1>1, <1>2, <2>1, <2>2, Beginnings
<1> QED
  BY <1>1, <1>3, <1>4, <1>5, <1>6

----------------------------------------------------------------------------
(* What is published of a run. *)

LEMMA UnpublishedKept ==
    ASSUME TypeOK, OpTypes, Knows, PcFits, StateFits, PermitFits, ReceiptsFit, PublishedFits, Next,
           NEW r \in Run, published'[r] = "none"
    PROVE  /\ permit'[r] = "NONE" /\ receipt'[r] = None /\ proposal'[r] = "NONE" /\ op'.id # r
<1>1. published[r] = "none"
  BY RunsTurn DEF RunTurns
<1>2. permit[r] = "NONE" /\ receipt[r] = None /\ proposal[r] = "NONE" /\ op.id # r
  BY <1>1 DEF PublishedFits, Unpublished
<1>3. r \in Id /\ r # None /\ r \notin Rollback /\ journal[r] = None
  BY <1>2, Someone DEF PermitFits
<1>4. op'.id # r
  <2>1. SUFFICES ASSUME op'.id = r PROVE FALSE
    OBVIOUS
  <2>2. CASE \E s \in Run : Submit(s) /\ op'.id = s
    <3>1. published' = [published EXCEPT ![r] = "queued"]
      BY <2>1, <2>2, SubmitDoes
    <3> QED
      BY <3>1 DEF TypeOK
  <2>3. CASE \E i \in Id : Examine(i) /\ op'.id = i /\ up = "starting" /\ up' = "starting"
    <3>1. op.pc = "journals" /\ r \in startup.todo /\ up = "starting"
      BY <2>1, <2>3, ExamineBegins
    <3> QED
      BY <1>3, <3>1 DEF ReceiptsFit
  <2> QED
    BY <1>2, <1>3, <2>1, <2>2, <2>3, Beginners
<1>5. receipt'[r] = None
  BY <1>2, ReceiptsTurn DEF RecoveryTurns
<1>6. permit'[r] = "NONE"
  <2>1. permit \in [Id -> Permits]
    BY DEF TypeOK
  <2> QED
    BY <1>2, <1>3, <2>1, Writers, RejectDoes, IssueDoes, ClaimDoes, ConsumeDoes, WithdrawDoes
<1>7. proposal'[r] = "NONE"
  <2>1. proposal \in [Run -> {"NONE", "SEALED", "DESTROYED"}]
    BY DEF TypeOK
  <2> QED
    BY <1>2, <2>1, Writers, SealDoes, RejectDoes, DestroyProposalDoes, AbortReceiptDoes
<1> QED
  BY <1>4, <1>5, <1>6, <1>7

LEMMA CompletedFitsKept ==
    ASSUME TypeOK, OpTypes, Knows, PcFits, StateFits, PermitFits, ReceiptsFit, PublishedFits, Next,
           NEW r \in Run, published'[r] = "completed", Accepts(r)'
    PROVE  Phase(r)' = "TERMINAL"
<1>1. /\ published[r] = "completed" /\ Accepts(r) => Phase(r) = "TERMINAL"
      /\ op.id = r /\ up = "up" /\ op.pc # "dispose" => published[r] \in {"queued", "running"}
  BY DEF PublishedFits, CompletedFits
<1>2. CASE op.id = r /\ ReceiptTurns(r)
  <2>1. CASE op.pc = "record" \/ op.pc = "final"
    <3>1. up = "up" /\ op'.pc \in {"stage", "append", "undo"}
      BY <1>2, <2>1, InRun DEF InRecovery, ReceiptTurns
    <3>2. published'[r] = "completed" => published[r] = "completed"
      BY <2>1, RunsTurn DEF RunTurns, Idle
    <3> QED
      BY <1>1, <1>2, <2>1, <3>1, <3>2
  <2> QED
    BY <1>2, <2>1 DEF ReceiptTurns, ReceiptIs, Accepts, Refusals
<1>3. CASE RecoveryTurns(r)
  BY <1>3 DEF RecoveryTurns, ReceiptIs
<1>4. CASE receipt'[r] = receipt[r] /\ Phase(r)' = Phase(r) /\ (Accepts(r)' <=> Accepts(r))
  BY <1>1, <1>4, RunsTurn DEF RunTurns
<1> QED
  BY <1>2, <1>3, <1>4, ReceiptsTurn

LEMMA PublishedFitsKept ==
    ASSUME TypeOK, OpTypes, Knows, PcFits, StateFits, PermitFits, ReceiptsFit, PublishedFits, PcFits', Next
    PROVE  PublishedFits'
<1>1. Unpublished'
  BY UnpublishedKept DEF Unpublished
<1>2. CompletedFits'
  BY CompletedFitsKept DEF CompletedFits
<1>3. ASSUME NEW r \in Run, op'.id = r, up' = "up", op'.pc # "dispose"
      PROVE  published'[r] \in {"queued", "running"}
  <2>0. r # None /\ r \in Id /\ r \notin Rollback
    BY Someone
  <2>1. CASE op.id = r
    <3>1. up = "up"
      BY <1>3, <2>0, <2>1, Writers, ServeDoes, StartDoes, FaultAtStartupDoes, CrashDoes DEF Idle, Begins
    <3>2. op.pc # "dispose"
      BY <1>3, <2>0, <2>1, Departures DEF Stays
    <3>3. published[r] \in {"queued", "running"}
      BY <2>1, <3>1, <3>2 DEF PublishedFits
    <3>4. op.pc # "settle"
      BY <2>0, <2>1, OwnerOfNobody
    <3> QED
      BY <1>3, <2>0, <3>3, <3>4, RunsTurn DEF RunTurns, Idle
  <2>2. CASE \E s \in Run : Submit(s) /\ op'.id = s
    <3>1. published' = [published EXCEPT ![r] = "queued"]
      BY <1>3, <2>2, SubmitDoes
    <3> QED
      BY <3>1 DEF TypeOK
  <2> QED
    BY <1>3, <2>0, <2>1, <2>2, Beginners
<1> QED
  BY <1>1, <1>2, <1>3 DEF PublishedFits

----------------------------------------------------------------------------
(* What a step opens, and who departs from what is open. *)

\* A transition becomes an open one in two ways.
LEMMA Opens ==
    ASSUME TypeOK, OpTypes, Knows, PcFits, StateFits, PermitFits, ReceiptsFit, PublishedFits,
           VersionsFit, OpenFits, Next, NEW i \in Id, Open(i)', ~Open(i)
    PROVE  op.id = i /\ op.pc \in {"record", "promoting"} /\ op'.id = i /\ up = "up" /\ up' = "up"
           /\ op'.pc \in {"stage", "vacate"}
<1>0. /\ InSwap(i) <=> State(i) \in {"PROMOTING", "PROMOTED_PENDING_DB"}
      /\ InSwap(i)' <=> State(i)' \in {"PROMOTING", "PROMOTED_PENDING_DB"}
      /\ i # None
      /\ Committed(i) => State(i) \in {"PROMOTED_PENDING_DB", "ACKNOWLEDGED", "ROLLED_BACK"}
      /\ Committed(i)' => State(i)' \in {"PROMOTED_PENDING_DB", "ACKNOWLEDGED", "ROLLED_BACK"}
  BY SwapState, Someone, CommittedFitsKept DEF VersionsFit
<1>1. ~InSwap(i) /\ ~(State(i) = "ROLLED_BACK" /\ Committed(i))
      /\ ~(i \in Run /\ State(i) = "NONE" /\ Phase(i) = "PENDING_PROMOTION")
  BY DEF Open, Undecided, Announced
<1>2. ASSUME op.id = i, op'.id = i, op.pc \in {"record", "promoting"}, op'.pc \in {"stage", "vacate"}
      PROVE  up = "up" /\ up' = "up"
  <2>1. up = "up"
    BY <1>2, InRun DEF InRecovery
  <2>2. PcFits'
    BY OwnerFitsKept, RestFitsKept, ProcessFitsKept, TodoFitsKept, RecoveryFitsKept DEF PcFits
  <2>3. up' # "down"
    BY <1>0, <1>2, <2>2 DEF PcFits, RestFits, Idle
  <2>4. up' # "starting"
    BY <1>2, <2>2 DEF PcFits, ProcessFits, InRecovery
  <2> QED
    BY <2>1, <2>3, <2>4, RunsTyped
<1>3. CASE InSwap(i)'
  <2>1. op.id = i /\ op'.id = i /\ op.pc = "promoting" /\ op'.pc = "vacate"
    BY <1>0, <1>1, <1>3, StatesTurn DEF StateTurns
  <2> QED
    BY <1>2, <2>1
<1>4. CASE State(i)' = "ROLLED_BACK" /\ Committed(i)'
  <2>1. Committed(i)' <=> Committed(i)
    <3>1. op.id = i /\ op.pc = "append" => State(i) = "PROMOTED_PENDING_DB"
      BY DEF StateFits, Projection
    <3> QED
      BY <1>0, <1>1, <1>4, <3>1, IndexTurns DEF Appended, Reverted
  <2>2. State(i) = "ROLLED_BACK" \/ State(i) \in {"PREPARING", "PROMOTING", "PROMOTED_PENDING_DB"}
    BY <1>0, <1>4, StatesTurn DEF StateTurns
  <2> QED
    BY <1>0, <1>1, <1>4, <2>1, <2>2
<1>5. CASE i \in Run /\ State(i)' = "NONE" /\ Phase(i)' = "PENDING_PROMOTION"
  <2>1. State(i) = "NONE"
    BY <1>5, StatesTurn DEF StateTurns
  <2>2. Phase(i) # "PENDING_PROMOTION"
    BY <1>1, <1>5, <2>1
  <2>3. op.id = i /\ op.pc = "record" /\ op'.pc = "stage" /\ op'.id \in {i, None}
    BY <1>5, <2>2, ReceiptsTurn DEF ReceiptTurns, RecoveryTurns, ReceiptIs
  <2>4. op'.id = i
    BY <2>3, OwnerFitsKept DEF OwnerFits, OfNobody
  <2> QED
    BY <1>2, <2>3, <2>4
<1> QED
  BY <1>3, <1>4, <1>5 DEF Open, Undecided, Announced

LEMMA OpensAloneKept ==
    ASSUME TypeOK, OpTypes, Knows, PcFits, StateFits, PermitFits, ReceiptsFit, PublishedFits,
           VersionsFit, OpenFits, Next, NEW i \in Id, NEW j \in Id, Open(i)', Open(j)'
    PROVE  i = j
<1>1. ASSUME NEW m \in Id, NEW n \in Id, Open(m)', ~Open(m), Open(n) PROVE m = n
  <2>1. op.id = m /\ up = "up" /\ op.id # None
    BY <1>1, Opens, Someone
  <2>2. op # Idle
    BY <2>1 DEF Idle
  <2> QED
    BY <1>1, <2>1, <2>2 DEF OpenFits, AwaitsRecovery
<1>2. CASE Open(i) /\ Open(j)
  BY <1>2 DEF OpenFits
<1>3. CASE ~Open(i) /\ ~Open(j)
  BY <1>3, Opens
<1> QED
  BY <1>1, <1>2, <1>3

\* How an operation ends.
LEMMA Departs ==
    ASSUME TypeOK, OpTypes, Knows, PcFits, StateFits, ReceiptsFit, op.id # None, op'.id # op.id, up = "up", up' = "up", Next
    PROVE  \/ op.pc = "publish" /\ Publish
           \/ op.pc = "dispose" /\ Dispose
           \/ op.pc = "release" /\ Release
           \/ op.pc = "lock" /\ Lock
           \/ op.pc = "withdraw" /\ Withdraw
           \/ Fault /\ op.pc \in {"bind", "lock", "publish", "dispose", "withdraw"}
<1>1. CASE Bind \/ Prepare \/ PrepareConflict \/ RecordAdmissionFailure \/ RunAgent \/ AgentEnds
  BY <1>1, BindDoes, PrepareDoes, PrepareConflictDoes, RecordAdmissionFailureDoes, RunAgentDoes,
     AgentEndsDoes DEF Becomes, Moves
<1>2. CASE Seal \/ SealRefuses \/ Verify \/ Reject \/ RejectReceipt \/ Publish
  BY <1>2, SealDoes, SealRefusesDoes, VerifyDoes, RejectDoes, RejectReceiptDoes, PublishDoes DEF
     Moves, Becomes
<1>3. CASE Dispose \/ Issue \/ Claim \/ RecordPromotion \/ Stage \/ CompareBase
  BY <1>3, DisposeDoes, IssueDoes, ClaimDoes, RecordPromotionDoes, StageDoes, CompareBaseDoes DEF
     Moves, Becomes
<1>4. CASE CompareConflict \/ Consume \/ Promoting \/ Vacate \/ Fill \/ PendingDatabase
  BY <1>4, CompareConflictDoes, ConsumeDoes, PromotingDoes, VacateDoes, FillDoes,
     PendingDatabaseDoes DEF Becomes, Moves, JournalSet
<1>5. CASE \/ RecordFinal \/ AppendVersion \/ Project \/ DropBackup \/ AcknowledgeJournal
           \/ ReleaseRetention
  BY <1>5, RecordFinalDoes, AppendVersionDoes, ProjectDoes, DropBackupDoes,
     AcknowledgeJournalDoes, ReleaseRetentionDoes DEF Becomes, Moves, JournalSet
<1>6. CASE \/ DestroyProposal \/ TerminalReceipt \/ Release \/ UndoSwap \/ UndoJournal
           \/ CloseJournal
  BY <1>6, DestroyProposalDoes, TerminalReceiptDoes, ReleaseDoes, UndoSwapDoes, UndoJournalDoes,
     CloseJournalDoes DEF Moves, Becomes, JournalSet, LeftToAnAdministrator, Begins
<1>7. CASE RevertVersion \/ AbortReceipt \/ Lock \/ Regenerate \/ Withdraw \/ ConfigureRow
  BY <1>7, RevertVersionDoes, AbortReceiptDoes, LockDoes, RegenerateDoes, WithdrawDoes,
     ConfigureRowDoes, OwnerOfNobody DEF Moves, Becomes
<1>8. CASE \E i \in Id : Examine(i)
  <2>1. PICK i \in Id : Examine(i)
    BY <1>8
  <2> QED
    BY <2>1, ExamineBegins, OwnerOfNobody
<1>9. CASE Acknowledged \/ RolledBack
  BY <1>9, AcknowledgedDoes, RolledBackDoes DEF Begins
<1>10. CASE \E r \in Run : ScanReceipt(r)
  <2>1. PICK r \in Run : ScanReceipt(r)
    BY <1>10
  <2> QED
    BY <2>1, ScanReceiptDoes
<1>11. CASE \E r \in Run : DisposeAtStartup(r)
  <2>1. PICK r \in Run : DisposeAtStartup(r)
    BY <1>11
  <2> QED
    BY <2>1, DisposeAtStartupDoes DEF HeadStays
<1>12. CASE Reproject \/ Settle \/ Serve
  BY <1>12, ReprojectDoes, SettleDoes, ServeDoes, OwnerOfNobody DEF Moves, Becomes, HeadStays
<1>13. CASE \E r \in Run : Submit(r)
  <2>1. PICK r \in Run : Submit(r)
    BY <1>13
  <2> QED
    BY <2>1, SubmitDoes, OwnerOfNobody DEF Idle
<1>14. CASE \E x \in Rollback : StartRollback(x)
  <2>1. PICK x \in Rollback : StartRollback(x)
    BY <1>14
  <2> QED
    BY <2>1, StartRollbackDoes, OwnerOfNobody DEF Idle
<1>15. CASE Configure \/ StartAgent \/ Cancel \/ Start \/ FaultAtStartup \/ Crash
  BY <1>15, ConfigureDoes, StartAgentDoes, CancelDoes, StartDoes, FaultAtStartupDoes, CrashDoes DEF
     Begins, Idle, HeadStays, Becomes, LeftToAnAdministrator
<1>16. CASE Drift \/ Fault
  BY <1>16, DriftDoes, FaultDoes, OwnerOfNobody DEF FaultEarly, FaultInSwap, FaultLate, Becomes,
     Moves
<1> QED
  BY <1>1, <1>2, <1>3, <1>4, <1>5, <1>6, <1>7, <1>8, <1>9, <1>10, <1>11, <1>12, <1>13, <1>14,
     <1>15, <1>16 DEF Next, Request, Step, RunStep, TransitionStep, StartupStep

\* An operation that ends leaves nothing open without locking the Agent.
LEMMA OperationsEnd ==
    ASSUME TypeOK, OpTypes, Knows, PcFits, StateFits, PermitFits, ReceiptsFit, PublishedFits,
           VersionsFit, OpenFits, Next, NEW i \in Id, Open(i), op.id = i, up = "up", up' = "up",
           op' = Idle
    PROVE  db'.locked \/ reserved'
<1>0. /\ InSwap(i) <=> State(i) \in {"PROMOTING", "PROMOTED_PENDING_DB"}
      /\ i # None /\ ~(i \in Run /\ i \in Rollback) /\ op'.id # op.id
      /\ Committed(i) => State(i) \in {"PROMOTED_PENDING_DB", "ACKNOWLEDGED", "ROLLED_BACK"}
  BY SwapState, Someone DEF VersionsFit, Idle
<1>1. \/ InSwap(i) \/ (State(i) = "ROLLED_BACK" /\ Committed(i))
      \/ (i \in Run /\ State(i) = "NONE" /\ Phase(i) = "PENDING_PROMOTION")
  BY DEF Open, Undecided, Announced
<1>2. op.pc # "bind"
  <2>1. SUFFICES ASSUME op.pc = "bind" PROVE FALSE
    OBVIOUS
  <2>2. State(i) = "NONE" /\ i \in Run /\ receipt[i] = None
    BY <2>1, OwnerOfRun DEF StateFits, Admission, ReceiptsFit
  <2> QED
    BY <1>0, <1>1, <2>2 DEF Phase
<1>3. op.pc \notin Refusal
  <2>1. SUFFICES ASSUME op.pc \in Refusal PROVE FALSE
    OBVIOUS
  <2>2. State(i) \in {"NONE", "PREPARING", "ROLLED_BACK"} /\ ~Committed(i)
    BY <1>0, <2>1 DEF StateFits, VersionsFit
  <2>3. i \in Run /\ Phase(i) = "PENDING_PROMOTION"
    BY <1>0, <1>1, <2>2
  <2>4. op.pc \in {"dispose", "withdraw"}
    BY <1>0, <2>1, Departs DEF Refusal
  <2> QED
    BY <1>0, <2>3, <2>4, OwnerOfRollback DEF ReceiptsFit
<1>4. op.pc = "publish" => i \in Run /\ AwaitsAck(i) /\ op.outcome # "decided"
  <2>1. SUFFICES ASSUME op.pc = "publish" PROVE i \in Run /\ AwaitsAck(i) /\ op.outcome # "decided"
    OBVIOUS
  <2>2. i \in Run /\ State(i) \in {"NONE", "PREPARING", "ROLLED_BACK", "ACKNOWLEDGED"}
    BY <2>1, OwnerOfRun DEF StateFits
  <2>3. /\ Committed(i) => Accepts(i)
        /\ Phase(i) = "PENDING_PROMOTION" => Accepts(i)
        /\ Phase(i) = "PENDING_DISPOSITION" => ~Accepts(i)
        /\ Phase(i) = "TERMINAL" /\ Accepts(i) => State(i) = "ACKNOWLEDGED"
        /\ op.outcome = "decided" => ~Accepts(i)
    BY <2>1, <2>2 DEF ReceiptsFit
  <2>4. Accepts(i)
    BY <1>0, <1>1, <2>2, <2>3
  <2>5. Phase(i) = "PENDING_PROMOTION"
    <3>1. Phase(i) \in {"PENDING_PROMOTION", "PENDING_DISPOSITION", "TERMINAL"}
      BY <2>2, <2>4, PhaseKnown DEF Receipts
    <3> QED
      BY <1>0, <1>1, <2>2, <2>3, <2>4, <3>1
  <2> QED
    BY <2>2, <2>3, <2>4, <2>5, PhaseKnown
<1>5. op.pc \in {"bind", "publish", "dispose", "withdraw", "lock", "release"}
  BY <1>0, Departs
<1>6. CASE op.pc = "release"
  BY <1>0, <1>1, <1>6 DEF StateFits, Cleanup
<1>7. CASE op.pc = "lock"
  <2>1. Lock \/ (Fault /\ op.pc = "lock")
    BY <1>0, <1>7, Departs
  <2> QED
    BY <2>1, LockDoes, FaultDoes
<1>8. CASE op.pc = "publish"
  <2>1. Publish \/ (Fault /\ op.pc = "publish")
    BY <1>0, <1>8, Departs
  <2>2. Fault => reserved'
    BY <1>4, <1>8, FaultDoes
  <2>3. Publish => reserved'
    BY <1>4, <1>8, PublishDoes
  <2> QED
    BY <2>1, <2>2, <2>3
<1> QED
  BY <1>2, <1>3, <1>5, <1>6, <1>7, <1>8 DEF Refusal

\* With an open transition and nothing in progress, nothing begins.
LEMMA NothingBegins ==
    ASSUME TypeOK, OpTypes, Knows, PcFits, StateFits, PermitFits, ReceiptsFit, PublishedFits,
           Next, op = Idle, up = "up", up' = "up", db.locked \/ reserved
    PROVE  op' = Idle /\ (db'.locked \/ reserved')
<1>0. op.id = None /\ op.pc = "idle"
  BY DEF Idle
<1>1. op'.id = None
  BY <1>0, Beginners, SubmitDoes, StartRollbackDoes
<1>2. PcFits'
  BY OwnerFitsKept, RestFitsKept, ProcessFitsKept, TodoFitsKept, RecoveryFitsKept DEF PcFits
<1>3. op'.pc \in {"idle", "configure"}
  BY <1>1, <1>2 DEF PcFits, OwnerFits, ProcessFits, OfNobody
<1>4. op'.pc # "configure"
  BY <1>0, Arrivals, ConfigureDoes DEF Stays
<1>5. op' = Idle
  BY <1>2, <1>3, <1>4 DEF PcFits, RestFits
<1>6. db'.locked = db.locked
  BY <1>0, Writers, PublishDoes, ProjectDoes, ReleaseDoes, LockDoes, WithdrawDoes, ConfigureRowDoes,
     DisposeAtStartupDoes, ReprojectDoes, SettleDoes, SubmitDoes, StartRollbackDoes, StartAgentDoes
<1>7. reserved => reserved'
  BY <1>0, Writers, PublishDoes, LockDoes, SettleDoes, StartDoes, FaultDoes
<1> QED
  BY <1>5, <1>6, <1>7

----------------------------------------------------------------------------
(* One transition is open, and somebody answers for it. *)

LEMMA PcFitsKept ==
    ASSUME TypeOK, OpTypes, Knows, PcFits, StateFits, ReceiptsFit, Next
    PROVE  PcFits'
BY OwnerFitsKept, RestFitsKept, ProcessFitsKept, TodoFitsKept, RecoveryFitsKept DEF PcFits

\* Startup does not lose sight of an open transition.
LEMMA AwaitsStill ==
    ASSUME TypeOK, OpTypes, Knows, PcFits, StateFits, PermitFits, ReceiptsFit, PublishedFits,
           VersionsFit, OpenFits, Next, NEW i \in Id, Open(i), up = "starting", up' = "starting",
           AwaitsRecovery(i)
    PROVE  AwaitsRecovery(i)'
<1>0. /\ InSwap(i) <=> State(i) \in {"PROMOTING", "PROMOTED_PENDING_DB"}
      /\ i # None
      /\ State(i) \in {"PROMOTING", "PROMOTED_PENDING_DB", "NONE"} \/ (State(i) = "ROLLED_BACK" /\ Committed(i))
  BY SwapState, Someone DEF Open, Undecided, Announced
<1>1. /\ op.pc = "dispositions" => db.locked
      /\ op.pc # "dispositions" => i \in startup.todo \/ startup.manual # "no"
  BY DEF AwaitsRecovery
<1>2. op'.pc = "dispositions" => db'.locked
  <2>1. CASE op.pc = "dispositions"
    BY <1>1, <2>1, Writers, PublishDoes, ProjectDoes, ReleaseDoes, LockDoes, WithdrawDoes, ConfigureRowDoes,
       DisposeAtStartupDoes, ReprojectDoes, SettleDoes, SubmitDoes, StartRollbackDoes, StartAgentDoes
  <2>2. CASE Settle
    <3>1. op.pc = "settle" /\ db'.locked = (startup.manual # "no")
      BY <2>2, SettleDoes
    <3>2. startup.todo = {}
      BY <3>1 DEF PcFits, TodoFits
    <3> QED
      BY <1>1, <3>1, <3>2
  <2> QED
    BY <2>1, <2>2, Arrivals DEF Stays
<1>3. op'.pc # "dispositions" => i \in startup'.todo \/ startup'.manual # "no"
  <2>1. SUFFICES ASSUME op'.pc # "dispositions", startup' # startup PROVE i \in startup'.todo \/ startup'.manual # "no"
    <3>1. op.pc = "dispositions" => op'.pc = "dispositions"
      BY DispositionsLast, PcFitsKept
    <3> QED
      BY <1>1, <3>1
  <2>2. op.pc # "dispositions"
    BY <2>1, DispositionsLast, PcFitsKept
  <2>3. op.pc = "release" => State(op.id) = "ACKNOWLEDGED"
    BY DEF StateFits, Cleanup
  <2>4. op.pc = "rolled" => State(op.id) = "ROLLED_BACK" /\ ~Committed(op.id)
    <3>1. op.pc = "rolled" => op.id # None
      BY Owner
    <3> QED
      BY <3>1 DEF StateFits, VersionsFit
  <2> QED
    BY <1>0, <1>1, <2>1, <2>2, <2>3, <2>4, ReportsTurn DEF ReportTurns
<1> QED
  BY <1>2, <1>3 DEF AwaitsRecovery

\* A receipt without a journal is looked at last.
LEMMA AnnouncedWaits ==
    ASSUME TypeOK, OpTypes, Knows, PcFits, StateFits, PermitFits, ReceiptsFit, PublishedFits,
           VersionsFit, OpenFits, Next, NEW i \in Id, Open(i)', Announced(i), up = "starting",
           op.pc \in InRecovery \ {"settle", "dispositions"}
    PROVE  \/ AwaitsRecovery(i)'
           \/ Announced(i)' /\ op'.pc \in InRecovery \ {"settle", "dispositions"} /\ up' = "starting"
<1>0. i \in Run /\ State(i) = "NONE" /\ Phase(i) = "PENDING_PROMOTION" /\ i # None
  BY Someone DEF Announced
<1>1. State(i)' = "NONE"
  BY <1>0, StatesTurn, SwapState DEF StateTurns, InRecovery
<1>2. Announced(i)'
  BY <1>1, SwapState DEF Open, Undecided, Announced
<1>3. up' \in {"starting", "down"}
  BY Writers, ServeDoes, StartDoes, FaultAtStartupDoes, CrashDoes
<1>4. CASE up' = "down"
  BY <1>4 DEF AwaitsRecovery
<1>5. CASE up' = "starting"
  <2>1. op'.pc \in InRecovery
    BY <1>5, PcFitsKept DEF PcFits, ProcessFits
  <2>2. op'.pc # "dispositions"
    BY Arrivals, SettleDoes DEF Stays
  <2>3. CASE op'.pc = "settle"
    <3>1. Reproject
      BY <2>3, Arrivals DEF Stays
    <3>2. i \in Unaccounted
      <4>1. journal[i] = None
        BY <1>0, JournalKnown
      <4> QED
        BY <1>0, <4>1 DEF Unaccounted
    <3>3. startup'.manual # "no"
      BY <3>1, <3>2, ReprojectDoes
    <3> QED
      BY <1>5, <2>3, <3>3 DEF AwaitsRecovery
  <2> QED
    BY <1>2, <1>5, <2>1, <2>2, <2>3
<1> QED
  BY <1>3, <1>4, <1>5

LEMMA OpenFitsKept ==
    ASSUME TypeOK, OpTypes, Knows, PcFits, StateFits, PermitFits, ReceiptsFit, PublishedFits,
           VersionsFit, OpenFits, TypeOK', Next
    PROVE  OpenFits'
<1>1. ASSUME NEW i \in Id, Open(i)'
      PROVE  \/ up' = "up" /\ op'.id = i
             \/ AwaitsRecovery(i)'
             \/ Announced(i)' /\ op'.pc \in InRecovery \ {"settle", "dispositions"} /\ up' = "starting"
  <2>0. i # None /\ up' \in {"up", "down", "starting"} /\ up \in {"up", "down", "starting"}
    BY Someone DEF TypeOK
  <2>1. CASE ~Open(i)
    BY <1>1, <2>1, Opens
  <2>2. CASE up' = "down"
    BY <2>2 DEF AwaitsRecovery
  <2>3. CASE Open(i) /\ up = "up" /\ op.id = i /\ up' # "down"
    <3>1. up' = "up"
      BY <2>0, <2>3, Writers, ServeDoes, StartDoes, FaultAtStartupDoes, CrashDoes
    <3>2. CASE op'.id = i
      BY <3>1, <3>2
    <3>3. CASE op'.id = None
      <4>1. op'.pc \in OfNobody
        BY <3>3, PcFitsKept DEF PcFits, OwnerFits
      <4>2. op'.pc \in {"idle", "configure"}
        BY <3>1, <4>1, PcFitsKept DEF PcFits, ProcessFits, OfNobody
      <4>3. op'.pc # "configure"
        BY <2>0, <2>3, <3>3, Arrivals, ConfigureDoes DEF Stays, Idle
      <4>4. op' = Idle
        BY <4>2, <4>3, PcFitsKept DEF PcFits, RestFits
      <4>5. db'.locked \/ reserved'
        BY <2>3, <3>1, <4>4, OperationsEnd
      <4> QED
        BY <3>1, <4>4, <4>5 DEF AwaitsRecovery
    <3> QED
      BY <2>0, <2>3, <3>2, <3>3, WhoGoesOn
  <2>4. CASE Open(i) /\ AwaitsRecovery(i) /\ up = "up" /\ up' # "down"
    <3>1. up' = "up"
      BY <2>0, <2>4, Writers, ServeDoes, StartDoes, FaultAtStartupDoes, CrashDoes
    <3>2. op = Idle /\ (db.locked \/ reserved)
      BY <2>4 DEF AwaitsRecovery
    <3>3. op' = Idle /\ (db'.locked \/ reserved')
      BY <2>4, <3>1, <3>2, NothingBegins
    <3> QED
      BY <3>1, <3>3 DEF AwaitsRecovery
  <2>5. CASE Open(i) /\ up = "down" /\ up' # "down"
    <3>1. Start
      BY <2>0, <2>5, Writers, ServeDoes, Recovers, FaultAtStartupDoes, CrashDoes
    <3>2. /\ up' = "starting" /\ op'.pc = "journals" /\ startup'.todo = {j \in Id : journal[j] # None}
          /\ journal' = journal /\ receipt' = receipt /\ versions' = versions
      BY <3>1, StartDoes DEF Begins
    <3>3. CASE journal[i] = None
      <4>1. State(i)' = "NONE"
        BY <3>2, <3>3 DEF State
      <4>2. Announced(i)'
        BY <1>1, <4>1, SwapState DEF Open, Undecided
      <4> QED
        BY <3>2, <4>2 DEF InRecovery
    <3>4. CASE journal[i] # None
      BY <3>2, <3>4 DEF AwaitsRecovery
    <3> QED
      BY <3>3, <3>4
  <2>6. CASE Open(i) /\ AwaitsRecovery(i) /\ up = "starting" /\ up' = "starting"
    BY <2>6, AwaitsStill
  <2>7. CASE Open(i) /\ AwaitsRecovery(i) /\ up = "starting" /\ up' = "up"
    <3>1. Serve
      BY <2>7, Writers, StartDoes, FaultAtStartupDoes, CrashDoes
    <3>2. op.pc = "dispositions" /\ op' = Idle /\ db' = db
      BY <3>1, ServeDoes
    <3>3. db.locked
      BY <2>7, <3>2 DEF AwaitsRecovery
    <3> QED
      BY <2>7, <3>2, <3>3 DEF AwaitsRecovery
  <2>8. CASE Open(i) /\ Announced(i) /\ op.pc \in InRecovery \ {"settle", "dispositions"} /\ up = "starting"
    BY <1>1, <2>8, AnnouncedWaits
  <2>9. Open(i) => \/ up = "up" /\ op.id = i
                   \/ AwaitsRecovery(i)
                   \/ Announced(i) /\ op.pc \in InRecovery \ {"settle", "dispositions"} /\ up = "starting"
    BY DEF OpenFits
  <2> QED
    BY <2>0, <2>1, <2>2, <2>3, <2>4, <2>5, <2>6, <2>7, <2>8, <2>9
<1> QED
  BY <1>1, OpensAloneKept DEF OpenFits

----------------------------------------------------------------------------
(* Trees are exchanged in the open swap only. *)

\* How the backup of one identity turns.
BackupTurns(i) ==
    /\ op.id = i /\ op'.id = i
    /\ \/ op.pc = "vacate" /\ op'.pc = "fill" /\ backup'[i] = ws /\ ws' = None
       \/ op.pc = "dropBackup" /\ op'.pc = "acknowledge" /\ backup'[i] = None /\ ws' = ws
       \/ /\ op.pc = "undo" /\ op' = op /\ backup[i] # None /\ backup'[i] = None
          /\ ws = None /\ ws' = backup[i]

LEMMA BackupsTurn ==
    ASSUME TypeOK, OpTypes, Knows, PcFits, StateFits, ReceiptsFit, Next, NEW i \in Id
    PROVE  backup'[i] = backup[i] \/ BackupTurns(i)
<1>0. backup \in [Id -> Tree \cup {None}]
  BY DEF TypeOK
<1>1. Vacate => backup'[i] = backup[i] \/ BackupTurns(i)
  BY <1>0, VacateDoes DEF Moves, Becomes, BackupTurns
<1>2. DropBackup => backup'[i] = backup[i] \/ BackupTurns(i)
  BY <1>0, DropBackupDoes DEF Moves, Becomes, BackupTurns
<1>3. UndoSwap => backup'[i] = backup[i] \/ BackupTurns(i)
  BY <1>0, UndoSwapDoes DEF BackupTurns
<1> QED
  BY <1>1, <1>2, <1>3, Writers

\* How the workspace turns: somebody edits it, ...
Edits ==
    /\ ws # None /\ ws' # None /\ ws'.v = Edited /\ ws'.p = ws.p /\ drifts' = drifts + 1
    /\ \/ op.pc = "prepare" /\ op'.pc = "admission" /\ op'.id = op.id /\ op'.verdict = "CONFLICTED"
          /\ op'.base = op.base /\ op'.tree = op.tree
       \/ op' = op

\* ... AGENTS.md is rendered, ...
Renders ==
    /\ ws # None /\ ws' # None /\ ws'.v = ws.v
    /\ \/ op.pc = "regenerate" /\ op'.pc = "issue" /\ op'.id = op.id /\ op'.base = ws' /\ ws'.p = db.cfg
       \/ op.pc = "configure" /\ op' = Idle /\ ws'.p = db.cfg
       \/ /\ op = Idle /\ up = "up" /\ ~db.locked /\ ~reserved /\ op'.pc = "configure" /\ op'.id = None
          /\ ws'.p = db.cfg + 1 /\ db.cfg < MaxConfigs

\* ... or it is exchanged.
Exchanges ==
    \/ op.pc = "vacate" /\ op'.pc = "fill" /\ op'.id = op.id /\ ws' = None /\ backup'[op.id] = ws
    \/ op.pc = "fill" /\ op'.pc = "pendingDb" /\ op'.id = op.id /\ ws' = journal[op.id].target
    \/ op.pc = "undo" /\ op' = op /\ backup[op.id] # None /\ ws # None /\ ws' = None
       /\ backup' = backup
    \/ op.pc = "undo" /\ op' = op /\ backup[op.id] # None /\ ws = None /\ ws' = backup[op.id]
       /\ backup'[op.id] = None

LEMMA TreeIs == \A t \in Tree : t # None
BY NoneAssumption

LEMMA WorkspaceTurns ==
    ASSUME TypeOK, OpTypes, Knows, PcFits, StateFits, ReceiptsFit, OpenFits, BackupFits, Next
    PROVE  ws' = ws \/ Edits \/ Renders \/ Exchanges
<1>0. ws \in Tree \cup {None} /\ db.cfg \in 0..MaxConfigs /\ Edited \in Content /\ MaxConfigs \in Nat
      /\ backup \in [Id -> Tree \cup {None}]
  BY GateAssumption DEF TypeOK, Rows, Content
<1>1. ws \in Tree => /\ [ws EXCEPT !.v = Edited].v = Edited /\ [ws EXCEPT !.v = Edited].p = ws.p
                     /\ [ws EXCEPT !.v = Edited] # None
                     /\ [ws EXCEPT !.p = db.cfg].p = db.cfg /\ [ws EXCEPT !.p = db.cfg].v = ws.v
                     /\ [ws EXCEPT !.p = db.cfg] # None
  <2>1. SUFFICES ASSUME ws \in Tree PROVE /\ [ws EXCEPT !.v = Edited].v = Edited /\ [ws EXCEPT !.v = Edited].p = ws.p
                     /\ [ws EXCEPT !.v = Edited] # None
                     /\ [ws EXCEPT !.p = db.cfg].p = db.cfg /\ [ws EXCEPT !.p = db.cfg].v = ws.v
                     /\ [ws EXCEPT !.p = db.cfg] # None
    OBVIOUS
  <2>2. /\ [ws EXCEPT !.v = Edited] \in Tree /\ [ws EXCEPT !.v = Edited].v = Edited /\ [ws EXCEPT !.v = Edited].p = ws.p
        /\ [ws EXCEPT !.p = db.cfg] \in Tree /\ [ws EXCEPT !.p = db.cfg].p = db.cfg /\ [ws EXCEPT !.p = db.cfg].v = ws.v
    BY <1>0, <2>1, TreeEdited
  <2> QED
    BY <2>2, TreeIs
<1>2. CASE PrepareConflict
  <2>1. op.pc = "prepare" /\ ws' = [ws EXCEPT !.v = Edited] /\ drifts' = drifts + 1
        /\ Becomes("admission", "CONFLICTED", op.outcome, op.then)
    BY <1>2, PrepareConflictDoes
  <2>2. ws \in Tree /\ ws # None
    BY <2>1, WorkspaceThere DEF Admission
  <2> QED
    BY <1>1, <2>1, <2>2 DEF Edits, Becomes
<1>3. CASE Drift
  <2>1. ws # None /\ ws' = [ws EXCEPT !.v = Edited] /\ drifts' = drifts + 1 /\ op' = op
    BY <1>3, DriftDoes
  <2> QED
    BY <1>0, <1>1, <2>1 DEF Edits
<1>4. CASE Regenerate
  <2>1. op.pc = "regenerate" /\ ws # None /\ ws' = [ws EXCEPT !.p = db.cfg] /\ op'.pc = "issue"
        /\ op'.base = [ws EXCEPT !.p = db.cfg] /\ op'.id = op.id
    BY <1>4, RegenerateDoes
  <2> QED
    BY <1>0, <1>1, <2>1 DEF Renders
<1>5. CASE Configure
  <2>1. op = Idle /\ up = "up" /\ ~db.locked /\ ~reserved /\ ws # None /\ db.cfg < MaxConfigs
        /\ ws' = [ws EXCEPT !.p = db.cfg + 1] /\ op'.pc = "configure" /\ op'.id = None
    BY <1>5, ConfigureDoes DEF Begins
  <2>2. db.cfg + 1 \in 0..MaxConfigs
    BY <1>0, <2>1
  <2>3. [ws EXCEPT !.p = db.cfg + 1].v = ws.v /\ [ws EXCEPT !.p = db.cfg + 1].p = db.cfg + 1
        /\ [ws EXCEPT !.p = db.cfg + 1] # None
    <3>1. ws \in Tree
      BY <1>0, <2>1
    <3>2. [ws EXCEPT !.p = db.cfg + 1] \in Tree /\ [ws EXCEPT !.p = db.cfg + 1].v = ws.v
          /\ [ws EXCEPT !.p = db.cfg + 1].p = db.cfg + 1
      BY <1>0, <2>2, <3>1, TreeEdited
    <3> QED
      BY <3>2, TreeIs
  <2> QED
    BY <2>1, <2>3 DEF Renders
<1>6. CASE Fault
  <2>1. ws' = ws \/ (op.pc = "configure" /\ ws' = [ws EXCEPT !.p = db.cfg])
    BY <1>6, FaultDoes
  <2>2. op.pc = "configure" => op' = Idle
    BY <1>6, FaultDoes DEF FaultEarly, FaultInSwap, FaultLate
  <2>3. op.pc = "configure" => ws \in Tree /\ ws # None
    BY WorkspaceThere
  <2> QED
    BY <1>1, <2>1, <2>2, <2>3 DEF Renders
<1>7. Vacate \/ Fill \/ UndoSwap => ws' = ws \/ Exchanges
  <2>1. Vacate => Exchanges
    <3>1. op.pc = "vacate" => op.id \in Id
      BY Owner
    <3> QED
      BY <1>0, <3>1, VacateDoes DEF Exchanges, Moves, Becomes
  <2>2. Fill => Exchanges
    BY FillDoes DEF Exchanges, Moves, Becomes
  <2>3. UndoSwap => Exchanges
    <3>1. op.pc = "undo" => op.id \in Id
      BY Owner
    <3> QED
      BY <1>0, <3>1, UndoSwapDoes DEF Exchanges
  <2> QED
    BY <2>1, <2>2, <2>3
<1> QED
  BY <1>2, <1>3, <1>4, <1>5, <1>6, <1>7, Writers

LEMMA BackupsOfSwaps ==
    ASSUME TypeOK, OpTypes, Knows, PcFits, StateFits, PermitFits, ReceiptsFit, PublishedFits,
           BackupFits, Next, NEW i \in Id, backup'[i] # None
    PROVE  InSwap(i)'
<1>0. /\ InSwap(i) <=> State(i) \in {"PROMOTING", "PROMOTED_PENDING_DB"}
      /\ InSwap(i)' <=> State(i)' \in {"PROMOTING", "PROMOTED_PENDING_DB"}
  BY SwapState
<1>1. CASE backup'[i] = backup[i]
  <2>1. InSwap(i)
    BY <1>1 DEF BackupFits
  <2>2. op.id = i => op.pc \notin {"close", "acknowledge"}
    BY <1>1 DEF BackupFits
  <2> QED
    BY <1>0, <1>1, <2>1, <2>2, StatesTurn DEF StateTurns
<1>2. CASE BackupTurns(i)
  <2>1. op.id = i /\ op.pc = "vacate"
    BY <1>2 DEF BackupTurns
  <2>2. State(i) = "PROMOTING"
    BY <2>1 DEF StateFits, Swapping
  <2> QED
    BY <1>0, <2>1, <2>2, StatesTurn DEF StateTurns
<1> QED
  BY <1>1, <1>2, BackupsTurn

LEMMA BackupFitsKept ==
    ASSUME TypeOK, OpTypes, Knows, PcFits, StateFits, PermitFits, ReceiptsFit, PublishedFits,
           VersionsFit, OpenFits, BackupFits, OpTrees, TypeOK', Next
    PROVE  BackupFits'
<1>0. /\ op.pc \in {"vacate", "close", "acknowledge"} => backup[op.id] = None
      /\ op.pc = "fill" => ws = None
      /\ op.pc \in {"pendingDb"} \cup Projection \cup {"dropBackup", "acknowledge", "close"} => ws # None
      /\ \A i \in Id : backup[i] # None => InSwap(i)
      /\ ws = None => \E i \in Id : InSwap(i) /\ backup[i] # None
  BY DEF BackupFits
<1>1. ws' = None => \E i \in Id : InSwap(i)' /\ backup'[i] # None
  <2>1. SUFFICES ASSUME ws' = None PROVE \E i \in Id : backup'[i] # None
    BY BackupsOfSwaps
  <2>2. CASE ws' = ws
    <3>1. PICK i \in Id : backup[i] # None
      BY <1>0, <2>1, <2>2
    <3>2. backup'[i] = backup[i]
      BY <1>0, <2>1, <2>2, <3>1, BackupsTurn DEF BackupTurns
    <3> QED
      BY <3>1, <3>2
  <2>3. CASE Exchanges
    <3>1. op.pc \in {"vacate", "fill", "undo"} /\ op.id \in Id
      BY <2>3, Owner DEF Exchanges
    <3>2. CASE op.pc = "vacate"
      <4>1. ws # None
        BY <3>2, WorkspaceThere
      <4> QED
        BY <2>3, <3>1, <3>2, <4>1 DEF Exchanges
    <3>3. CASE op.pc = "fill"
      <4>1. State(op.id) = "PROMOTING"
        BY <3>3 DEF StateFits, Swapping
      <4>2. journal[op.id].target # None
        BY <3>1, <4>1, JournalKnown, TreeIs
      <4> QED
        BY <2>1, <2>3, <3>3, <4>2 DEF Exchanges
    <3>4. CASE op.pc = "undo"
      <4>1. backup[op.id] # None /\ ws # None
        BY <2>1, <2>3, <3>4 DEF Exchanges
      <4>2. backup'[op.id] = backup[op.id]
        BY <3>1, <3>4, <4>1, BackupsTurn DEF BackupTurns
      <4> QED
        BY <3>1, <4>1, <4>2
    <3> QED
      BY <3>1, <3>2, <3>3, <3>4
  <2> QED
    BY <2>1, <2>2, <2>3, WorkspaceTurns DEF Edits, Renders
<1>2. op'.pc \in {"vacate", "close", "acknowledge"} => backup'[op'.id] = None
  <2>0. SUFFICES ASSUME op'.pc \in {"vacate", "close", "acknowledge"} PROVE backup'[op'.id] = None
    OBVIOUS
  <2>1. CASE Stays
    <3>1. op'.id = op.id /\ op.pc \in {"vacate", "close", "acknowledge"} /\ op'.pc = op.pc
      BY <2>0, <2>1 DEF Stays
    <3>2. op.id \in Id
      BY <3>1, Owner
    <3>3. backup'[op.id] = backup[op.id]
      BY <3>1, <3>2, BackupsTurn DEF BackupTurns
    <3> QED
      BY <1>0, <3>1, <3>3
  <2>2. CASE Promoting
    <3>1. op.pc = "promoting" /\ op'.id = op.id /\ backup' = backup
      BY <2>2, PromotingDoes DEF Moves, Becomes
    <3>2. op.id \in Id /\ State(op.id) = "PREPARING"
      BY <3>1, Owner DEF StateFits, Comparison
    <3> QED
      BY <1>0, <3>1, <3>2, SwapState
  <2>3. CASE Fault /\ op'.pc = "close"
    <3>1. op.pc \in {"consume", "vacate", "close"} /\ op'.id = op.id /\ backup' = backup
      BY <2>3, FaultDoes DEF FaultEarly, FaultInSwap, FaultLate, Becomes, Moves, Idle, Knows
    <3>2. op.pc = "consume" => op.id \in Id /\ State(op.id) = "PREPARING"
      BY Owner DEF StateFits, Comparison
    <3> QED
      BY <1>0, <3>1, <3>2, SwapState
  <2>4. CASE DropBackup
    <3>1. op'.id = op.id /\ op.id \in Id /\ backup' = [backup EXCEPT ![op.id] = None]
      BY <2>4, DropBackupDoes, Owner DEF Moves, Becomes
    <3> QED
      BY <3>1 DEF TypeOK
  <2> QED
    BY <2>0, <2>1, <2>2, <2>3, <2>4, Arrivals
<1>3. op'.pc = "fill" => ws' = None
  <2>1. Vacate => ws' = None
    BY VacateDoes
  <2>2. Stays /\ op'.pc = "fill" => ws' = None
    BY <1>0, WorkspaceTurns DEF Stays, Edits, Renders, Exchanges
  <2> QED
    BY <2>1, <2>2, Arrivals
<1>4. op'.pc \in {"pendingDb"} \cup Projection \cup {"dropBackup", "acknowledge", "close"} => ws' # None
  <2>0. SUFFICES ASSUME op'.pc \in {"pendingDb", "final", "append", "project", "dropBackup", "acknowledge", "close"},
                        ws' = None
                 PROVE  FALSE
    BY DEF Projection
  <2>1. CASE Exchanges
    <3>1. op.pc = "fill" => journal[op.id].target # None
      <4>1. op.pc = "fill" => op.id \in Id /\ State(op.id) = "PROMOTING"
        BY Owner DEF StateFits, Swapping
      <4> QED
        BY <4>1, JournalKnown, TreeIs
    <3> QED
      BY <2>0, <2>1, <3>1 DEF Exchanges
  <2>2. ws' = ws /\ ws = None
    BY <2>0, <2>1, WorkspaceTurns DEF Edits, Renders
  <2>3. op.pc \notin {"pendingDb", "final", "append", "project", "dropBackup", "acknowledge", "close", "consume", "vacate"}
    BY <1>0, <2>2, WorkspaceThere DEF Projection, Comparison
  <2>4. ~Stays
    BY <2>0, <2>3 DEF Stays
  <2>5. ~Fill
    BY <2>0, <2>1, FillDoes DEF Exchanges, Moves, Becomes
  <2>6. ~PendingDatabase /\ ~RecordFinal /\ ~AppendVersion /\ ~Project /\ ~DropBackup
    BY <2>3, PendingDatabaseDoes, RecordFinalDoes, AppendVersionDoes, ProjectDoes, DropBackupDoes
  <2>7. ASSUME NEW i \in Id, Examine(i) PROVE op'.pc # "dropBackup"
    <3>1. SUFFICES ASSUME op'.pc = "dropBackup" PROVE FALSE
      OBVIOUS
    <3>2. State(i) = "PROMOTED_PENDING_DB" /\ ws = journal[i].target
      BY <2>7, <3>1, ExamineDoes DEF Begins
    <3> QED
      BY <2>2, <3>2, JournalKnown, TreeIs
  <2>8. ~Fault
    <3>1. SUFFICES ASSUME Fault PROVE FALSE
      OBVIOUS
    <3>2. up = "up" /\ op.pc \in {"retention", "terminal"}
      BY <2>0, <2>3, <3>1, FaultDoes DEF FaultEarly, FaultInSwap, FaultLate, Becomes, Moves, Idle, Knows
    <3>3. PICK i \in Id : InSwap(i)
      BY <1>0, <2>2
    <3>4. State(op.id) = "ACKNOWLEDGED" /\ op # Idle
      BY <3>2 DEF StateFits, Cleanup, Idle
    <3>5. i # op.id
      BY <3>3, <3>4, SwapState
    <3> QED
      BY <3>2, <3>3, <3>4, <3>5 DEF OpenFits, Open, AwaitsRecovery
  <2> QED
    BY <2>0, <2>4, <2>5, <2>6, <2>7, <2>8, Arrivals
<1> QED
  BY <1>1, <1>2, <1>3, <1>4, BackupsOfSwaps DEF BackupFits
=============================================================================
