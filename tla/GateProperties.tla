--------------------------- MODULE GateProperties ---------------------------
(***************************************************************************)
(* What the in-process CommitGate promises across runs, rollbacks, faults  *)
(* and deaths of the process.                                              *)
(***************************************************************************)
EXTENDS CommitGate

Permits == {"NONE", "ISSUED", "CONSUMING", "CONSUMED", "REVOKED"}
JournalStates == {"PREPARING", "PROMOTING", "PROMOTED_PENDING_DB", "ACKNOWLEDGED",
                  "ROLLED_BACK"}
Journals == [state : JournalStates, base : Tree, target : Tree]
Receipts == [phase : {"PENDING_PROMOTION", "PENDING_DISPOSITION", "TERMINAL"},
             decision : {"COMMITTED", "ABORTED", "CONFLICTED", "QUARANTINED"},
             base : Tree, final : Tree \cup {None}, gen : Nat]
Versions == [id : Id \cup {Initial}, v : Content]
Snapshots == [v : Content, pruned : BOOLEAN]
Rows == [status : {"ready", "busy", "error"}, head : Id \cup {Initial},
         headLive : Tree, live : Tree, gen : Nat, cfg : 0..MaxConfigs,
         locked : BOOLEAN, thread : Run \cup {None}]
Reports == [todo : SUBSET Id, rolled : SUBSET Id, acked : SUBSET Id,
            manual : {"no", "ambiguous", "fault"}]

\* What stands for nothing is none of the things it could be taken for.
ASSUME NoneAssumption == None \notin Tree \cup Journals \cup Receipts

\* The stores have the states their validators accept.
TypeOK ==
    /\ ws \in Tree \cup {None}
    /\ backup \in [Id -> Tree \cup {None}]
    /\ journal \in [Id -> Journals \cup {None}]
    /\ permit \in [Id -> Permits]
    /\ proposal \in [Run -> {"NONE", "SEALED", "DESTROYED"}]
    /\ receipt \in [Run -> Receipts \cup {None}]
    /\ versions \in Seq(Versions) /\ versions # <<>>
    /\ snapshots \in Seq(Snapshots)
    /\ db \in Rows
    /\ published \in [Run -> {"none", "queued", "running", "completed", "failed", "cancelled"}]
    /\ spoken \subseteq Run
    /\ up \in {"up", "down", "starting"} /\ reserved \in BOOLEAN
    /\ op.id \in Id \cup {None}
    /\ startup \in Reports
    /\ crashes \in Nat /\ faults \in Nat /\ drifts \in Nat

\* No operation in progress and the next one may begin.
AtRest == up = "up" /\ op = Idle
Unlocked == AtRest /\ ~db.locked /\ ~reserved

Committed(i) == \E k \in DOMAIN versions : versions[k].id = i
Settled(i) == journal[i] # None /\ journal[i].state = "ACKNOWLEDGED"
InSwap(i) == journal[i] # None /\ journal[i].state \in {"PROMOTING", "PROMOTED_PENDING_DB"}

\* When a new run may be admitted, workspace, version index and database tell
\* the same story and no backup is left, whatever failed or died before
\* (agent-service.ts initialize, recovery.ts).  An update of the configuration
\* that a death interrupts is excepted: AGENTS.md and the row may differ.
StoresAgree ==
    Unlocked /\ drifts = 0 =>
        /\ Latest.id = db.head /\ ws.v = Latest.v /\ db.live.v = ws.v
        /\ db.live.p = db.cfg => ws = db.live
        /\ crashes = 0 => db.live.p = db.cfg
        /\ \A i \in Id : backup[i] = None

\* Until the database has the new head, the bytes the swap started from are in
\* the workspace or in its backup (workspace-transaction.ts promote).
BaseRecoverable ==
    drifts = 0 => \A i \in Id : InSwap(i) /\ db.head # i => journal[i].base \in {ws, backup[i]}

\* "Process-kill recovery [selects] one deterministic forward/rollback outcome"
\* (docs/ARCHITECTURE.md): recovery.ts never finds hashes it cannot reconcile,
\* unless somebody else has written to the workspace.
DecidesUnlessEdited == startup.manual = "ambiguous" => drifts > 0

\* "A projected workspace is not a terminal COMMITTED run until journal
\* acknowledgement and terminal receipt persistence both succeed"
\* (agent-service.ts persistCompletedRun).
PublishedIsAcknowledged ==
    \A r \in Run :
        published[r] = "completed" /\ receipt[r] # None /\ receipt[r].decision = "COMMITTED" =>
            Committed(r) /\ Settled(r) /\ Phase(r) = "TERMINAL" /\ r \in spoken

\* The head can be rolled back to: its snapshot is there although retention
\* runs while promotions are pending, revoked and recovered (version-store.ts).
HeadRestorable == Latest.v \in Restorable

\* A conversation goes on only where it led to: the thread the Agent keeps is
\* the one of the run that is its head (agent-service.ts).
ThreadIsHead == AtRest /\ db.thread # None => db.thread = db.head

\* A terminal receipt says COMMITTED if and only if the run's version is in
\* the history (coordinator.ts, recovery.ts), and so is that of every run with
\* an AUTHORITATIVE answer, whichever side of a failure wrote it.
ReceiptsMatchHistory ==
    Unlocked =>
        \A r \in Run :
            /\ Phase(r) = "TERMINAL" => (receipt[r].decision = "COMMITTED" <=> Committed(r))
            /\ r \in spoken => Committed(r)

\* The rows, the index, the receipts and what is shown of them fit together
\* between operations, whatever was interrupted (the reconciliation of
\* AgentService.initialize and recovery.ts).
GateInv == TypeOK /\ StoresAgree /\ ThreadIsHead /\ ReceiptsMatchHistory /\ PublishedIsAcknowledged

\* No bytes are lost that somebody may want back (workspace-transaction.ts
\* promote and rollback, version-store.ts retention).
Recoverable == BaseRecoverable /\ HeadRestorable

\* New content gets into the workspace in one way only: from a sealed target,
\* under a consumed permit, with the journal in PROMOTING and, for a run, the
\* protocol-complete receipt on disk (docs/ARCHITECTURE.md, promotion
\* boundary); otherwise a backup is put back.
SwapAuthorized ==
    [][ws' # None /\ ws'.v # Edited /\ (ws = None \/ ws'.v # ws.v) =>
        \/ \E i \in Id : ws' = backup[i]
        \/ \E i \in Id :
              /\ InSwap(i) /\ journal[i].state = "PROMOTING" /\ journal[i].target = ws'
              /\ permit[i] = "CONSUMED"
              /\ IsRun(i) => AwaitsAck(i) /\ receipt[i].final = ws']_vars

\* A journal's acknowledgement is the commit; a receipt that is not COMMITTED,
\* a revoked permit or a journal that is rolled back is the refusal.
Decision(i) ==
    IF Settled(i) THEN "COMMITTED"
    ELSE IF IF IsRun(i) THEN receipt[i] # None /\ receipt[i].decision # "COMMITTED"
            ELSE permit[i] = "REVOKED" \/ (journal[i] # None /\ journal[i].state = "ROLLED_BACK")
    THEN "REFUSED" ELSE "OPEN"

\* The history is the index up to a head whose journal is still open.
Accepted ==
    IF Latest.id = Initial \/ Settled(Latest.id) THEN versions
    ELSE SubSeq(versions, 1, Len(versions) - 1)

Contract == INSTANCE GateContract WITH
    External <- {Edited},
    history <- Accepted,
    outcome <- [i \in Id |-> Decision(i)]

\* With its swaps of several steps, its failures, deaths and recoveries, the
\* CommitGate implements the atomic contract: no decision is revised, and the
\* history only grows, by what was decided on top of its head.
ImplementsContract == Contract!Spec

\* Whatever dies or fails, the Agent is at rest again and again: no operation
\* and no recovery hangs or starts over for ever.
Quiesces == []<>AtRest
=============================================================================
