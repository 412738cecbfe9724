--------------------------- MODULE GateInvariant ---------------------------
(***************************************************************************)
(* Why the CommitGate keeps its promises: what holds of the stores, the    *)
(* database and the operation in progress between any two durable writes.  *)
(***************************************************************************)
EXTENDS GateProperties

----------------------------------------------------------------------------
(* Where an operation is. *)

Admission == {"bind", "prepare", "admission", "agent", "seal", "verify"}
Preparation == {"issue", "claim", "record", "stage"}
Comparison == {"cas", "consume", "promoting"}
Swapping == {"vacate", "fill", "pendingDb"}
Projection == {"final", "append", "project"}
Acknowledgement == {"dropBackup", "acknowledge"}
Cleanup == {"retention", "destroy", "terminal", "release"}
Refusal == {"reject", "rejectReceipt", "dispose", "withdraw"}

\* Operations of runs only, and of rollbacks only.
OfRuns == Admission \cup {"record", "final", "destroy", "terminal", "reject", "rejectReceipt",
                          "publish", "dispose", "abortReceipt"}
OfRollbacks == {"regenerate", "withdraw"}
OfNobody == {"idle", "configure", "journals", "settle", "dispositions"}
InRecovery == {"journals", "settle", "dispositions", "dropBackup", "acknowledge", "retention",
               "terminal", "release", "undo", "revert", "abortReceipt", "rolled"}
State(i) == IF journal[i] = None THEN "NONE" ELSE journal[i].state

OpTypes ==
    /\ DOMAIN op = DOMAIN Idle
    /\ op.tree \in Tree \cup {None} /\ op.base \in Tree \cup {None}
    /\ op.gen \in Nat
    /\ op.verdict \in {"ABORTED", "CONFLICTED", "QUARANTINED", None}

\* What an operation knows, and what it goes on with when its transition has
\* been taken back.
Knows ==
    /\ \/ op.pc \in {"admission", "reject", "rejectReceipt"}
       \/ op.pc \in {"close", "undo"} /\ op.then = "reject"
       => op.verdict \in {"ABORTED", "CONFLICTED", "QUARANTINED"}
    /\ op.id \in Run /\ up = "up" => op.pc = "bind" \/ op.base # None
    /\ op.id \in Rollback /\ up = "up" =>
         /\ op.pc \in OfRollbacks \/ op.base # None
         /\ op.before \in {"ready", "error"} /\ op.tree # None
    /\ op.pc \in {"seal", "verify"} \cup Preparation \cup Comparison \cup Swapping \cup Projection =>
         op.tree # None
    /\ op.pc = "close" => op.then \in {"reject", "withdraw"}
    /\ op.pc = "undo" => op.then \in {"reject", "withdraw", "revert"}
    /\ op.pc \in {"close", "undo"} =>
         /\ op.then = "reject" => op.id \in Run
         /\ op.then = "withdraw" => op.id \in Rollback

\* Whose operation it is, and in which process.
OwnerFits ==
    /\ op.id = None <=> op.pc \in OfNobody
    /\ op.pc \in OfRuns => op.id \in Run
    /\ op.pc \in OfRollbacks => op.id \in Rollback

RestFits == op.pc = "idle" \/ up = "down" => op = Idle

ProcessFits ==
    /\ up = "starting" => op.pc \in InRecovery
    /\ up = "up" => op.pc \notin {"journals", "settle", "dispositions", "rolled"}
    /\ up = "starting" \/ startup = NoReport
    /\ up = "up" => op.pc = "idle" \/ (~db.locked /\ ~reserved)

\* What startup recovery has left to do.
TodoFits ==
    /\ up = "starting" /\ op.id # None => op.id \in startup.todo
    /\ op.pc = "settle" => startup.todo = {}

\* Recovery takes a swap back to the end.
RecoveryFits == up = "starting" /\ op.pc = "undo" => op.then = "revert"

PcFits == OwnerFits /\ RestFits /\ ProcessFits /\ TodoFits /\ RecoveryFits

\* What its journal says at each step.
StateFits ==
    LET state == State(op.id) IN
    /\ op.pc \in Admission \cup Preparation \cup {"regenerate"} => state = "NONE"
    /\ op.pc \in Comparison => state = "PREPARING"
    /\ op.pc \in Swapping => state = "PROMOTING"
    /\ op.pc \in Projection => state = "PROMOTED_PENDING_DB"
    /\ op.pc \in Acknowledgement => state \in {"PROMOTED_PENDING_DB", "ACKNOWLEDGED"}
    /\ op.pc \in Cleanup => state = "ACKNOWLEDGED"
    /\ op.pc = "undo" => state \in {"PROMOTING", "PROMOTED_PENDING_DB"}
    /\ op.pc = "close" => state \in {"PREPARING", "PROMOTING"}
    /\ op.pc \in {"revert", "abortReceipt", "rolled"} => state = "ROLLED_BACK"
    /\ op.pc = "lock" => state \in {"PROMOTING", "PROMOTED_PENDING_DB", "ROLLED_BACK", "ACKNOWLEDGED"}
    /\ op.pc \in Refusal => state \in {"NONE", "PREPARING", "ROLLED_BACK"}
    /\ op.pc = "publish" => state \in {"NONE", "PREPARING", "ROLLED_BACK", "ACKNOWLEDGED"}

\* ... and its permit.
PermitFits ==
    /\ op.pc \in Admission \cup {"regenerate", "issue"} => permit[op.id] = "NONE"
    /\ op.pc \in {"promoting"} \cup Swapping => permit[op.id] = "CONSUMED"
    /\ \A i \in Id : permit[i] = "NONE" => journal[i] = None

----------------------------------------------------------------------------
(* The index of versions. *)

VersionsFit ==
    /\ versions[1].id = Initial
    /\ \A j, k \in DOMAIN versions : versions[j].id = versions[k].id => j = k
    /\ \A k \in 2..(Len(versions) - 1) : State(versions[k].id) = "ACKNOWLEDGED"
    /\ \A i \in Id : State(i) = "ACKNOWLEDGED" => Committed(i)
    /\ \A i \in Id : Committed(i) => State(i) \in {"PROMOTED_PENDING_DB", "ACKNOWLEDGED", "ROLLED_BACK"}
    /\ op.id # None =>
         /\ op.pc \in {"final", "append", "abortReceipt", "rolled"} \cup Refusal => ~Committed(op.id)
         /\ op.pc \in {"project"} \cup Acknowledgement => Committed(op.id)
         /\ op.pc = "undo" /\ op.then \in {"reject", "withdraw"} => ~Committed(op.id)

\* A transition that is not settled, and the one operation it may belong to:
\* the workspace is being exchanged, the version is to be reverted, or the
\* receipt was written and the journal was not.
Undecided(i) == State(i) = "ROLLED_BACK" /\ Committed(i)
Announced(i) == i \in Run /\ State(i) = "NONE" /\ Phase(i) = "PENDING_PROMOTION"
Open(i) == InSwap(i) \/ Undecided(i) \/ Announced(i)

\* Startup recovery has to account for it before anybody is admitted.
AwaitsRecovery(i) ==
    /\ up = "starting" => /\ op.pc = "dispositions" => db.locked
                          /\ op.pc # "dispositions" => i \in startup.todo \/ startup.manual # "no"
    /\ up = "up" => op = Idle /\ (db.locked \/ reserved)

OpenFits ==
    /\ \A i, j \in Id : Open(i) /\ Open(j) => i = j
    /\ \A i \in Id : Open(i) =>
         \/ up = "up" /\ op.id = i
         \/ AwaitsRecovery(i)
         \/ Announced(i) /\ op.pc \in InRecovery \ {"settle", "dispositions"} /\ up = "starting"

\* Trees are exchanged in the open swap only.
BackupFits ==
    /\ \A i \in Id : backup[i] # None => InSwap(i)
    /\ ws = None => \E i \in Id : InSwap(i) /\ backup[i] # None
    /\ op.pc \in {"vacate", "close", "acknowledge"} => backup[op.id] = None
    /\ op.pc \in {"fill"} => ws = None
    /\ op.pc \in {"pendingDb"} \cup Projection \cup {"dropBackup", "acknowledge", "close"} => ws # None

----------------------------------------------------------------------------
(* Receipts, answers and what is shown of them. *)

Accepts(r) == receipt[r] # None /\ receipt[r].decision = "COMMITTED"

ReceiptsFit ==
    /\ \A r \in Run :
         /\ Phase(r) = "PENDING_PROMOTION" => Accepts(r)
         /\ Phase(r) = "PENDING_DISPOSITION" => ~Accepts(r)
         /\ Phase(r) = "TERMINAL" /\ Accepts(r) => State(r) = "ACKNOWLEDGED"
         /\ InSwap(r) \/ State(r) = "ACKNOWLEDGED" => Accepts(r)
         /\ Committed(r) => Accepts(r)
    /\ op.pc \in Admission \cup {"issue", "claim", "record"} /\ op.id \in Run => receipt[op.id] = None
    /\ op.pc \in {"stage"} \cup Comparison /\ op.id \in Run => AwaitsAck(op.id)
    /\ op.pc = "publish" /\ op.outcome = "decided" => receipt[op.id] # None /\ ~Accepts(op.id)
    /\ op.pc = "release" /\ op.id \in Run => Phase(op.id) = "TERMINAL"
    /\ op.pc = "dispose" => Phase(op.id) = "PENDING_DISPOSITION"
    /\ op.pc = "dispositions" => \A i \in startup.todo : i \in Run /\ Phase(i) = "PENDING_DISPOSITION"
    /\ up = "starting" /\ op.pc # "dispositions" => \A i \in startup.todo : journal[i] # None
    /\ \A i \in startup.rolled : State(i) \in {"NONE", "ROLLED_BACK"} /\ ~Committed(i)

\* What the database shows is in the index; what recovery takes back it also
\* takes back there.
Orphaned(i) == State(i) = "ROLLED_BACK" /\ ~Committed(i)

Shown(i) == i \in spoken \/ db.head = i

ShownFits ==
    /\ \A i \in Id : Shown(i) => Committed(i) \/ Orphaned(i)
    /\ \A i \in Id : Shown(i) /\ Orphaned(i) =>
         AwaitsRecovery(i) \/ (up = "starting" /\ op.pc # "dispositions" /\ i \in startup.rolled)
    /\ \A r \in Run : State(r) = "ACKNOWLEDGED" => r \in spoken
    /\ db.head \in Run => db.head \in spoken \/ Orphaned(db.head)
    /\ db.thread # None => db.thread \in spoken
    /\ db.thread # None /\ db.thread # db.head =>
         Orphaned(db.thread) /\ up # "up" /\ op.pc # "dispositions"
    /\ op.id # None /\ up = "up" /\ op.pc \notin Acknowledgement \cup Cleanup \cup {"lock", "publish"} => ~Shown(op.id)
    /\ op.pc \in Acknowledgement \/ (op.pc \in Cleanup /\ up = "up") =>
         db.head = op.id /\ (op.id \in Run => op.id \in spoken)

HeadFits ==
    /\ \/ db.head = Latest.id
       \/ Len(versions) > 1 /\ State(Latest.id) # "ACKNOWLEDGED" /\ db.head = versions[Len(versions) - 1].id
       \/ db.head \in Id /\ Orphaned(db.head)
    /\ op.pc = "settle" /\ startup.manual = "no" => db.head = Latest.id

Unpublished ==
    \A r \in Run : published[r] = "none" =>
        permit[r] = "NONE" /\ receipt[r] = None /\ proposal[r] = "NONE" /\ op.id # r

CompletedFits ==
    \A r \in Run : published[r] = "completed" /\ Accepts(r) => Phase(r) = "TERMINAL"

PublishedFits ==
    /\ Unpublished /\ CompletedFits
    /\ op.id \in Run /\ up = "up" /\ op.pc # "dispose" => published[op.id] \in {"queued", "running"}

----------------------------------------------------------------------------
(* Trees. *)

\* t is u, but for somebody who has edited its content.
Near(t, u) == t # None /\ t.p = u.p /\ t.v \in {u.v, Edited}
Holds(t, content) == t # None /\ t.v \in {content, Edited}

AcceptedHead == Accepted[Len(Accepted)]

Places(i) ==
    LET base == journal[i].base
        target == journal[i].target
    IN  \/ backup[i] = None /\ Near(ws, base)
        \/ ws = None /\ Near(backup[i], base)
        \/ Near(ws, target) /\ Near(backup[i], base)
        \/ db.head = i /\ backup[i] = None /\ Near(ws, target)

TreesFit ==
    /\ (\A i \in Id : ~InSwap(i)) => Holds(ws, AcceptedHead.v)
    /\ \A i \in Id : InSwap(i) =>
         /\ Places(i)
         /\ Holds(journal[i].base, AcceptedHead.v)
         /\ Committed(i) => /\ Latest.v \in {journal[i].target.v, Edited}
                            /\ i \in Run => Latest.v = journal[i].target.v
         /\ db.head = i => State(i) = "PROMOTED_PENDING_DB"
         /\ drifts = 0 /\ db.head = i => /\ ws = journal[i].target
                                         /\ db.headLive = ws /\ db.live = ws
         /\ i \in Run => receipt[i].final.p = journal[i].target.p
    /\ \A k \in DOMAIN versions : versions[k].id = db.head =>
         Holds(db.live, versions[k].v) /\ Holds(db.headLive, versions[k].v)
    /\ op.pc \in {"project"} \cup Acknowledgement => Holds(ws, Latest.v)
    /\ op.pc = "undo" /\ drifts = 0 => db.head # op.id
    /\ \A i \in Id : journal[i] # None => journal[i].target.p = journal[i].base.p

Untouched ==
    drifts = 0 =>
      /\ ws # None => ws.v # Edited
      /\ \A i \in Id : /\ backup[i] # None => backup[i].v # Edited
                       /\ journal[i] # None => Edited \notin {journal[i].base.v, journal[i].target.v}
      /\ \A k \in DOMAIN versions : versions[k].v # Edited
      /\ \A r \in Run : receipt[r] # None =>
            /\ receipt[r].base.v # Edited
            /\ receipt[r].final # None => receipt[r].final.v # Edited
      /\ db.live.v # Edited
      /\ op.base # None => op.base.v # Edited
      /\ op.tree # None => op.tree.v # Edited

\* The trees an operation works with.
OpTrees ==
    /\ op.id \in Run /\ op.pc \in (Admission \ {"bind"}) \cup Preparation \cup Comparison \cup Swapping \cup Projection =>
         op.base = db.live
    /\ op.id \in Run /\ op.pc \in {"seal", "verify"} \cup Preparation \cup Comparison \cup Swapping \cup Projection =>
         op.tree # None /\ op.tree.p = op.base.p /\ op.tree.v \in {op.id, op.base.v}
    /\ op.id \in Rollback /\ op.pc \in {"regenerate"} \cup Preparation \cup Comparison \cup Swapping \cup Projection =>
         /\ op.tree # None /\ op.tree.p = db.cfg
         /\ \E k \in DOMAIN versions : versions[k].v = op.tree.v /\ versions[k].id # op.id
    /\ op.id \in Rollback /\ op.pc \in Preparation \cup Comparison \cup Swapping \cup Projection =>
         op.base.p = db.cfg /\ Holds(op.base, AcceptedHead.v)
    /\ op.id # None /\ op.pc \in Comparison \cup Swapping \cup Projection =>
         journal[op.id].base = op.base /\ journal[op.id].target = op.tree
    /\ op.pc \in Preparation \cup Comparison \cup {"vacate", "close"} => Near(ws, op.base)
    /\ op.pc \in {"pendingDb"} \cup Projection => Near(ws, op.tree)
    /\ op.id \in Run /\ op.pc \in {"stage"} \cup Comparison \cup Swapping =>
         receipt[op.id].base = op.base /\ receipt[op.id].final = op.tree
    /\ op.id \in Run /\ op.pc \in Projection => Near(receipt[op.id].final, op.tree)
    /\ op.pc = "configure" => ws # None /\ ws.p = db.cfg + 1 /\ ws.p \in 0..MaxConfigs

\* The bytes of a receipt without a journal are where they were.
AnnouncedFits == \A r \in Run : Announced(r) => Near(ws, receipt[r].base)

\* The row has the configuration that AGENTS.md was rendered from.
Rendered(p) ==
    /\ (\A i \in Id : ~InSwap(i)) => ws.p = p
    /\ \A i \in Id : InSwap(i) => journal[i].base.p = p

RowFits ==
    /\ up = "up" /\ ~db.locked /\ op.pc # "configure" /\ db.live.p = db.cfg => Rendered(db.live.p)
    /\ op.pc = "settle" /\ startup.manual = "no" => Rendered(db.live.p)
    /\ op.pc = "dispositions" /\ ~db.locked => Rendered(db.live.p)
    /\ crashes = 0 => /\ up = "up" /\ db.live.p = db.cfg
                      /\ \A i \in Id : InSwap(i) => journal[i].target.p = db.cfg

----------------------------------------------------------------------------
(* Snapshots. *)

\* The retention of a recovery has its own limit, and may run while a head is
\* staged that is taken back afterwards.
RecoveryKeepsAll == IsFiniteSet(Content) /\ Cardinality(Content) <= RetainedAtStartup

SnapshotsFit ==
    /\ \A j, k \in DOMAIN snapshots : snapshots[j].v = snapshots[k].v => j = k
    /\ crashes = 0 \/ RecoveryKeepsAll => {Latest.v, AcceptedHead.v} \subseteq Restorable

\* What the contract allows a version to be.
ResultFits ==
    Latest.id \in Id /\ State(Latest.id) # "ACKNOWLEDGED" =>
        Latest.v \in (IF Latest.id \in Run THEN {Latest.id, AcceptedHead.v}
                      ELSE {versions[k].v : k \in 1..(Len(versions) - 1)}) \cup {Edited}

----------------------------------------------------------------------------
\* A permit is spent on one swap.
PermitsSpent ==
    \A i \in Id : State(i) \in {"PROMOTING", "PROMOTED_PENDING_DB", "ACKNOWLEDGED"} =>
        permit[i] = "CONSUMED"

\* Every step preserves it: GateInv and Recoverable follow from it.
GateIInv ==
    /\ TypeOK /\ OpTypes /\ Knows /\ PcFits /\ StateFits /\ PermitFits
    /\ VersionsFit /\ OpenFits /\ BackupFits
    /\ ReceiptsFit /\ ShownFits /\ HeadFits /\ PublishedFits
    /\ TreesFit /\ Untouched /\ OpTrees /\ AnnouncedFits /\ RowFits
    /\ SnapshotsFit /\ ResultFits
=============================================================================
