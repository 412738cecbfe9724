--------------------------- MODULE TransitionLog ---------------------------
(***************************************************************************)
(* The Worker's append-only event log of one Agent, seen through the       *)
(* projection that is rebuilt from it (transition-worker/projection.ts).   *)
(*                                                                         *)
(* The code keeps the events and folds them on every read.  The fold is    *)
(* deterministic and incremental, so this module keeps the folded facts    *)
(* and has one operator per event type: the operator is the fold's case    *)
(* for that event.  A case that throws is not skipped: the event is        *)
(* already durable, every later read of the log throws too, and corrupt    *)
(* records it.  An event that the fold ignores (ROLLBACK_APPLIED, receipt  *)
(* proofs, the two V1 terminal events) has no operator.                    *)
(*                                                                         *)
(* A tree is what a directory's manifest hash identifies: its versioned    *)
(* part v and its platform-managed part p (AGENTS.md).  A View is the      *)
(* tuple of fields its viewId hashes; equality of Views is equality of     *)
(* viewIds.                                                                *)
(***************************************************************************)
EXTENDS Naturals, Sequences

CONSTANTS
    Txn,         \* transition ids; a run's transition id is its run id
    Rollbacks,   \* the transitions of kind ROLLBACK (they have no run)
    Versioned,   \* contents of the versioned part of a tree
    Platform,    \* contents of the platform-managed part of a tree
    InitialTree, \* the tree AGENT_INITIALIZED installed
    Initial,     \* the version id of that tree
    None         \* "absent": null fields, missing directories

ASSUME LogAssumption ==
    /\ Rollbacks \subseteq Txn
    /\ InitialTree \in [v : Versioned, p : Platform]
    /\ Initial \notin Txn
    /\ None \notin Txn
    /\ None \notin [v : Versioned, p : Platform]

Tree == [v : Versioned, p : Platform]

View == [ver : Txn \cup {Initial}, gen : Nat, tree : Tree, epoch : Nat, cfg : Nat]

ASSUME NoneIsNoView == None \notin View

InitialView ==
    [ver |-> Initial, gen |-> 0, tree |-> InitialTree, epoch |-> 0, cfg |-> 0]

OpenStates == {"PREPARED", "SEALED", "EVIDENCED", "PERMITTED", "CANCELLED"}
CrossingStates == {"CONSUMING", "APPLIED", "REPAIRED"}
States == {"NONE", "ACKNOWLEDGED", "ROLLED_BACK"} \cup OpenStates \cup CrossingStates

PermitStates == {"NONE", "ISSUED", "CONSUMING", "CONSUMED", "REVOKED"}

NonCommits == {"QUARANTINED", "CONFLICTED", "ABORTED"}

\* What the projection knows of one transition, its proposal, its evidence,
\* its permit and the intent in its PERMIT_CONSUMING event.
Transition ==
    [state     : States,
     base      : View \cup {None},
     teardown  : SUBSET {"AGENT", "ALL"},
     artifact  : Tree \cup {None},
     clean     : BOOLEAN,              \* no static failure was recorded
     exported  : BOOLEAN,
     passed    : BOOLEAN,              \* complete evidence, required checks passed
     permit    : PermitStates,
     next      : View \cup {None},     \* nextView bound by PERMIT_CONSUMING
     destroyed : BOOLEAN]

Unprepared ==
    [state |-> "NONE", base |-> None, teardown |-> {}, artifact |-> None,
     clean |-> FALSE, exported |-> FALSE, passed |-> FALSE, permit |-> "NONE",
     next |-> None, destroyed |-> FALSE]

Receipt ==
    [txn : Txn, decision : NonCommits \cup {"COMMITTED"}, view : View, prior : View]

\* Durable intents.  Whoever appends one first finishes every other (the four
\* handlers share recoverPendingWorkerIntents), so their order is immaterial.
Intent ==
    [kind : {"seal", "export"}, txn : Txn, clean : BOOLEAN]
      \cup [kind : {"platform"}, base : View, view : View]
      \cup [kind : {"archive"}, view : View]

VARIABLES
    head,      \* projection.head.view (its workspaceHash is head.tree)
    tx,        \* projection.transitions, with proposals, evidence, permits
    order,     \* the transitions in the order they were prepared
    receipts,  \* projection.terminalReceipts
    pending,   \* intents without a completion event
    archived,  \* projection.archived
    corrupt    \* the fold of the log throws

projected == <<head, tx, order, receipts, pending, archived>>
logVars == <<head, tx, order, receipts, pending, archived, corrupt>>

LogInit ==
    /\ head = InitialView
    /\ tx = [t \in Txn |-> Unprepared]
    /\ order = <<>>
    /\ receipts = <<>>
    /\ pending = {}
    /\ archived = FALSE
    /\ corrupt = FALSE

----------------------------------------------------------------------------
(* Facts read off the projection. *)

IsRun(t) == t \notin Rollbacks

HasReceipt(t) == \E i \in DOMAIN receipts : receipts[i].txn = t

Committed(t) ==
    \E i \in DOMAIN receipts : receipts[i].txn = t /\ receipts[i].decision = "COMMITTED"

\* A proposal is in projection state SEALED until its bytes are destroyed.
ProposalSealedState(t) == tx[t].artifact # None /\ ~tx[t].destroyed

Completing(i, kind, t) == i.kind = kind /\ (kind \in {"seal", "export"} => i.txn = t)

\* Mutant: a completion event does not complete its intent.
Without_Mutant(kind, t) == pending

\* The pending intents left once the completion event of this one is durable.
Without(kind, t) == {i \in pending : ~Completing(i, kind, t)}

----------------------------------------------------------------------------
(* Events. *)

\* Append an event whose case in the fold checks `accepts` before `effect`.
Fold(accepts, effect) ==
    IF accepts
    THEN effect /\ UNCHANGED corrupt
    ELSE corrupt' = TRUE /\ UNCHANGED projected

Update(t, record) == tx' = [tx EXCEPT ![t] = record]

TRANSITION_PREPARED(t) ==
    Fold(tx[t].state = "NONE",
         /\ Update(t, [Unprepared EXCEPT !.state = "PREPARED", !.base = head])
         /\ order' = Append(order, t)
         /\ UNCHANGED <<head, receipts, pending, archived>>)

RUNTIME_TEARDOWN_RECORDED(t, scope) ==
    Fold(tx[t].state # "NONE" /\ IsRun(t),
         /\ Update(t, [tx[t] EXCEPT !.teardown = @ \cup {scope}])
         /\ UNCHANGED <<head, order, receipts, pending, archived>>)

\* Mutant: the permit of a cancelled run stays live.
RUN_CANCELLED_Mutant(t) ==
    Fold(tx[t].state \in OpenStates,
         /\ Update(t, [tx[t] EXCEPT !.state = "CANCELLED"])
         /\ UNCHANGED <<head, order, receipts, pending, archived>>)

RUN_CANCELLED(t) ==
    Fold(tx[t].state \in OpenStates,
         /\ Update(t, [tx[t] EXCEPT !.state = "CANCELLED",
                                    !.permit = IF @ = "ISSUED" THEN "REVOKED" ELSE @])
         /\ UNCHANGED <<head, order, receipts, pending, archived>>)

\* PROPOSAL_SEAL_PREPARED, PROPOSAL_EXPORT_PREPARED,
\* PLATFORM_STATE_REGENERATION_PREPARED, AGENT_ARCHIVE_PREPARED: the fold
\* ignores them; they are pending until their completion event.
INTENT_PREPARED(intent) ==
    /\ pending' = pending \cup {intent}
    /\ UNCHANGED <<head, tx, order, receipts, archived, corrupt>>

PROPOSAL_SEALED(t, artifact, clean) ==
    Fold(tx[t].state = "PREPARED",
         /\ Update(t, [tx[t] EXCEPT !.state = "SEALED", !.artifact = artifact,
                                    !.clean = clean])
         /\ pending' = Without("seal", t)
         /\ UNCHANGED <<head, order, receipts, archived>>)

PROPOSAL_EXPORTED(t) ==
    Fold(ProposalSealedState(t),
         /\ Update(t, [tx[t] EXCEPT !.exported = TRUE])
         /\ pending' = Without("export", t)
         /\ UNCHANGED <<head, order, receipts, archived>>)

RUN_ARTIFACTS_DESTROYED(t) ==
    Fold(tx[t].state # "NONE",
         /\ Update(t, [tx[t] EXCEPT !.destroyed = TRUE])
         /\ UNCHANGED <<head, order, receipts, pending, archived>>)

EVIDENCE_RECORDED(t, passed) ==
    Fold(tx[t].state = "SEALED",
         /\ Update(t, [tx[t] EXCEPT !.state = "EVIDENCED", !.passed = passed])
         /\ UNCHANGED <<head, order, receipts, pending, archived>>)

PERMIT_ISSUED(t) ==
    Fold(tx[t].state = "EVIDENCED" /\ tx[t].permit = "NONE",
         /\ Update(t, [tx[t] EXCEPT !.state = "PERMITTED", !.permit = "ISSUED"])
         /\ UNCHANGED <<head, order, receipts, pending, archived>>)

PERMIT_CONSUMING(t, next) ==
    Fold(tx[t].permit = "ISSUED",
         /\ Update(t, [tx[t] EXCEPT !.state = "CONSUMING", !.permit = "CONSUMING",
                                    !.next = next])
         /\ UNCHANGED <<head, order, receipts, pending, archived>>)

BACKUP_CREATED(t, tree) ==
    Fold(tx[t].state = "CONSUMING" /\ tree = tx[t].base.tree,
         UNCHANGED projected)

WORKSPACE_APPLIED(t) ==
    Fold(tx[t].state \in {"CONSUMING", "REPAIRED"},
         /\ Update(t, [tx[t] EXCEPT !.state = "APPLIED"])
         /\ head' = tx[t].next
         /\ UNCHANGED <<order, receipts, pending, archived>>)

\* Mutant: the permit is not marked CONSUMED by the acknowledgement.
TRANSITION_ACKNOWLEDGED_Mutant(t) ==
    Fold(tx[t].state = "APPLIED",
         /\ Update(t, [tx[t] EXCEPT !.state = "ACKNOWLEDGED"])
         /\ receipts' = Append(receipts,
                          [txn |-> t, decision |-> "COMMITTED",
                           view |-> tx[t].next, prior |-> tx[t].base])
         /\ UNCHANGED <<head, order, pending, archived>>)

TRANSITION_ACKNOWLEDGED(t) ==
    Fold(tx[t].state = "APPLIED",
         /\ Update(t, [tx[t] EXCEPT !.state = "ACKNOWLEDGED",
                                    !.permit = IF @ = "NONE" THEN @ ELSE "CONSUMED"])
         /\ receipts' = Append(receipts,
                          [txn |-> t, decision |-> "COMMITTED",
                           view |-> tx[t].next, prior |-> tx[t].base])
         /\ UNCHANGED <<head, order, pending, archived>>)

\* Mutant: a restored transition is disposed of against the HEAD it had moved.
DispositionBase_Mutant(t, restored) == head

\* A disposition is made against HEAD, or (restored) against the base the
\* workspace was put back to; either way it opens a new session epoch.
DispositionBase(t, restored) == IF restored THEN tx[t].base ELSE head

NON_COMMIT_DISPOSITIONED(t, decision, restored) ==
    LET authority == DispositionBase(t, restored)
        view == [authority EXCEPT !.epoch = @ + 1]
    IN  Fold(/\ tx[t].state \notin {"NONE", "ACKNOWLEDGED"}
             /\ tx[t].state = "REPAIRED" => restored
             /\ tx[t].permit # "CONSUMED"
             /\ ~HasReceipt(t),
             /\ Update(t, [tx[t] EXCEPT !.state = "ROLLED_BACK",
                             !.permit = IF @ = "NONE" THEN @ ELSE "REVOKED"])
             /\ receipts' = Append(receipts, [txn |-> t, decision |-> decision,
                                              view |-> view, prior |-> authority])
             /\ head' = view
             /\ UNCHANGED <<order, pending, archived>>)

REPAIR_APPLIED(t) ==
    Fold(tx[t].state # "NONE",
         /\ Update(t, [tx[t] EXCEPT !.state = "REPAIRED"])
         /\ UNCHANGED <<head, order, receipts, pending, archived>>)

PLATFORM_STATE_REGENERATED(view) ==
    /\ head' = view
    /\ pending' = Without("platform", None)
    /\ UNCHANGED <<tx, order, receipts, archived, corrupt>>

AGENT_ARCHIVED ==
    /\ archived' = TRUE
    /\ pending' = Without("archive", None)
    /\ UNCHANGED <<head, tx, order, receipts, corrupt>>
=============================================================================
