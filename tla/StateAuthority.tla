--------------------------- MODULE StateAuthority ---------------------------
(***************************************************************************)
(* What the Transition Authority promises the rest of the product about    *)
(* one Agent: a single authoritative View, and for every transition at     *)
(* most one decision, taken atomically against the View of that instant.   *)
(* A commit replaces the tree and advances the generation; a non-commit    *)
(* leaves the tree and opens a new session epoch; a configuration change   *)
(* regenerates the platform-managed part only; an archived Agent never     *)
(* changes content again.  There is no process, no disk and no crash here. *)
(***************************************************************************)
EXTENDS Naturals

CONSTANTS Txn, Rollbacks, Tree, Platform, InitialView

VARIABLES
    view,     \* the authoritative View
    decision, \* of each transition, "OPEN" until it has one
    retired   \* the Agent is archived

authorityVars == <<view, decision, retired>>

Init ==
    /\ view = InitialView
    /\ decision = [t \in Txn |-> "OPEN"]
    /\ retired = FALSE

Decide(t, outcome) ==
    /\ decision[t] = "OPEN"
    /\ decision' = [decision EXCEPT ![t] = outcome]

\* A rollback also opens a session epoch: the conversation that led to the
\* abandoned content must not continue.
Commit(t, tree) ==
    /\ ~retired
    /\ Decide(t, "COMMITTED")
    /\ view' = [view EXCEPT !.ver = t, !.gen = @ + 1, !.tree = tree,
                            !.epoch = IF t \in Rollbacks THEN @ + 1 ELSE @]
    /\ UNCHANGED retired

Reject(t) ==
    /\ \E outcome \in {"QUARANTINED", "CONFLICTED", "ABORTED"} : Decide(t, outcome)
    /\ view' = [view EXCEPT !.epoch = @ + 1]
    /\ UNCHANGED retired

Configure(p) ==
    /\ ~retired
    /\ view' = [view EXCEPT !.gen = @ + 1, !.tree.p = p, !.epoch = @ + 1, !.cfg = @ + 1]
    /\ UNCHANGED <<decision, retired>>

Retire ==
    /\ retired' = TRUE
    /\ UNCHANGED <<view, decision>>

Next ==
    \/ \E t \in Txn, tree \in Tree : Commit(t, tree)
    \/ \E t \in Txn : Reject(t)
    \/ \E p \in Platform : Configure(p)
    \/ Retire

Spec == Init /\ [][Next]_authorityVars
=============================================================================
