---------------------------- MODULE GateContract ----------------------------
(***************************************************************************)
(* What a CommitGate promises about the content of one Agent: every run    *)
(* and every rollback is decided at most once, and only a commit adds to   *)
(* the history: a run's own content on top of what it was given, or, for   *)
(* a rollback, content that was in the history before.  Nothing is taken   *)
(* out of the history again.  There is no process and no disk here.        *)
(***************************************************************************)
EXTENDS Sequences, Naturals

CONSTANTS
    Run, Rollback,
    Initial,  \* content of the first version
    External  \* contents that only an administrator may bring in

VARIABLES
    history,  \* the accepted versions
    outcome   \* of each run and rollback

contractVars == <<history, outcome>>

Init ==
    /\ history = <<[id |-> Initial, v |-> Initial]>>
    /\ outcome = [i \in Run \cup Rollback |-> "OPEN"]

Decide(i, decision) ==
    /\ outcome[i] = "OPEN"
    /\ outcome' = [outcome EXCEPT ![i] = decision]

Accepted == {history[k].v : k \in DOMAIN history}

\* What a run or a rollback may turn the workspace into.
Results(i) ==
    (IF i \in Run THEN {i, history[Len(history)].v} ELSE Accepted) \cup External

Commit(i, v) ==
    /\ Decide(i, "COMMITTED") /\ v \in Results(i)
    /\ history' = Append(history, [id |-> i, v |-> v])

Refuse(i) == Decide(i, "REFUSED") /\ UNCHANGED history

Next ==
    \E i \in Run \cup Rollback :
        Refuse(i) \/ \E v \in Run \cup {Initial} \cup External : Commit(i, v)

Spec == Init /\ [][Next]_contractVars
=============================================================================
