------------------------- MODULE RecoveryInvariant -------------------------
(***************************************************************************)
(* What the Worker's steps rely on beyond the log: which step of a handler *)
(* comes after which, and what each of them finds in the log and on disk.  *)
(* A part that holds under a condition only is stated with it: a repair of *)
(* an interrupted commit or an I/O error breaks the others.                *)
(***************************************************************************)
EXTENDS WorkerInvariant

----------------------------------------------------------------------------
(* The order of the steps. *)

\* In the plans of this kind of operation step a is followed by b; by "end" if
\* it may be the last.
Follows(kind, a, b) ==
    \/ kind = "prepareRun" /\ <<a, b>> \in {<<"clone", "prepare">>, <<"prepare", "end">>}
    \/ kind = "seal" /\ <<a, b>> \in
         {<<"importProposal", "logSeal">>, <<"importProposal", "logFlawed">>,
          <<"logSeal", "finishIntent">>, <<"logFlawed", "finishIntent">>, <<"finishIntent", "end">>}
    \/ kind \in {"export", "platform", "archive", "intents"} /\ <<a, b>> = <<"finishIntent", "end">>
    \/ kind = "rollback" /\ <<a, b>> \in {<<"authorize", "authorize">>, <<"authorize", "end">>}
    \/ kind = "apply" /\ <<a, b>> \in
         {<<"backup", "logBackup">>, <<"logBackup", "swap">>, <<"swap", "snapshot">>,
          <<"snapshot", "apply">>, <<"apply", "ack">>, <<"ack", "dropBackup">>,
          <<"dropBackup", "remove">>, <<"remove", "logDestroyed">>, <<"logDestroyed", "end">>}
    \/ kind = "undo" /\ <<a, b>> \in
         {<<"evict", "reinstate">>, <<"reinstate", "remove">>, <<"remove", "logDestroyed">>,
          <<"logDestroyed", "restore">>, <<"restore", "end">>}
    \/ kind = "conflict" /\ <<a, b>> \in
         {<<"reject", "remove">>, <<"remove", "logDestroyed">>, <<"logDestroyed", "end">>}
    \/ kind = "dispose" /\ <<a, b>> \in
         {<<"remove", "logDestroyed">>, <<"logDestroyed", "reject">>, <<"reject", "end">>}
    \/ kind = "cleanup" /\ <<a, b>> \in {<<"remove", "logDestroyed">>, <<"logDestroyed", "end">>}
    \/ kind = "repair" /\ <<a, b>> \in
         {<<"evict", "reinstate">>, <<"reinstate", "logRepair">>, <<"backup", "logBackup">>,
          <<"logBackup", "swap">>, <<"swap", "logRepair">>, <<"logRepair", "end">>}
    \/ kind = "repaired" /\ <<a, b>> \in
         {<<"snapshot", "apply">>, <<"apply", "ack">>, <<"ack", "dropBackup">>,
          <<"dropBackup", "end">>, <<"remove", "logDestroyed">>, <<"logDestroyed", "restore">>,
          <<"restore", "end">>}
    \/ kind = "recover" /\ <<a, b>> \in
         {<<"finishIntent", "examine">>, <<"reinstate", "examine">>, <<"examine", "end">>,
          <<"settle", "end">>, <<"apply", "snapshot">>, <<"snapshot", "ack">>,
          <<"ack", "dropBackup">>, <<"dropBackup", "remove">>, <<"remove", "logDestroyed">>,
          <<"logDestroyed", "examine">>, <<"logDestroyed", "reject">>, <<"reject", "examine">>,
          <<"logDestroyed", "restore">>, <<"restore", "examine">>}

\* A plan of this kind.
Ordered(kind, plan) ==
    \A i \in 1..Len(plan) :
        Follows(kind, plan[i], IF i = Len(plan) THEN "end" ELSE plan[i + 1])

\* The step to be taken next, and those still to come.
First(S) == op.plan # <<>> /\ Head(op.plan) \in S
Some(S) == \E i \in 1..Len(op.plan) : op.plan[i] \in S

ProcessFits ==
    /\ op.plan = <<>> <=> op = Idle
    /\ op = Idle => up # "starting"
    /\ up = "starting" => op.kind = "recover"
    /\ up \in {"down", "sweeping"} => op = Idle
    /\ op.kind = "none" <=> op = Idle

OrderFits == Ordered(op.kind, op.plan) /\ ProcessFits

----------------------------------------------------------------------------
(* Snapshots: always. *)

SnapshotsFit ==
    /\ VersionTrees \subseteq snapshots
    /\ First({"ack"}) \/ (First({"apply"}) /\ op.kind # "recover") =>
         tx[op.txn].next.tree \in snapshots

----------------------------------------------------------------------------
(* The log stays replayable: without a repair. *)

RepairFree == "repair" \notin Requests

Cleaning == {"dropBackup", "remove", "logDestroyed"}

\* The state each handler leaves the transition in for its next event.
StateFits ==
    LET state == tx[op.txn].state
    IN  /\ op.kind = "prepareRun" => state = "NONE"
        /\ op.kind = "apply" /\ First(ApplySteps \ {"ack"}) => state = "CONSUMING"
        /\ op.kind = "recover" /\ First({"apply"}) => state = "CONSUMING"
        /\ First({"ack"}) => state = "APPLIED"
        /\ op.kind = "recover" /\ First({"snapshot"}) => state = "APPLIED"
        /\ op.kind = "undo" => state \in {"CONSUMING", "APPLIED"}
        /\ op.kind = "conflict" /\ First({"reject"}) => state = "PERMITTED"
        /\ op.kind = "dispose" => state \in OpenStates
        /\ First(Cleaning) => state # "NONE"
        /\ op.kind = "recover" /\ Some({"reject"}) => state \in OpenStates
        /\ op.kind = "recover" /\ Some({"restore"}) =>
             state \in {"CONSUMING", "APPLIED"} /\ ~First({"apply", "snapshot", "ack"})

Replayable ==
    /\ ~corrupt
    /\ op.kind \notin {"repair", "repaired"}
    /\ \A t \in Txn : tx[t].state # "REPAIRED"
    /\ StateFits

----------------------------------------------------------------------------
(* What is destroyed stays so: without an I/O error. *)

\* What destroyRunArtifacts deletes is gone: the copy it does not know of may not be.
Cleared(t) ==
    /\ candidate[t] = None /\ export[t] = None
    /\ proposal[t] = None \/ tx[t].artifact = None

\* What is recorded as destroyed is, and a refusal is of what is destroyed.
ClaimsHold ==
    /\ \A t \in Txn : tx[t].destroyed => Cleared(t)
    /\ \A i \in DOMAIN receipts : receipts[i].decision \in {"QUARANTINED", "ABORTED"} =>
         tx[receipts[i].txn].destroyed

SealIntents == {i \in pending : i.kind = "seal"}
SealSteps == {"importProposal", "logSeal", "logFlawed"}

\* A copy not yet sealed is being sealed: by the running handler, or by the intent
\* it has left.
Sealing(t) ==
    /\ ~tx[t].destroyed
    /\ (First(SealSteps) /\ op.txn = t) \/ \E i \in SealIntents : i.txn = t

\* While requests are served there is no other copy.  A kill between the rename
\* of a copy and its intent leaves one until the sweep.
CopiesFit ==
    \A t \in Txn : proposal[t] # None =>
        /\ IsRun(t)
        /\ Handshake /\ up = "serving" => tx[t].artifact # None \/ Sealing(t)

\* An intent to seal is the only one, and finished before anything else is done.
SealingFits ==
    \A i \in SealIntents :
        /\ pending = {i} /\ tx[i.txn].state = "PREPARED" /\ ~tx[i.txn].destroyed
        /\ proposal[i.txn] # None
        /\ up = "down" \/ First({"finishIntent"})

\* What the steps that make or destroy a copy have established.
RemovalFits ==
    /\ op.kind = "prepareRun" => tx[op.txn].state = "NONE"
    /\ First(SealSteps) =>
         /\ tx[op.txn].state = "PREPARED" /\ candidate[op.txn] # None /\ pending = {}
         /\ IsRun(op.txn) /\ ~tx[op.txn].destroyed
         /\ Handshake => "AGENT" \in tx[op.txn].teardown /\ candidate[op.txn] = op.tree
    /\ First({"logSeal", "logFlawed"}) => proposal[op.txn] # None
    /\ First({"logDestroyed"}) => Cleared(op.txn)
    /\ First({"restore"}) \/ (First({"reject"}) /\ op.kind # "conflict") => tx[op.txn].destroyed
    /\ op.kind = "conflict" => op.decision = "CONFLICTED"

DestructionFits == ClaimsHold /\ CopiesFit /\ (corrupt \/ (SealingFits /\ RemovalFits))

----------------------------------------------------------------------------

\* The Worker's invariant: Inductive, and what recovery adds to it.
RecoveryInv ==
    /\ Inductive /\ OrderFits /\ SnapshotsFit
    /\ RepairFree => Replayable
    /\ MaxFaults = 0 => DestructionFits
=============================================================================
