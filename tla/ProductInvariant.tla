-------------------------- MODULE ProductInvariant --------------------------
(***************************************************************************)
(* The inductive strengthening of ProductInv.  It says what the properties *)
(* leave unsaid: what an execution has learnt from the Worker by the time  *)
(* it writes a row, that a run a user was told is cancelled can only be    *)
(* aborted, whatever request is still under way, and that every View on    *)
(* its way to the database was HEAD.                                       *)
(***************************************************************************)
EXTENDS ProductProperties

----------------------------------------------------------------------------
(* Which process does what. *)

\* The steps between an execution's binding and its end.
Bound == exec.pc \notin {"idle", "bind"}

\* At most one thing is in progress, nothing while the API is down or starting.
ProcessFits ==
    /\ exec.pc = "idle" => exec = NoExec
    /\ exec.pc # "idle" => exec.run \in Run /\ writing = None
    /\ Bound => rows[exec.run].status = "running"
    /\ exec.pc \in {"prepare", "retry"} => exec.base \in Views
    /\ writing # None => rows[writing].status = "queued"
    /\ exec.pc = "bind" => rows[exec.run].status # "none"
    /\ up # "up" => exec = NoExec /\ mut = NoMut /\ writing = None

\* A mutation's request has its View; a rollback runs alone.
MutationFits ==
    /\ mut.kind \in {"delete", "rollback", "update"} => mut.view \in Views
    /\ mut.kind = "rollback" =>
         /\ mut.txn \in Rollback /\ exec = NoExec /\ writing = None
         /\ mut.pc \in {"prepare", "apply", "record", "undo"}
    /\ mut.kind = "update" => mut.pc \in {"regenerate", "record"}

----------------------------------------------------------------------------
(* What the Worker will make of a run. *)

\* The Worker has not heard of it, and will not from a request under way.
Unknown(r) == base[r] = None /\ decision[r] = "OPEN" /\ ~(late # None /\ late.txn = r)

\* A disposition under way will say that the run was cancelled, or be refused.
LateHarmless(r) ==
    late # None /\ late.kind = "dispose" /\ late.txn = r =>
        archived \/ (late.named /\ late.outcome = "ABORTED")

\* The Worker can only abort it, and will say that it had been cancelled.
Doomed(r) ==
    IF decision[r] = "OPEN" THEN (r \in cancelled /\ base[r] # None /\ LateHarmless(r)) \/ Unknown(r)
    ELSE decision[r] = "ABORTED" /\ r \in cancelled

\* A run the Worker is not asked about before its execution binds it.
UnknownFits ==
    /\ \A r \in Run : rows[r].status = "none" \/ writing = r => Unknown(r)
    /\ exec.pc \in {"bind", "prepare"} => Unknown(exec.run)

\* The cancellation of the execution in progress: "stopped" once it is known,
\* before that by the answer to a stop.
Stopping == exec.stopped \/ (exec.accepted /\ Running)

StopFits ==
    /\ Stopping => Doomed(exec.run)
    /\ exec.stopped => exec.pc \in {"close", "dispose", "disposing", "confirm", "reject", "fail"}
    /\ exec.accepted => exec.pc \notin {"idle", "bind", "prepare", "retry"}
    /\ exec.prepared => exec.pc \notin {"idle", "bind", "prepare", "retry"}
                       /\ base[exec.run] # None
    /\ exec.pc \notin {"idle", "bind", "prepare", "retry", "fail"} => exec.prepared

\* A disposition under way was sent by an execution that had come that far.
DisposalFits ==
    late # None /\ late.kind = "dispose" /\ late.txn = exec.run =>
        exec.pc \in {"dispose", "disposing", "confirm", "reject", "fail"}

\* What the gate makes of the run, and what the Worker has made of it.
GateFits ==
    /\ exec.pc \in {"close", "dispose", "disposing", "confirm", "reject"} =>
         /\ exec.gate \in {"QUARANTINED", "CONFLICTED", "ABORTED"}
         /\ exec.gate = "CONFLICTED" => archived \/ decision[exec.run] # "OPEN"
         /\ exec.gate = "QUARANTINED" => ~exec.stopped /\ exec.pc # "close"
    /\ exec.pc \in {"promote"} => exec.run \in torn
    /\ exec.pc \in {"publish", "record"} => decision[exec.run] = "COMMITTED"
    /\ exec.pc \in {"confirm", "reject"} => decision[exec.run] # "OPEN"

\* What has been told of a run is what the Worker has decided, or must decide.
RowsFit ==
    \A r \in Run :
        /\ said[r] = "AUTHORITATIVE" => decision[r] = "COMMITTED"
        /\ rows[r].status = "completed" =>
             rows[r].decision = decision[r] /\ decision[r] \notin {"OPEN", "ABORTED"}
        /\ rows[r].status = "cancelled" => Doomed(r)

----------------------------------------------------------------------------
(* What has been HEAD. *)

Behind(v) ==
    /\ v.gen <= head.gen
    /\ v.gen = head.gen => v.ver = head.ver /\ v.tree = head.tree /\ v.cfg = head.cfg

\* The View updateAgent writes for the configuration it has regenerated.
Regenerated(v) == [v EXCEPT !.gen = @ + 1, !.epoch = @ + 1, !.cfg = @ + 1, !.tree.p = v.cfg + 1]

ViewsFit ==
    /\ Behind(db.view)
    /\ exec.pc \in {"reject", "record"} => exec.seen \in Views /\ Behind(exec.seen)
    /\ mut.kind = "rollback" /\ mut.pc = "record" => Behind(mut.view)
    /\ mut.kind = "update" /\ mut.pc = "record" =>
         Regenerated(mut.view) \in Views /\ Behind(Regenerated(mut.view))

\* Every configuration the Worker has, or may yet regenerate, was asked for.
LateOwed == IF late # None /\ late.kind = "configure" THEN 1 ELSE 0
ConfigurationsOwed == (IF MutAt("update", "regenerate") THEN 1 ELSE 0) + LateOwed

ConfigurationsAsked == head.cfg + ConfigurationsOwed <= requests

----------------------------------------------------------------------------
(* What a startup has established. *)

StartupFits ==
    /\ up \in {"recover", "apply"} => late = None /\ \A r \in Run : base[r] # None => r \in torn
    /\ up = "apply" => \A r \in ActiveRows : decision[r] # "OPEN"

ExecutionInv == ProcessFits /\ MutationFits /\ UnknownFits /\ StopFits /\ DisposalFits /\ GateFits

\* Every state of the product: ProductInv follows, and the two action
\* properties about what a user is told.
Inductive ==
    /\ TypeOK /\ ExecutionInv /\ RowsFit
    /\ ViewsFit /\ ConfigurationsAsked /\ StartupFits
=============================================================================
