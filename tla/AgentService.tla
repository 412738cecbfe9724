---------------------------- MODULE AgentService ----------------------------
(***************************************************************************)
(* The product over the Transition Authority (agent-service.ts with        *)
(* worker-commitgate-runner.ts and store.ts): the API process runs one     *)
(* Agent, keeps a JSON database of what it has told the user, and must     *)
(* keep it true to a Worker and a Broker that live, die and answer on      *)
(* their own.                                                              *)
(*                                                                         *)
(* The Worker is here what StateAuthority says it is, with the guards of   *)
(* its handlers; that TransitionWorker implements StateAuthority is        *)
(* checked there.  Its Agent queue serves one mutation at a time (late is  *)
(* the one whose caller has given up), while a projection can be read at   *)
(* any moment.  An action of the API is what runs between two awaits.      *)
(*                                                                         *)
(* Operators ending in _Mutant state the bug their comment describes; they *)
(* are put in the place of their namesakes to see which property notices.  *)
(***************************************************************************)
EXTENDS Naturals, FiniteSets

CONSTANTS
    Run,         \* messages a user may send: each is the run it starts
    Rollback,    \* rollbacks a user may ask for
    None,
    MaxRequests, \* bound: stops, deletions, rollbacks and configuration changes
    MaxFaults,   \* bound: lost replies, deaths of the Worker, failed calls and writes
    MaxRestarts  \* bound: deaths of the API process

ASSUME ProductAssumption ==
    /\ Run \cap Rollback = {} /\ None \notin Run \cup Rollback
    /\ {MaxRequests, MaxFaults, MaxRestarts} \subseteq Nat

Txn == Run \cup Rollback
Platform == 0..MaxRequests
Tree == [v : Txn \cup {None}, p : Platform]
InitialView == [ver |-> None, gen |-> 1, tree |-> [v |-> None, p |-> 0], epoch |-> 0, cfg |-> 0]

VARIABLES
    \* the Worker
    head, decision, archived, \* StateAuthority's view, decision and retired
    base,      \* of each admitted transition, the View it was admitted on
    cancelled, \* runs durably cancelled; once decided, the receipt names it
    torn,      \* runs whose teardown (ALL) is recorded
    late,      \* a request whose caller has given up waiting, or None
    \* the Broker
    launched,  \* runs its lifecycle ledger knows
    \* the product database
    db,        \* the Agent's row
    rows,      \* the runs' rows
    said,      \* authority of each run's assistant message
    \* the API process
    up,        \* "up", "down", or the step of the startup
    refusal,   \* why the startup gave up, or None
    writing,   \* the run whose admission is being persisted
    reserved,  \* recoveryReservations has the Agent
    exec,      \* the execution in progress
    mut,       \* the user's mutation in progress
    \* the bounds
    requests, faults, restarts

workerVars == <<head, decision, archived, base, cancelled, torn>>
dbVars == <<db, rows, said>>
processVars == <<up, refusal, writing, reserved>>
boundVars == <<requests, faults, restarts>>
vars == <<workerVars, late, launched, dbVars, processVars, exec, mut, boundVars>>

Authority == INSTANCE StateAuthority WITH Rollbacks <- Rollback, view <- head, retired <- archived

NoExec == [run |-> None, pc |-> "idle", base |-> None, prepared |-> FALSE, stopped |-> FALSE,
           accepted |-> FALSE, gate |-> None, settled |-> FALSE, again |-> FALSE,
           lock |-> FALSE, seen |-> None]
NoMut == [kind |-> "none", pc |-> "idle", view |-> None, status |-> "ready", txn |-> None]

Init ==
    /\ Authority!Init
    /\ base = [t \in Txn |-> None] /\ cancelled = {} /\ torn = {} /\ late = None
    /\ launched = {}
    /\ db = [status |-> "ready", view |-> head, lease |-> None, locked |-> FALSE, gone |-> FALSE]
    /\ rows = [r \in Run |-> [status |-> "none", terminal |-> FALSE, decision |-> None,
                              base |-> None]]
    /\ said = [r \in Run |-> "none"]
    /\ up = "up" /\ refusal = None /\ writing = None /\ reserved = FALSE
    /\ exec = NoExec /\ mut = NoMut
    /\ requests = 0 /\ faults = 0 /\ restarts = 0

----------------------------------------------------------------------------
(* The Worker's requests: when each is served, and what it then changes. *)

Request(kind, t, view) == [kind |-> kind, txn |-> t, view |-> view]

Open(t) == base[t] # None /\ decision[t] = "OPEN"

\* With the runtime teardown handshake a run is neither promoted nor disposed
\* of before its containers are gone.
Quiet(t) == t \in Run => t \in torn

HoldsPermit(t) == Open(t) /\ Quiet(t) /\ t \notin cancelled

Accepts(q) ==
    LET t == q.txn IN
    \/ /\ q.kind = "prepare"
       /\ base[t] = q.view \/ (base[t] = None /\ q.view = head /\ ~archived)
    \/ q.kind = "cancel" /\ Open(t)
    \/ q.kind = "apply" /\ HoldsPermit(t) /\ base[t] = head /\ ~archived
    \/ /\ q.kind = "dispose"
       /\ decision[t] = q.outcome \/ (Open(t) /\ Quiet(t) /\ q.view = head /\ ~archived)
    \/ q.kind \in {"configure", "archive"} /\ q.view = head /\ ~archived

Reject(t, outcome, named) ==
    /\ Authority!Reject(t) /\ decision'[t] = outcome
    /\ cancelled' = IF named THEN cancelled \cup {t} ELSE cancelled \ {t}
    /\ UNCHANGED <<base, torn>>

\* A run commits its own content; a rollback the initial version's.
Target(t) == IF t \in Run THEN [v |-> t, p |-> head.tree.p] ELSE InitialView.tree

Serve(q) ==
    LET t == q.txn IN
    \/ Accepts(q) /\ q.kind = "prepare" /\ base' = [base EXCEPT ![t] = q.view]
       /\ UNCHANGED <<head, decision, archived, cancelled, torn>>
    \/ Accepts(q) /\ q.kind = "cancel" /\ cancelled' = cancelled \cup {t}
       /\ UNCHANGED <<head, decision, archived, base, torn>>
    \/ Accepts(q) /\ q.kind = "apply" /\ Authority!Commit(t, Target(t))
       /\ UNCHANGED <<base, cancelled, torn>>
    \/ Accepts(q) /\ q.kind = "dispose"
       /\ IF decision[t] = "OPEN" THEN Reject(t, q.outcome, q.named) ELSE UNCHANGED workerVars
    \/ Accepts(q) /\ q.kind = "configure" /\ Authority!Configure(head.cfg + 1)
       /\ UNCHANGED <<base, cancelled, torn>>
    \/ Accepts(q) /\ q.kind = "archive" /\ Authority!Retire
       /\ UNCHANGED <<base, cancelled, torn>>
    \/ ~Accepts(q) /\ IF q.kind = "apply" /\ t \in Run /\ HoldsPermit(t) /\ ~archived
                      THEN Reject(t, "CONFLICTED", FALSE) ELSE UNCHANGED workerVars

----------------------------------------------------------------------------
(* Calls.  A call waits for the Agent's queue.  One that is lost leaves the  *)
(* caller with a timeout or a closed socket: the Worker may never see it, or *)
(* carry it out at any later time (at once, when only the reply was lost).   *)

Trouble == faults < MaxFaults /\ faults' = faults + 1
NoTrouble == UNCHANGED faults

Served(q) == late = None /\ Serve(q) /\ NoTrouble /\ UNCHANGED late
Lost(q) ==
    /\ Trouble /\ UNCHANGED workerVars
    /\ IF late = None THEN late' \in {None, q} ELSE UNCHANGED late

\* The Worker gets to the request nobody waits for.
LateRequest ==
    /\ late # None /\ late' = None
    /\ Serve(late) \/ UNCHANGED workerVars
    /\ UNCHANGED <<launched, dbVars, processVars, exec, mut, boundVars>>

\* A projection is read outside of the queue.
Read == NoTrouble /\ UNCHANGED <<workerVars, late>>

\* A step of the API that calls nobody.
Local == UNCHANGED <<workerVars, late, launched>>

At(pc) == exec.pc = pc
Goto(pc) == exec' = [exec EXCEPT !.pc = pc]
ExecutionOnly == UNCHANGED <<dbVars, processVars, mut, requests, restarts>>

\* The execution's promise settles; a stop that waits for it fails if it does.
Ends(ok) ==
    /\ exec' = NoExec
    /\ mut' = IF ~ok /\ mut.pc = "await" THEN NoMut ELSE mut

\* leaseMatches: the rows are still those this execution was given.
Owns ==
    /\ ~db.gone /\ db.lease = exec.run
    /\ rows[exec.run].base = exec.base /\ db.view = exec.base

\* assertRecoveryReady
Ready == ~db.locked /\ ~reserved /\ ~db.gone

ActiveRows == {r \in Run : rows[r].status \in {"queued", "running"}}

----------------------------------------------------------------------------
(* A message is accepted: the run's row, the lease and "busy" in one write.  *)
(* Until the write is on disk neither activeExecutions nor a snapshot of the *)
(* database shows the run to the checks of other requests.                   *)

SendMessage(r) ==
    /\ up = "up" /\ Ready /\ writing = None /\ exec = NoExec /\ mut = NoMut
    /\ rows[r].status = "none" /\ db.status = "ready"
    /\ rows' = [rows EXCEPT ![r].status = "queued", ![r].base = db.view]
    /\ db' = [db EXCEPT !.status = "busy", !.lease = r]
    /\ writing' = r
    /\ Local /\ UNCHANGED <<said, up, refusal, reserved, exec, mut, boundVars>>

StartExecution ==
    /\ writing # None /\ writing' = None
    /\ exec' = [NoExec EXCEPT !.run = writing, !.pc = "bind"]
    /\ Local /\ UNCHANGED <<dbVars, up, refusal, reserved, mut, boundVars>>

Cancelling == mut.kind \in {"stop", "delete"} /\ mut.pc \in {"cancel", "await"}

\* executeRun: the run is bound to the View the Agent has now.
Bind ==
    LET r == exec.run
        queued == ~db.gone /\ rows[r].status = "queued" /\ db.lease = r
    IN
    /\ At("bind") /\ Local /\ UNCHANGED <<db, said, processVars, requests, restarts>>
    /\ \/ /\ queued /\ NoTrouble /\ UNCHANGED mut
          /\ rows' = [rows EXCEPT ![r].status = "running", ![r].base = db.view]
          /\ exec' = [exec EXCEPT !.base = db.view, !.stopped = Cancelling,
                                  !.pc = IF Cancelling THEN "fail" ELSE "prepare"]
       \/ (IF queued THEN Trouble ELSE NoTrouble) /\ Ends(FALSE) /\ UNCHANGED rows

PrepareRun ==
    LET q == Request("prepare", exec.run, exec.base) IN
    /\ At("prepare") /\ ExecutionOnly /\ UNCHANGED launched
    /\ \/ /\ Served(q)
          /\ IF Accepts(q) THEN exec' = [exec EXCEPT !.prepared = TRUE, !.pc = "launch"]
                           ELSE Goto("fail")
       \/ Lost(q) /\ Goto("retry")

\* "Admission may be durable even though its response was lost": the same
\* request again; the run is then wound up without having started.
PrepareAgain ==
    LET q == Request("prepare", exec.run, exec.base) IN
    /\ At("retry") /\ ExecutionOnly /\ UNCHANGED launched
    /\ \/ /\ Served(q)
          /\ IF Accepts(q) THEN exec' = [exec EXCEPT !.prepared = TRUE, !.pc = "resolve"]
                           ELSE Goto("fail")
       \/ Lost(q) /\ Goto("fail")

\* The exception of a prepared run: closed with this decision.  The Worker's
\* RUN_CANCELLED is taken as a cancellation, too.
Throws(gate) == exec' = [exec EXCEPT !.pc = "close", !.gate = gate]
Refused(gate) ==
    exec' = [exec EXCEPT !.pc = "close", !.gate = gate,
                         !.stopped = Open(exec.run) /\ exec.run \in cancelled]

Launch ==
    /\ At("launch") /\ ExecutionOnly /\ UNCHANGED <<workerVars, late>>
    /\ \/ exec.accepted /\ Throws("ABORTED") /\ NoTrouble /\ UNCHANGED launched
       \/ /\ ~exec.accepted /\ launched' = launched \cup {exec.run}
          /\ Goto("work") /\ NoTrouble
       \/ Trouble /\ Throws("ABORTED") /\ UNCHANGED launched   \* no Broker

\* Agent, seal, verifier and evidence: GateCalls has the calls in between.
\* The run ends with a permit, with a negative result, with an error, or with
\* an answer that is lost.
Work ==
    LET r == exec.run
        Teardown == late = None /\ torn' = torn \cup {r}
                    /\ UNCHANGED <<head, decision, archived, base, cancelled>>
    IN
    /\ At("work") /\ ExecutionOnly /\ UNCHANGED <<late, launched>>
    /\ IF exec.accepted \/ r \in cancelled \/ ~Open(r)
       THEN NoTrouble /\ Refused("ABORTED") /\ UNCHANGED workerVars
       ELSE \/ NoTrouble /\ Teardown /\ Goto("promote")
            \/ /\ NoTrouble /\ Teardown
               /\ exec' = [exec EXCEPT !.pc = "dispose", !.gate = "QUARANTINED"]
            \/ Trouble /\ Throws("ABORTED") /\ UNCHANGED workerVars
            \/ Trouble /\ Goto("resolve") /\ UNCHANGED workerVars

\* An apply that fails inside the Worker restores the base and is ABORTED there.
ApplyPromotion ==
    LET q == Request("apply", exec.run, None) IN
    /\ At("promote") /\ ExecutionOnly /\ UNCHANGED launched
    /\ \/ /\ Served(q)
          /\ IF Accepts(q)
             THEN exec' = [exec EXCEPT !.pc = "publish", !.gate = "COMMITTED"]
             ELSE Refused(IF Open(q.txn) /\ q.txn \notin cancelled THEN "CONFLICTED" ELSE "ABORTED")
       \/ /\ Trouble /\ late = None /\ Accepts(q) /\ Reject(q.txn, "ABORTED", FALSE)
          /\ Throws("ABORTED") /\ UNCHANGED late
       \/ Lost(q) /\ Goto("resolve")

Recoverable(t) == Open(t) /\ Quiet(t)

\* recoverAcknowledgedCommit: after recover, or when that fails without
\* waiting for it, the projection tells whether the promotion got through.
RecoverAcknowledgedCommit ==
    /\ At("resolve") /\ ExecutionOnly /\ UNCHANGED <<workerVars, late, launched>>
    /\ \/ NoTrouble /\ late = None /\ ~\E t \in Txn : Recoverable(t)
       \/ Trouble
    /\ IF decision[exec.run] = "COMMITTED"
       THEN exec' = [exec EXCEPT !.pc = "publish", !.gate = "COMMITTED"]
       ELSE Throws("ABORTED")

\* reconcileAndRecordRuntimeTeardown, which may fail: the Broker attests
\* nothing of a run it has never launched.
Reconcile(r) ==
    /\ r \in launched /\ late = None
    /\ torn' = torn \cup {r}
    /\ UNCHANGED <<head, decision, archived, base, cancelled>>

CloseRuntime ==
    LET r == exec.run
        stopped == exec.accepted \/ exec.stopped
    IN
    /\ At("close") /\ ExecutionOnly /\ UNCHANGED <<late, launched>>
    /\ \/ NoTrouble /\ Reconcile(r)
       \/ (IF r \in launched THEN Trouble ELSE NoTrouble) /\ UNCHANGED workerVars
    /\ exec' = [exec EXCEPT !.pc = "dispose", !.stopped = stopped, !.again = stopped]

----------------------------------------------------------------------------
(* Negative decisions: first the Worker, then the database.  The first       *)
(* attempt is persistRejectedRun's; when it fails, or the run was cancelled, *)
(* persistRunFailure makes another (again).                                  *)

DispositionFails ==
    exec' = IF exec.again THEN [exec EXCEPT !.pc = "fail", !.lock = TRUE]
                          ELSE [exec EXCEPT !.pc = "dispose", !.again = TRUE]

\* persistWorkerNonCommitRun and finalizeDisposition up to disposeRun: the
\* lease, the projection, the teardown.
FinalizeDisposition ==
    /\ At("dispose") /\ UNCHANGED <<late, launched, dbVars, processVars, requests, restarts>>
    /\ \/ ~Owns /\ Ends(TRUE) /\ NoTrouble /\ UNCHANGED workerVars
       \/ /\ Owns /\ decision[exec.run] # "OPEN"
          /\ exec' = [exec EXCEPT !.pc = "confirm", !.settled = TRUE, !.seen = head]
          /\ NoTrouble /\ UNCHANGED <<workerVars, mut>>
       \/ /\ Owns /\ decision[exec.run] = "OPEN" /\ Reconcile(exec.run)
          /\ exec' = [exec EXCEPT !.pc = "disposing", !.seen = head]
          /\ NoTrouble /\ UNCHANGED mut
       \/ /\ Owns /\ DispositionFails /\ UNCHANGED <<workerVars, mut>>
          /\ IF decision[exec.run] = "OPEN" /\ exec.run \notin launched THEN NoTrouble ELSE Trouble

DisposeRun ==
    LET request == [kind |-> "dispose", txn |-> exec.run, view |-> exec.seen,
                    outcome |-> exec.gate, named |-> exec.stopped]
    IN
    /\ At("disposing") /\ ExecutionOnly /\ UNCHANGED launched
    /\ \/ /\ Served(request)
          /\ IF Accepts(request)
             THEN exec' = [exec EXCEPT !.pc = "confirm", !.settled = TRUE, !.seen = head']
             ELSE DispositionFails
       \/ Lost(request) /\ DispositionFails

\* A failure after the Worker has decided: in the first attempt the local
\* receipt is terminal by now, and names that decision.
NotPublished ==
    exec' = IF exec.again THEN [exec EXCEPT !.pc = "fail", !.lock = TRUE, !.settled = FALSE]
                          ELSE [exec EXCEPT !.pc = "fail", !.gate = decision[exec.run]]

\* The projection must name the decision the gate returned.  (To fail to read
\* it comes to what failing to write comes to.)
ConfirmDisposition ==
    /\ At("confirm") /\ ExecutionOnly /\ Read /\ UNCHANGED launched
    /\ IF decision[exec.run] = exec.gate
       THEN exec' = [exec EXCEPT !.pc = "reject", !.seen = head]
       ELSE NotPublished

WorkerRunStatus(r) ==
    IF decision[r] # "ABORTED" THEN "completed"
    ELSE IF r \in cancelled THEN "cancelled" ELSE "failed"

Terminal(r) == [rows[r] EXCEPT !.status = WorkerRunStatus(r), !.terminal = TRUE,
                               !.decision = decision[r]]

\* "stopped" outlives a negative outcome.
StatusAfter(failed) ==
    IF db.status = "stopped" THEN "stopped" ELSE IF failed THEN "error" ELSE "ready"

PublishRejection ==
    LET r == exec.run IN
    /\ At("reject") /\ Local /\ UNCHANGED <<processVars, requests, restarts>>
    /\ \/ /\ NoTrouble /\ Ends(TRUE)
          /\ IF ~Owns THEN UNCHANGED dbVars
             ELSE /\ rows' = [rows EXCEPT ![r] = Terminal(r)]
                  /\ said' = IF exec.again THEN said ELSE [said EXCEPT ![r] = "REJECTED"]
                  /\ db' = [db EXCEPT !.view = exec.seen, !.lease = None,
                                      !.locked = FALSE,
                                      !.status = StatusAfter(WorkerRunStatus(r) = "failed")]
       \/ Trouble /\ NotPublished /\ UNCHANGED <<dbVars, mut>>

\* persistWorkerCommittedRun, first half: the View of the receipt must still
\* be the authoritative one.
ReadCommit ==
    /\ At("publish") /\ ExecutionOnly /\ UNCHANGED <<workerVars, late, launched>>
    /\ IF head = [exec.base EXCEPT !.ver = exec.run, !.gen = @ + 1, !.tree = Target(exec.run)]
       THEN \/ NoTrouble /\ exec' = [exec EXCEPT !.pc = "record", !.seen = head, !.settled = TRUE]
            \/ Trouble /\ exec' = [exec EXCEPT !.pc = "fail", !.settled = TRUE]
       ELSE NoTrouble /\ exec' = [exec EXCEPT !.pc = "fail", !.settled = TRUE]

\* Second half.  The Agent becomes ready whatever it was.
PublishCommit ==
    LET r == exec.run IN
    /\ At("record") /\ Local /\ UNCHANGED <<processVars, requests, restarts>>
    /\ \/ /\ NoTrouble /\ Ends(TRUE)
          /\ IF ~Owns THEN UNCHANGED dbVars
             ELSE /\ rows' = [rows EXCEPT ![r] = Terminal(r)]
                  /\ said' = [said EXCEPT ![r] = "AUTHORITATIVE"]
                  /\ db' = [db EXCEPT !.view = exec.seen, !.lease = None,
                                      !.locked = FALSE, !.status = "ready"]
       \/ Trouble /\ Goto("fail") /\ UNCHANGED <<dbVars, mut>>

\* A failure that is not left to recovery opens a session epoch locally.
NextLocalView(seen) ==
    [db.view EXCEPT !.epoch = IF seen # None /\ seen.epoch > @ THEN seen.epoch ELSE @ + 1]

\* persistRunFailure's own write.  Without a receipt only a cancellation is
\* known to have left nothing behind; everything else is left to recovery.
PersistFailure ==
    LET r == exec.run
        pending == exec.lock \/ (exec.gate = None /\ ~exec.stopped)
    IN
    /\ At("fail") /\ Local /\ UNCHANGED <<said, up, refusal, writing, requests, restarts>>
    /\ reserved' = (reserved \/ pending)
    /\ \/ /\ NoTrouble /\ Ends(TRUE)
          /\ IF ~Owns THEN UNCHANGED <<db, rows>>
             ELSE /\ rows' = [rows EXCEPT ![r].status = IF exec.stopped THEN "cancelled" ELSE "failed",
                                          ![r].terminal = exec.settled \/ exec.gate = None,
                                          ![r].decision = exec.gate]
                  /\ db' = [db EXCEPT !.view = IF pending THEN @ ELSE NextLocalView(exec.seen),
                                      !.lease = None, !.locked = @ \/ pending,
                                      !.status = StatusAfter(~exec.stopped \/ pending)]
       \/ Trouble /\ Ends(FALSE) /\ UNCHANGED <<db, rows>>

----------------------------------------------------------------------------
(* The user's other requests, one at a time. *)

Asks == up = "up" /\ Ready /\ mut = NoMut /\ requests < MaxRequests /\ requests' = requests + 1

MutAt(kind, pc) == mut.kind = kind /\ mut.pc = pc
MutGoto(pc) == mut' = [mut EXCEPT !.pc = pc]
Finish == mut' = NoMut
MutationOnly == UNCHANGED <<launched, processVars, requests, restarts>>

\* stopAgent and deleteAgent, with the View of the moment.  While a message is
\* being accepted there is nothing yet that cancelExecution could find.
Leave(kind) ==
    /\ Asks
    /\ mut' = [NoMut EXCEPT !.kind = kind, !.view = db.view,
                            !.pc = IF exec = NoExec THEN "finish" ELSE "cancel"]
    /\ Local /\ UNCHANGED <<dbVars, processVars, exec, faults, restarts>>

Running == exec.pc \in {"prepare", "retry", "launch", "work", "promote", "resolve", "close"}

\* Mutant: an admission that fails does not wake the one who waits for it.
AdmissionKnown_Mutant == exec.prepared

\* resolveAdmission: the admission is done, or the run is over.
AdmissionKnown == exec.prepared \/ ~Running

\* cancelExecution asks for the oldest active row; the runner compares it, and
\* the session epoch, with what it runs.
Addressed == Running /\ ActiveRows = {exec.run} /\ db.view.epoch = exec.base.epoch

\* Mutant: ALREADY_TERMINAL counts as cancelled.
CancelAnswered_Mutant(q) == exec' = [exec EXCEPT !.accepted = TRUE]

CancelAnswered(q) == exec' = [exec EXCEPT !.accepted = Accepts(q)]

\* runner.cancel: it waits for the admission, cancels durably, then aborts.
\* When no answer arrives the stop fails and the run goes on.
CancelRun ==
    LET q == Request("cancel", exec.run, None) IN
    /\ mut.pc = "cancel" /\ AdmissionKnown
    /\ MutationOnly /\ UNCHANGED dbVars
    /\ \/ /\ ~Addressed
          /\ MutGoto("await") /\ Read /\ UNCHANGED exec
       \/ Addressed /\ Served(q) /\ CancelAnswered(q) /\ MutGoto("await")
       \/ Addressed /\ Lost(q) /\ Finish /\ UNCHANGED exec

ExecutionOver ==
    /\ mut.pc = "await" /\ exec = NoExec /\ MutGoto("finish")
    /\ Local /\ UNCHANGED <<dbVars, processVars, exec, boundVars>>

StopAgent ==
    /\ MutAt("stop", "finish") /\ Finish
    /\ db' = IF Ready THEN [db EXCEPT !.status = "stopped"] ELSE db
    /\ Local /\ UNCHANGED <<rows, said, processVars, exec, boundVars>>

\* deleteAgent: the Worker archives, then the rows go.
ArchiveAgent ==
    LET q == Request("archive", None, mut.view) IN
    /\ MutAt("delete", "finish") /\ MutationOnly /\ UNCHANGED <<dbVars, exec>>
    /\ \/ Ready /\ Served(q) /\ IF Accepts(q) THEN MutGoto("remove") ELSE Finish
       \/ Ready /\ Lost(q) /\ Finish
       \/ ~Ready /\ Finish /\ Read

RemoveAgent ==
    /\ MutAt("delete", "remove") /\ Finish
    /\ \/ NoTrouble /\ db' = [db EXCEPT !.gone = TRUE, !.lease = None]
       \/ Trouble /\ UNCHANGED db
    /\ Local /\ UNCHANGED <<rows, said, processVars, exec, requests, restarts>>

StartAgent ==
    /\ up = "up" /\ Ready /\ mut = NoMut /\ exec = NoExec
    /\ db.status \in {"stopped", "error"}
    /\ db' = [db EXCEPT !.status = "ready"]
    /\ Local /\ UNCHANGED <<rows, said, processVars, exec, mut, boundVars>>

\* performRollback's reservation ...
BeginRollback(x) ==
    /\ Asks /\ exec = NoExec /\ writing = None /\ db.status # "busy" /\ base[x] = None
    /\ mut' = [NoMut EXCEPT !.kind = "rollback", !.pc = "prepare", !.view = db.view,
                            !.status = db.status, !.txn = x]
    /\ db' = [db EXCEPT !.status = "busy"]
    /\ Local /\ UNCHANGED <<rows, said, processVars, exec, faults, restarts>>

\* ... and performWorkerRollback: prepare, apply,
RollbackCall ==
    /\ mut.kind = "rollback" /\ mut.pc \in {"prepare", "apply"}
    /\ MutationOnly /\ UNCHANGED <<dbVars, exec>>
    /\ LET q == Request(mut.pc, mut.txn, mut.view) IN
       \/ /\ Served(q)
          /\ mut' = IF ~Accepts(q) THEN [mut EXCEPT !.pc = "undo"]
                    ELSE IF mut.pc = "prepare" THEN [mut EXCEPT !.pc = "apply"]
                    ELSE [mut EXCEPT !.pc = "record", !.view = head']
       \/ Lost(q) /\ MutGoto("undo")

\* record; or, in its catch, back to the previous status.
RecordRollback ==
    /\ mut.kind = "rollback" /\ mut.pc \in {"record", "undo"}
    /\ \/ /\ mut.pc = "record" /\ Finish /\ NoTrouble
          /\ db' = [db EXCEPT !.view = mut.view, !.lease = None, !.locked = FALSE,
                              !.status = IF mut.status = "stopped" THEN "stopped" ELSE "ready"]
       \/ mut.pc = "record" /\ MutGoto("undo") /\ Trouble /\ UNCHANGED db
       \/ /\ mut.pc = "undo" /\ Finish /\ NoTrouble
          /\ db' = [db EXCEPT !.status = mut.status]
    /\ Local /\ UNCHANGED <<rows, said, processVars, exec, requests, restarts>>

\* updateAgent copies the row; its checks see nothing of a message that is
\* just being accepted.
BeginUpdate ==
    /\ Asks /\ exec = NoExec /\ (writing # None \/ db.status # "busy")
    /\ mut' = [NoMut EXCEPT !.kind = "update", !.pc = "regenerate", !.view = db.view,
                            !.status = IF writing = None THEN db.status ELSE "ready"]
    /\ Local /\ UNCHANGED <<dbVars, processVars, exec, faults, restarts>>

RegeneratePlatformState ==
    LET q == Request("configure", None, mut.view) IN
    /\ MutAt("update", "regenerate") /\ MutationOnly /\ UNCHANGED <<dbVars, exec>>
    /\ \/ Served(q) /\ IF Accepts(q) THEN MutGoto("record") ELSE Finish
       \/ Lost(q) /\ Finish

\* The whole row is replaced, if it has still the View that was copied.
ReplaceAgent ==
    /\ MutAt("update", "record") /\ Finish
    /\ \/ /\ NoTrouble
          /\ db' = IF db.gone \/ db.view # mut.view THEN db
                   ELSE [db EXCEPT !.view = [mut.view EXCEPT !.gen = @ + 1, !.epoch = @ + 1,
                                               !.cfg = @ + 1, !.tree.p = mut.view.cfg + 1],
                                   !.status = mut.status, !.lease = None, !.locked = FALSE]
       \/ Trouble /\ UNCHANGED db
    /\ Local /\ UNCHANGED <<rows, said, processVars, exec, requests, restarts>>

----------------------------------------------------------------------------
(* Deaths and startup. *)

\* The API dies; a call it was waiting for has been served or never sent.
Crash ==
    /\ up # "down" /\ restarts < MaxRestarts /\ restarts' = restarts + 1
    /\ up' = "down" /\ writing' = None /\ reserved' = FALSE
    /\ exec' = NoExec /\ mut' = NoMut
    /\ Local /\ UNCHANGED <<dbVars, refusal, requests, faults>>

\* Mutant: an abort by recovery does not say that the run had been cancelled.
RecoveredReason_Mutant(t) == FALSE

\* RUN_CANCELLED_RECOVERED
RecoveredReason(t) == t \in cancelled

\* recover, asked for by the API or at the Worker's own start after a kill: an
\* open transition whose containers are gone is aborted.
WorkerRecovers(t) ==
    /\ Recoverable(t) /\ Reject(t, "ABORTED", RecoveredReason(t))
    /\ \/ late = None /\ (up = "recover" \/ At("resolve")) /\ UNCHANGED <<late, faults>>
       \/ Trouble /\ late' = None
    /\ UNCHANGED <<launched, dbVars, processVars, exec, mut, requests, restarts>>

\* JsonStore.initialize: a lease does not survive a restart.
Load ==
    /\ up = "down" /\ refusal = None
    /\ up' = IF db.gone THEN "up" ELSE "reconcile"
    /\ db' = [db EXCEPT !.lease = None]
    /\ Local /\ UNCHANGED <<rows, said, refusal, writing, reserved, exec, mut, boundVars>>

Refuse(why) == refusal' = why /\ up' = "down"

\* recoverAuthority: for every admitted run the Broker has to attest that its
\* containers are gone; assertKnown refuses a run that was never launched.
RecoverAuthority ==
    LET owed == {r \in Run : base[r] # None /\ r \notin torn} IN
    /\ up = "reconcile" /\ late = None
    /\ IF owed \subseteq launched
       THEN up' = "recover" /\ torn' = torn \cup owed /\ UNCHANGED refusal
       ELSE Refuse("RUNTIME_RECONCILIATION") /\ UNCHANGED torn
    /\ UNCHANGED <<head, decision, archived, base, cancelled, late, launched, dbVars,
                   writing, reserved, exec, mut, boundVars>>

\* recoverWorkerAdmissionGap: a run that is active in the database and unknown
\* to the Worker is admitted and cancelled there, and then goes through
\* recoverAuthority, where it is one that was never launched.
RecoverWorkerAdmissionGap ==
    /\ up = "recover" /\ late = None /\ ~\E t \in Txn : Recoverable(t)
    /\ UNCHANGED <<head, decision, archived, torn, late, launched, dbVars, writing, reserved,
                   exec, mut, boundVars>>
    /\ IF \A r \in ActiveRows : base[r] # None /\ Cardinality(ActiveRows) = 1
       THEN up' = "apply" /\ UNCHANGED <<refusal, base, cancelled>>
       ELSE IF Cardinality(ActiveRows) > 1
       THEN Refuse("WORKER_ADMISSION_DB_INVARIANT_VIOLATION") /\ UNCHANGED <<base, cancelled>>
       ELSE \E r \in ActiveRows :
            IF rows[r].base # head \/ db.view # head \/ archived
            THEN Refuse("WORKER_ADMISSION_VIEW_MISMATCH") /\ UNCHANGED <<base, cancelled>>
            ELSE /\ base' = [base EXCEPT ![r] = head] /\ cancelled' = cancelled \cup {r}
                 /\ Refuse("RUNTIME_RECONCILIATION")

Decided(r) == rows[r].status # "none" /\ decision[r] # "OPEN"

\* Mutant: only rows without an outcome are looked at.
ProjectionGaps_Mutant == {r \in Run : Decided(r) /\ rows[r].status \in {"queued", "running"}}

\* The rows that do not say what their receipts say.
ProjectionGaps == {r \in Run : Decided(r) /\ rows[r] # Terminal(r)}

\* applyWorkerAuthorityProjection, in one write.  The latest repaired row
\* determines the Agent's status (here: one of them).
ApplyProjection ==
    /\ up = "apply" /\ up' = "up"
    /\ rows' = [r \in Run |-> IF r \in ProjectionGaps THEN Terminal(r) ELSE rows[r]]
    /\ said' = [r \in Run |-> IF ~Decided(r) \/ said[r] = "none" THEN said[r]
                              ELSE IF decision[r] = "COMMITTED" THEN "AUTHORITATIVE" ELSE "REJECTED"]
    /\ \E status \in IF ProjectionGaps = {}
                     THEN {IF db.status = "busy" THEN "ready" ELSE db.status}
                     ELSE {StatusAfter(WorkerRunStatus(r) = "failed") : r \in ProjectionGaps} :
          db' = [db EXCEPT !.view = head, !.locked = FALSE, !.status = status]
    /\ Local /\ UNCHANGED <<refusal, writing, reserved, exec, mut, boundVars>>

----------------------------------------------------------------------------

Execution ==
    \/ StartExecution \/ Bind \/ PrepareRun \/ PrepareAgain \/ Launch \/ Work \/ ApplyPromotion
    \/ RecoverAcknowledgedCommit \/ CloseRuntime \/ FinalizeDisposition \/ DisposeRun
    \/ ConfirmDisposition \/ PublishRejection \/ ReadCommit \/ PublishCommit \/ PersistFailure

Mutation ==
    \/ CancelRun \/ ExecutionOver \/ StopAgent \/ ArchiveAgent \/ RemoveAgent
    \/ RollbackCall \/ RecordRollback \/ RegeneratePlatformState \/ ReplaceAgent

Startup == Load \/ RecoverAuthority \/ RecoverWorkerAdmissionGap \/ ApplyProjection

Recovery == \E t \in Txn : WorkerRecovers(t)

User ==
    \/ \E r \in Run : SendMessage(r)
    \/ \E kind \in {"stop", "delete"} : Leave(kind)
    \/ StartAgent \/ BeginUpdate
    \/ \E x \in Rollback : BeginRollback(x)

Next == Execution \/ Mutation \/ Startup \/ Recovery \/ LateRequest \/ User \/ Crash

Spec == Init /\ [][Next]_vars

\* Promises settle, calls are answered or time out, the Worker's queue moves.
FairSpec ==
    /\ Spec
    /\ WF_vars(Execution \/ Mutation \/ Startup) /\ WF_vars(Recovery) /\ WF_vars(LateRequest)
=============================================================================
