------------------------- MODULE ProductProperties -------------------------
(***************************************************************************)
(* What a user may believe of what the product shows.                      *)
(***************************************************************************)
EXTENDS AgentService

Views == [ver : Txn \cup {None}, gen : Nat, tree : Tree, epoch : Nat, cfg : Platform]

\* null is not a View.
ASSUME ViewAssumption == None \notin Views

Decisions == {"COMMITTED", "QUARANTINED", "CONFLICTED", "ABORTED"}

Statuses == {"ready", "busy", "error", "stopped"}

AgentRows ==
    [status : Statuses, view : Views, lease : Run \cup {None}, locked : BOOLEAN, gone : BOOLEAN]

RunRows ==
    [status : {"none", "queued", "running", "completed", "failed", "cancelled"},
     terminal : BOOLEAN, decision : Decisions \cup {None}, base : Views \cup {None}]

Executions ==
    [run : Run \cup {None},
     pc : {"idle", "bind", "prepare", "retry", "launch", "work", "promote", "resolve", "close",
           "dispose", "disposing", "confirm", "reject", "publish", "record", "fail"},
     base : Views \cup {None}, prepared : BOOLEAN, stopped : BOOLEAN, accepted : BOOLEAN,
     gate : Decisions \cup {None}, settled : BOOLEAN, again : BOOLEAN, lock : BOOLEAN,
     seen : Views \cup {None}]

Mutations ==
    [kind : {"none", "stop", "delete", "rollback", "update"},
     pc : {"idle", "cancel", "await", "finish", "remove", "prepare", "apply", "record", "undo",
           "regenerate"},
     view : Views \cup {None}, status : Statuses, txn : Rollback \cup {None}]

\* The requests the API sends to the Worker.
IsRequest(q) ==
    \/ q.kind = "prepare" /\ q.txn \in Txn /\ q.view \in Views
    \/ q.kind = "cancel" /\ q.txn \in Run
    \/ q.kind = "apply" /\ q.txn \in Txn
    \/ /\ q.kind = "dispose" /\ q.txn \in Run /\ q.named \in BOOLEAN
       /\ q.outcome \in {"QUARANTINED", "CONFLICTED", "ABORTED"}
    \/ q.kind \in {"configure", "archive"} /\ q.txn = None

\* The rows and the process have the states their types allow (types.ts).
TypeOK ==
    /\ head \in Views /\ base \in [Txn -> Views \cup {None}]
    /\ decision \in [Txn -> Decisions \cup {"OPEN"}] /\ archived \in BOOLEAN
    /\ cancelled \subseteq Run /\ torn \subseteq Run /\ launched \subseteq Run
    /\ late # None => IsRequest(late)
    /\ db \in AgentRows /\ rows \in [Run -> RunRows]
    /\ said \in [Run -> {"none", "AUTHORITATIVE", "REJECTED"}]
    /\ up \in {"up", "down", "reconcile", "recover", "apply"}
    /\ writing \in Run \cup {None} /\ reserved \in BOOLEAN
    /\ exec \in Executions /\ mut \in Mutations /\ requests \in 0..MaxRequests

\* An answer is AUTHORITATIVE only if the Worker committed the run; a run shown
\* as completed has been decided as its row says; one shown as cancelled never
\* changes the workspace, not even through a request that is still under way
\* (agent-service.ts persistWorkerCommittedRun, persistRunFailure).
ClaimsHold ==
    \A r \in Run :
        /\ said[r] = "AUTHORITATIVE" => decision[r] = "COMMITTED"
        /\ rows[r].status = "completed" => rows[r].decision = decision[r]
        /\ rows[r].status = "cancelled" => decision[r] # "COMMITTED"

\* Whatever answers are lost, the database is behind the Worker or level with
\* it, never ahead, and level means the same content; only the session epoch,
\* which the API also advances by itself, may differ (agent-service.ts
\* applyWorkerHead, updateAgent, persistRunFailure).
NeverAhead ==
    /\ db.view.gen <= head.gen
    /\ db.view.gen = head.gen =>
         db.view.ver = head.ver /\ db.view.tree = head.tree /\ db.view.cfg = head.cfg

\* What the product shows is true and never ahead of the Worker, at any moment
\* between two answers (agent-service.ts).
ProductInv == TypeOK /\ ClaimsHold /\ NeverAhead

\* When a startup gets through, the database says what the Worker says: the
\* same View, every decided run with its decision, nothing running, nothing
\* locked (agent-service.ts initializeWorkerAuthorityProjection).
Reconciled ==
    [][up = "apply" /\ up' = "up" =>
         /\ db'.view = head /\ db'.status # "busy" /\ ~db'.locked
         /\ \A r \in Run : rows'[r].status # "none" =>
               /\ rows'[r].status \notin {"queued", "running"}
               /\ decision[r] # "OPEN" => rows'[r].decision = decision[r] /\ rows'[r].terminal
               /\ decision[r] = "COMMITTED" <=> (rows'[r].status = "completed"
                                                  /\ rows'[r].decision = "COMMITTED")]_vars

\* What a user has been told is not taken back: a run that completed or was
\* cancelled stays so, over failures and restarts (agent-service.ts
\* applyWorkerAuthorityProjection, worker.ts RUN_CANCELLED_RECOVERED).
OutcomesStay ==
    [][\A r \in Run : rows[r].status \in {"completed", "cancelled"} =>
         rows'[r].status = rows[r].status]_vars

\* Every execution ends and every request is answered, whatever is lost on the
\* way: no stop waits for an admission that is over
\* (worker-commitgate-runner.ts cancel, resolveAdmission).
Quiesces == []<>(exec = NoExec /\ mut = NoMut)

\* "On restart we replay that exact, CAS-bound admission into the Worker,
\* accept cancellation there, and let ordinary Worker recovery create the
\* terminal ABORTED receipt" (agent-service.ts recoverWorkerAdmissionGap): the
\* API comes up again after it died between admission and launch.
StartupPasses == refusal # "RUNTIME_RECONCILIATION"
=============================================================================
