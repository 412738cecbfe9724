----------------------------- MODULE ModelRelay -----------------------------
(***************************************************************************)
(* The bearer capability of a run: the registry of the Model Relay         *)
(* (model-relay-server.ts), the container runner that activates it before  *)
(* the Runtime is spawned and revokes it after the container is gone       *)
(* (model-provider.ts, container-codex-runner.ts), and the gate that       *)
(* passes the run on the teardown evidence.                                *)
(*                                                                         *)
(* Administrative calls may be lost on either leg, served after their      *)
(* caller gave up, and die with the Relay; the bearer may be used by       *)
(* anybody who held it, at any time.  Each run has a nonce of its own, so  *)
(* a run stands for its capability.                                        *)
(***************************************************************************)
EXTENDS Naturals, FiniteSets

CONSTANTS
    Run,        \* runs, each with its capability
    Request,    \* slots for model requests in progress
    Model,      \* the identities a provider's answer may name
    Gate,       \* "container": in-process gate; "worker": Broker and Worker
    None,
    MaxRestarts \* bound: deaths of the Relay and of the runner

ASSUME ModelRelayAssumption ==
    Gate \in {"container", "worker"} /\ None \notin Model /\ MaxRestarts \in Nat

VARIABLES
    active, revoked, \* the registry's two maps of nonces
    models,     \* its resolved identities
    expired,    \* capabilities past their TTL
    requests,   \* the requests forwarded upstream and not finished
    calls,      \* administrative calls on their way, in service, or answered
    pc,         \* where the runner is with a run
    teardown,   \* completedTeardowns: what the runner attests
    held,       \* history: runs whose container was given the bearer
    acked,      \* history: runs whose runner was told the revocation is done
    said,       \* history: the identities heard in a run's answers
    restarts

registryVars == <<active, revoked, models>>
runnerVars == <<pc, teardown, held, acked>>
vars == <<registryVars, expired, requests, calls, runnerVars, said, restarts>>

NoRequest == [run |-> None, stage |-> "free", model |-> None]
NoModel == [model |-> None, conflicted |-> FALSE]
NoTeardown == [revoked |-> FALSE, model |-> None]

Call(r, kind) == [run |-> r, kind |-> kind, stage |-> "sent", model |-> None,
                  awaits |-> {}, owed |-> {}, timedOut |-> FALSE]

Init ==
    /\ active = {} /\ revoked = {} /\ models = [r \in Run |-> NoModel]
    /\ expired = {} /\ calls = {} /\ said = [r \in Run |-> {}]
    /\ requests = [q \in Request |-> NoRequest]
    /\ pc = [r \in Run |-> "idle"] /\ teardown = [r \in Run |-> NoTeardown]
    /\ held = {} /\ acked = {} /\ restarts = 0

----------------------------------------------------------------------------
(* The registry. *)

\* prune: what has expired is forgotten, conflicts of identity included.
Pruned == [r \in Run |-> IF r \in expired THEN NoModel ELSE models[r]]

\* Mutant: the identity of the latest answer wins.
WithModel_Mutant(table, r, m) == [table EXCEPT ![r].model = m]

\* recordResolvedModel
WithModel(table, r, m) ==
    [table EXCEPT ![r] = IF @.model \in {None, m} THEN [@ EXCEPT !.model = m]
                         ELSE [@ EXCEPT !.conflicted = TRUE]]

ResolvedModel(r) == IF models[r].conflicted THEN None ELSE models[r].model

\* Mutant: a revoked nonce may be activated again.
ActivationRefused_Mutant(r) == r \in expired

\* verifyModelRelayCapability and activate
ActivationRefused(r) == r \in expired \/ r \in revoked

\* The identities still to be read from answers that have begun.
Pending(r) == {q \in Request : requests[q].run = r /\ requests[q].stage = "answered"}

\* trackResolvedModel: each pending promise includes the one before.
Awaited(r) == Pending(r)

Serve(c, d) == calls' = (calls \ {c}) \cup d

ServeActivate(c) ==
    /\ c \in calls /\ c.kind = "activate" /\ c.stage = "sent"
    /\ IF ActivationRefused(c.run)
       THEN Serve(c, {}) /\ UNCHANGED registryVars
       ELSE /\ Serve(c, {[c EXCEPT !.stage = "done"]})
            /\ active' = (active \ expired) \cup {c.run} /\ revoked' = revoked \ expired
            /\ models' = Pruned
    /\ UNCHANGED <<expired, requests, runnerVars, said, restarts>>

\* revoke, up to the wait for the identities on their way.
ServeRevoke(c) ==
    /\ c \in calls /\ c.kind = "revoke" /\ c.stage = "sent"
    /\ IF c.run \in expired
       THEN Serve(c, {}) /\ UNCHANGED registryVars
       ELSE /\ Serve(c, {[c EXCEPT !.stage = "waits", !.awaits = Awaited(c.run),
                                   !.owed = Pending(c.run)]})
            /\ active' = (active \ expired) \ {c.run}
            /\ revoked' = (revoked \ expired) \cup {c.run}
            /\ models' = Pruned
    /\ UNCHANGED <<expired, requests, runnerVars, said, restarts>>

\* awaitResolvedModel: all awaited, or a second has passed.
AnswerRevoke(c) ==
    /\ c \in calls /\ c.stage = "waits"
    /\ Serve(c, {[c EXCEPT !.stage = "done", !.model = ResolvedModel(c.run),
                           !.timedOut = (c.awaits # {}), !.awaits = {}]})
    /\ UNCHANGED <<registryVars, expired, requests, runnerVars, said, restarts>>

RelayRestarts ==
    /\ restarts < MaxRestarts /\ restarts' = restarts + 1
    /\ active' = {} /\ revoked' = {} /\ models' = [r \in Run |-> NoModel]
    /\ requests' = [q \in Request |-> NoRequest] /\ calls' = {}
    /\ said' = [r \in Run |-> {}]
    /\ UNCHANGED <<expired, runnerVars>>

Expire(r) ==
    /\ pc[r] # "idle" /\ r \notin expired /\ expired' = expired \cup {r}
    /\ UNCHANGED <<registryVars, requests, calls, runnerVars, said, restarts>>

----------------------------------------------------------------------------
(* Requests of the bearer. *)

\* Mutant: only a revoked nonce is refused, as if signatures were registrations.
Admitted_Mutant(r) == r \notin expired /\ r \notin revoked

Admitted(r) == r \notin expired /\ r \notin revoked /\ r \in active

\* forwardModelRelayRequest up to the call upstream: the checks and the call
\* are one step, since nothing is awaited between them.
Forward(q, r) ==
    /\ requests[q] = NoRequest /\ r \in held /\ Admitted(r)
    /\ requests' = [requests EXCEPT ![q] = [@ EXCEPT !.run = r, !.stage = "forwarded"]]
    /\ active' = active \ expired /\ revoked' = revoked \ expired /\ models' = Pruned
    /\ UNCHANGED <<expired, calls, runnerVars, said, restarts>>

\* The answer begins: its identity will be read while it is passed on.
Respond(q, m) ==
    /\ requests[q].stage = "forwarded"
    /\ requests' = [requests EXCEPT ![q].stage = "answered", ![q].model = m]
    /\ UNCHANGED <<registryVars, expired, calls, runnerVars, said, restarts>>

Finish(q) ==
    /\ requests' = [requests EXCEPT ![q] = NoRequest]
    /\ calls' = {IF c.stage = "waits" THEN [c EXCEPT !.awaits = @ \ {q}, !.owed = @ \ {q}] ELSE c :
                    c \in calls}

\* captureResolvedModel finds an identity.
Capture(q) ==
    /\ requests[q].stage = "answered" /\ requests[q].model # None
    /\ LET r == requests[q].run IN
       /\ models' = WithModel(models, r, requests[q].model)
       /\ said' = [said EXCEPT ![r] = @ \cup {requests[q].model}]
    /\ Finish(q)
    /\ UNCHANGED <<active, revoked, expired, runnerVars, restarts>>

\* No answer came, or none with an identity within a megabyte and two seconds.
NoIdentity(q) ==
    /\ requests[q] # NoRequest
    /\ Finish(q)
    /\ UNCHANGED <<registryVars, expired, runnerVars, said, restarts>>

----------------------------------------------------------------------------
(* The container runner and the gate. *)

Answers(r, kind) == {c \in calls : c.run = r /\ c.kind = kind /\ c.stage = "done"}

\* The caller no longer listens for an answer.
Unheard(r) == calls \ (Answers(r, "activate") \cup Answers(r, "revoke"))

Activate(r) ==
    /\ pc[r] = "idle" /\ pc' = [pc EXCEPT ![r] = "activating"]
    /\ calls' = calls \cup {Call(r, "activate")}
    /\ UNCHANGED <<registryVars, expired, requests, teardown, held, acked, said, restarts>>

Spawn(r) ==
    /\ pc[r] = "activating" /\ Answers(r, "activate") # {}
    /\ pc' = [pc EXCEPT ![r] = "running"] /\ held' = held \cup {r} /\ calls' = Unheard(r)
    /\ UNCHANGED <<registryVars, expired, requests, teardown, acked, said, restarts>>

\* The activation was refused or its answer lost, or the spawn failed.
NotSpawned(r) ==
    /\ pc[r] = "activating" /\ pc' = [pc EXCEPT ![r] = "failing"]
    /\ calls' = Unheard(r) \cup {Call(r, "revoke")}
    /\ UNCHANGED <<registryVars, expired, requests, teardown, held, acked, said, restarts>>

\* The container is gone, however it ended.
Exit(r) ==
    /\ pc[r] = "running" /\ pc' = [pc EXCEPT ![r] = "revoking"]
    /\ calls' = calls \cup {Call(r, "revoke")}
    /\ UNCHANGED <<registryVars, expired, requests, teardown, held, acked, said, restarts>>

\* revokeModelRelayCapability returns: with the answer, or without one.
Revoked(r) ==
    /\ pc[r] \in {"failing", "revoking"}
    /\ pc' = [pc EXCEPT ![r] = IF @ = "failing" THEN "failed" ELSE "closed"]
    /\ \/ \E c \in Answers(r, "revoke") :
             /\ acked' = acked \cup {r}
             /\ teardown' = [teardown EXCEPT ![r] = IF pc[r] = "failing" THEN @
                                 ELSE [revoked |-> TRUE, model |-> c.model]]
       \/ UNCHANGED <<acked, teardown>>
    /\ calls' = Unheard(r)
    /\ UNCHANGED <<registryVars, expired, requests, held, said, restarts>>

\* Mutant: the in-process gate does not look at the revocation either.
Passes_Mutant(r) == pc[r] = "closed"

\* recordRuntimeTeardown asks for the revocation; the attestation of the Broker
\* and the runner over the Worker look at the container alone.
Passes(r) == pc[r] = "closed" /\ (Gate = "container" => teardown[r].revoked)

Judge(r) ==
    /\ pc[r] = "closed"
    /\ pc' = [pc EXCEPT ![r] = IF Passes(r) THEN "passed" ELSE "failed"]
    /\ teardown' = [teardown EXCEPT ![r] = NoTeardown] \* nothing reads it again
    /\ UNCHANGED <<registryVars, expired, requests, calls, held, acked, said, restarts>>

\* The runner's process dies; bearer and evidence were in its memory only.
RunnerDies ==
    /\ restarts < MaxRestarts /\ restarts' = restarts + 1
    /\ pc' = [r \in Run |-> IF pc[r] \in {"idle", "passed"} THEN pc[r] ELSE "failed"]
    /\ teardown' = [r \in Run |-> NoTeardown]
    /\ calls' = {c \in calls : c.stage # "done"}
    /\ UNCHANGED <<registryVars, expired, requests, held, acked, said>>

Next ==
    \/ \E c \in calls : ServeActivate(c) \/ ServeRevoke(c) \/ AnswerRevoke(c)
    \/ RelayRestarts \/ RunnerDies
    \/ \E r \in Run : \/ Expire(r) \/ Activate(r) \/ Spawn(r) \/ NotSpawned(r) \/ Exit(r)
                      \/ Revoked(r) \/ Judge(r)
    \/ \E q \in Request : \/ \E r \in Run : Forward(q, r)
                          \/ \E m \in Model \cup {None} : Respond(q, m)
                          \/ Capture(q) \/ NoIdentity(q)

Spec == Init /\ [][Next]_vars

----------------------------------------------------------------------------
(* Properties. *)

CallRecords ==
    [run : Run, kind : {"activate", "revoke"}, stage : {"sent", "waits", "done"},
     model : Model \cup {None}, awaits : SUBSET Request, owed : SUBSET Request, timedOut : BOOLEAN]

RequestRecords ==
    [run : Run \cup {None}, model : Model \cup {None}, stage : {"free", "forwarded", "answered"}]

Stages == {"idle", "activating", "running", "failing", "revoking", "closed", "passed", "failed"}

TypeOK ==
    /\ active \cup revoked \cup expired \cup held \cup acked \subseteq Run
    /\ models \in [Run -> [model : Model \cup {None}, conflicted : BOOLEAN]]
    /\ said \in [Run -> SUBSET Model] /\ restarts \in 0..MaxRestarts
    /\ requests \in [Request -> RequestRecords] /\ pc \in [Run -> Stages]
    /\ teardown \in [Run -> [revoked : BOOLEAN, model : Model \cup {None}]]
    /\ calls \subseteq CallRecords

\* The capability cannot become active any more.
Dead(r) ==
    /\ r \notin active
    /\ \/ r \in revoked \cup expired
       \/ \A c \in calls : c.run = r => ~(c.kind = "activate" /\ c.stage = "sent")

(* A capability is dead for good once a revocation was served, before its     *)
(* answer is on its way: an activation served late is refused while the nonce *)
(* is remembered, and is lost with the Relay when it is not.                  *)
RelayInv ==
    /\ TypeOK
    /\ \A r \in acked : Dead(r)
    /\ \A c \in calls : c.kind = "revoke" /\ c.stage # "sent" => Dead(c.run)
    /\ \A r \in Run : pc[r] = "idle" => r \notin acked /\ \A c \in calls : c.run # r

(* "become unusable as soon as Runtime teardown revokes their nonce"          *)
(* (model-relay-server.ts:33-34): once the runner was told, no request of the *)
(* bearer goes upstream, whatever activation is served late, whether or not   *)
(* the Relay restarts and forgets its revocations or prunes them.             *)
RevokedStays ==
    [][\A q \in Request :
          (requests[q].stage = "free" /\ requests'[q].stage = "forwarded")
             => requests'[q].run \notin acked]_vars

(* The identity in a revocation's answer (awaitResolvedModel) is what every   *)
(* answer of the run heard by then has said, null when they differ; and if    *)
(* the wait was not cut short, every answer begun before the revocation has   *)
(* been heard.  A capability that expires during the wait is excepted: its    *)
(* record of a conflict may be pruned.                                        *)
IdentityUnanimous ==
    [][\A c \in calls' \ calls :
          (c.kind = "revoke" /\ c.stage = "done" /\ c.run \notin expired)
             => /\ c.model = IF Cardinality(said[c.run]) = 1
                             THEN CHOOSE m \in said[c.run] : TRUE ELSE None
                /\ c.timedOut \/ c.owed = {}]_vars

(* A run whose capability could not be revoked is not passed: "failure is     *)
(* recorded in teardown evidence and prevents a successful seal"              *)
(* (docs/LIMITATIONS.md:102-103).                                             *)
PassedIsRevoked == \A r \in Run : pc[r] = "passed" => r \in acked
=============================================================================
