----------------------------- MODULE GateCalls -----------------------------
(***************************************************************************)
(* What the gate runner asks of the Runtime Broker                         *)
(* (worker-commitgate-runner.ts), composed with the Broker.                *)
(*                                                                         *)
(* The gate runner takes one run at a time through: run the Agent, attest  *)
(* that its container is gone, run the verifier, attest that everything is *)
(* gone, record that in the Worker.  Whatever goes wrong, it reconciles    *)
(* the run until the Worker has the attestation; only then may the Worker  *)
(* dispose of the run and destroy its directories, which were mounted.     *)
(***************************************************************************)
EXTENDS RuntimeBroker

VARIABLES
    phase,     \* what the gate runner is waiting for, by run
    recorded,  \* runs whose closure the Worker has recorded (runtimeTeardownAll)
    abandoned  \* runs given up while the Broker was about to start a container

callVars == <<phase, recorded, abandoned>>
vars == <<brokerVars, callVars>>

Pending == {"agent", "agent_closing", "verifier", "all_closing"}
Phases == Pending \cup {"idle", "reconciling", "done"}

Init ==
    /\ BrokerInit
    /\ phase = [r \in Run |-> "idle"]
    /\ recorded = {} /\ abandoned = {}

EnterPhase(r, p) == phase' = [phase EXCEPT ![r] = p]
Waits(r) == reply[r] \in Calls
Heard(r, p, outcome) == phase[r] = p /\ reply[r] = outcome

\* The request of runAgent or runVerifier reaches the Broker.
Launch(c) ==
    /\ Goto(c, "requested")
    /\ reply' = [reply EXCEPT ![c[1]] = c[2]]
    /\ UNCHANGED <<stage, containers, active, verifying, aborted, record, closers,
                   signed, faults>>

\* The request of teardown or reconcile.
Close(r, method, scope) ==
    /\ Begin(r, method, scope)
    /\ UNCHANGED <<stage, containers, handler, active, verifying, record, signed, faults>>

\* The Worker admits a run; it has no other to decide.
StartRun(r) ==
    /\ phase[r] = "idle"
    /\ \A q \in Run : phase[q] \in {"idle", "done"}
    /\ EnterPhase(r, "agent") /\ Launch(Agent(r))
    /\ UNCHANGED <<recorded, abandoned>>

CloseAgent(r) ==
    /\ Heard(r, "agent", "ok")
    /\ EnterPhase(r, "agent_closing") /\ Close(r, "teardown", "AGENT")
    /\ UNCHANGED <<recorded, abandoned>>

\* The proposal is sealed, exported and verified ...
Verify(r) ==
    /\ Heard(r, "agent_closing", "ok")
    /\ EnterPhase(r, "verifier") /\ Launch(Verifier(r))
    /\ UNCHANGED <<recorded, abandoned>>

\* ... or static policy already refuses it.
CloseAll(r) ==
    /\ Heard(r, "verifier", "ok") \/ Heard(r, "agent_closing", "ok")
    /\ EnterPhase(r, "all_closing") /\ Close(r, "teardown", "ALL")
    /\ UNCHANGED <<recorded, abandoned>>

RecordAll(r) ==
    /\ Heard(r, "all_closing", "ok") \/ Heard(r, "reconciling", "ok")
    /\ EnterPhase(r, "done")
    /\ recorded' = recorded \cup {r}
    /\ UNCHANGED <<brokerVars, abandoned>>

\* The Broker refuses, the run is cancelled, a call to the Worker fails, the
\* API has been restarted.
Recover(r) ==
    /\ phase[r] \in Pending /\ ~Waits(r)
    /\ EnterPhase(r, "reconciling") /\ Close(r, "reconcile", "ALL")
    /\ UNCHANGED <<recorded, abandoned>>

\* finalizeDisposition asks again, and every start of the API does.
RetryReconcile(r) ==
    /\ phase[r] = "reconciling" /\ ~Waits(r)
    /\ Close(r, "reconcile", "ALL")
    /\ UNCHANGED callVars

\* The user cancels while the Broker works for the run.
Cancel(r) ==
    /\ phase[r] = "verifier" /\ Waits(r)
    /\ Abort(r)
    /\ UNCHANGED <<stage, containers, handler, active, verifying, record, closers, signed,
                   reply, faults, callVars>>

\* A handler still has its container before it and would not hear of a
\* reconciliation in time: cancel waits for the CLI of the run in `active` only,
\* a place that another run's late handler may take or empty.
BeforeContainer(c) ==
    \/ At(c, "requested") \/ At(c, "starting")
    \/ /\ At(c, "launching")
       /\ \/ c[2] = "verifier" \/ active # c[1]
          \/ \E q \in Run \ {c[1]} : ~At(Agent(q), "idle")

\* The API restarts, or its RPC times out: the Broker does not notice.
LoseReply(r) ==
    /\ faults < MaxFaults /\ Waits(r)
    /\ faults' = faults + 1
    /\ reply' = [reply EXCEPT ![r] = "error"]
    /\ closers' = {IF h.run = r THEN [h EXCEPT !.live = FALSE] ELSE h : h \in closers}
    /\ abandoned' = IF \E k \in Kinds : BeforeContainer(<<r, k>>)
                    THEN abandoned \cup {r} ELSE abandoned
    /\ UNCHANGED <<stage, containers, handler, active, verifying, aborted, record, signed,
                   phase, recorded>>

CallStep(r) ==
    \/ CloseAgent(r) \/ Verify(r) \/ CloseAll(r) \/ RecordAll(r)
    \/ Recover(r) \/ RetryReconcile(r)

Next ==
    \/ BrokerNext /\ UNCHANGED callVars
    \/ \E r \in Run : StartRun(r) \/ CallStep(r) \/ Cancel(r) \/ LoseReply(r)

Spec == Init /\ [][Next]_vars

----------------------------------------------------------------------------
(* Fairness.  A handler and its caller go on: nothing but the death of their  *)
(* process stops them.  A CLI is killed in the end if it must be.  An engine  *)
(* that is asked for ever removes a container and answers the query, and a    *)
(* Worker that is asked for ever records the answer.                          *)

Fair(A) == A /\ UNCHANGED callVars

Fairness ==
    /\ WF_vars(\E r \in Run : CallStep(r)) /\ SF_vars(\E r \in Run : RecordAll(r))
    /\ WF_vars(Fair(\E r \in Run : AgentStep(r) \/ VerifierStep(r)))
    /\ WF_vars(Fair(\E c \in Container : CliCloses(c)))
    /\ WF_vars(Fair(\E h \in closers : CloserStep(h)))
    /\ SF_vars(Fair(\E h \in closers : RemoveStep(h, Bound(h) \cap containers)))
    /\ SF_vars(Fair(\E h \in closers : QueryStep(h)))

FairSpec == Spec /\ Fairness

----------------------------------------------------------------------------
(* Properties. *)

ClosersType ==
    [run : Run, method : {"teardown", "reconcile"}, scope : Scopes,
     pc : {"observe", "cancel", "remove", "query", "close"}, live : BOOLEAN]

\* The ledger has only the stages lifecycle-ledger.ts validates, and every
\* handler is where its code can be.
TypeOK ==
    /\ stage \in [Run -> StageSet]
    /\ containers \subseteq Container
    /\ handler \in [Container -> {"idle", "requested", "starting", "launching",
                                  "attached", "settling"}]
    /\ active \in Run \cup {None}
    /\ verifying \subseteq Run /\ aborted \subseteq verifying
    /\ record \in [Container -> {"none", "open", "left", "removed"}]
    /\ closers \subseteq ClosersType
    /\ signed \subseteq [run : Run, scope : Scopes, method : {"teardown", "reconcile"}]
    /\ reply \in [Run -> Calls \cup {"none", "ok", "error"}]
    /\ phase \in [Run -> Phases]
    /\ recorded \subseteq Run /\ abandoned \subseteq Run
    /\ faults \in 0..MaxFaults

\* What an attestation says is absent.
Covers(a) == {a.run} \X KindsOf(a.scope)

\* A teardown attestation (server.ts teardown) is true when it is signed and for
\* ever after, whatever is killed or lost.
TeardownHolds ==
    \A a \in signed : a.method = "teardown" => Covers(a) \cap containers = {}

\* So is a reconciliation, and the Worker may destroy what was mounted, unless
\* the run was given up before its container existed (BeforeContainer).
ReconciliationHolds ==
    \A a \in signed :
        a.method = "reconcile" /\ a.run \notin abandoned => Covers(a) \cap containers = {}

\* What the Worker has recorded (runtimeTeardownAll) was attested, however late
\* or to whomever the handlers of given-up calls answered.
RecordedIsAttested ==
    \A r \in recorded : \E a \in signed : a.run = r /\ a.scope = "ALL"

\* No fact the Worker destroys artifacts on is false (server.ts reconcile,
\* worker.ts recordRuntimeTeardown).
RecordsHold == ReconciliationHolds /\ RecordedIsAttested

\* A verifier never runs beside the Agent whose proposal it checks: the ledger
\* lets it start after the Agent's attested end only.
Exclusive ==
    \A r \in Run : ~({Agent(r), Verifier(r)} \subseteq containers)

\* Whoever closes, in whatever order the handlers finish, a ledger stage is
\* never taken back (lifecycle-ledger.ts: "never transition backwards").
LedgerAdvances ==
    [][\A r \in Run : StageRank[stage'[r]] >= StageRank[stage[r]]]_vars

\* Every run that was launched is closed in the end and the Worker gets to know
\* it, though the answer that says so be lost (neither fact is ever undone, so
\* "again and again" is "eventually, for each").
LaunchedRunsClose ==
    []<>(\A r \in Run : stage[r] # "NONE" => r \in recorded)
=============================================================================
