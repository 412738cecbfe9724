--------------------------- MODULE RuntimeBroker ---------------------------
(***************************************************************************)
(* The Runtime Broker (runtime-broker/server.ts), the only process with    *)
(* the container engine's socket: it runs the Agent and verifier           *)
(* containers of one Agent's runs and attests that they are gone.          *)
(*                                                                         *)
(* Handlers run concurrently; an action is what one of them does between   *)
(* two awaits that others can observe.  The ledger is a file per run, the  *)
(* containers belong to the engine: both survive the process (Kill), and   *)
(* nothing else does.  A handler whose caller has given up runs on.        *)
(*                                                                         *)
(* The engine may fail any command.  Cancelling a run, its timeout and its *)
(* output cap all force the container's removal and, where that fails,     *)
(* kill the engine's CLI: they are ContainerEnds and CliCloses, which can  *)
(* happen at any time.                                                     *)
(***************************************************************************)
EXTENDS Naturals, FiniteSets

CONSTANTS
    Run,      \* runs of the Agent
    None,     \* no run
    MaxFaults \* bound: kills of the Broker process and answers that never arrive

ASSUME BrokerAssumption == None \notin Run /\ MaxFaults \in Nat

Kinds == {"agent", "verifier"}
Scopes == {"AGENT", "ALL"}
Calls == Kinds \cup {"closure"}

\* The containers a scope speaks of.
KindsOf(scope) == IF scope = "AGENT" THEN {"agent"} ELSE Kinds

\* stageRank, with the absence of a record below every stage.
StageRank == [NONE |-> 0, AGENT_STARTED |-> 1, AGENT_CLOSED |-> 2,
              VERIFIER_STARTED |-> 3, ALL_CLOSED |-> 4]
StageSet == DOMAIN StageRank

VARIABLES
    stage,      \* the lifecycle ledger; "NONE" where it has no record
    containers, \* containers that exist, as <<run, kind>>
    handler,    \* runAgent and runVerifier in progress, by <<run, kind>>
    active,     \* the run ContainerCodexRunner.active holds for the Agent
    verifying,  \* runs in activeVerifiers
    aborted,    \* runs whose verification was aborted
    record,     \* completedTeardowns of the two runners, by <<run, kind>>
    closers,    \* teardown and reconcile handlers in progress
    signed,     \* the attestations handed out
    reply,      \* the call the API waits for, or what it has heard, by run
    faults      \* counter of the bound

volatile == <<handler, active, verifying, aborted, record, closers>>
brokerVars == <<stage, containers, volatile, signed, reply, faults>>

Container == Run \X Kinds

BrokerInit ==
    /\ stage = [r \in Run |-> "NONE"]
    /\ containers = {}
    /\ handler = [c \in Container |-> "idle"]
    /\ active = None
    /\ verifying = {} /\ aborted = {}
    /\ record = [c \in Container |-> "none"]
    /\ closers = {}
    /\ signed = {}
    /\ reply = [r \in Run |-> "none"]
    /\ faults = 0

At(c, pc) == handler[c] = pc
Goto(c, pc) == handler' = [handler EXCEPT ![c] = pc]

\* A handler ends; its caller hears of it if it still waits.
Answer(r, call, outcome) ==
    reply' = IF reply[r] = call THEN [reply EXCEPT ![r] = outcome] ELSE reply

Fails(c) ==
    /\ Goto(c, "idle") /\ Answer(c[1], c[2], "error")
    /\ UNCHANGED <<stage, containers, active, verifying, aborted, record, closers,
                   signed, faults>>

----------------------------------------------------------------------------
(* runAgent: admission in the ledger, then the awaits that precede the spawn. *)

Agent(r) == <<r, "agent">>
Verifier(r) == <<r, "verifier">>

\* lifecycle.beginAgent, and the first check of runner.run.
BeginAgent(r) ==
    /\ At(Agent(r), "requested")
    /\ IF stage[r] # "NONE"
       THEN Fails(Agent(r))
       ELSE /\ stage' = [stage EXCEPT ![r] = "AGENT_STARTED"]
            /\ IF active # None
               THEN Goto(Agent(r), "idle") /\ Answer(r, "agent", "error")
               ELSE Goto(Agent(r), "starting") /\ UNCHANGED reply
            /\ UNCHANGED <<containers, active, verifying, aborted, record, closers,
                           signed, faults>>

\* The session home, the relay capability or the spawn itself fails.
AgentNeverStarts(r) == At(Agent(r), "starting") /\ Fails(Agent(r))

SpawnAgent(r) ==
    /\ At(Agent(r), "starting")
    /\ Goto(Agent(r), "launching")
    /\ active' = r
    /\ UNCHANGED <<stage, containers, verifying, aborted, record, closers, signed,
                   reply, faults>>

(* runVerifier: the environment and the input hash are established first. *)

\* lifecycle.beginVerifier, then activeVerifiers.set.
BeginVerifier(r) ==
    /\ At(Verifier(r), "requested")
    /\ IF stage[r] # "AGENT_CLOSED"
       THEN Fails(Verifier(r))
       ELSE /\ stage' = [stage EXCEPT ![r] = "VERIFIER_STARTED"]
            /\ verifying' = verifying \cup {r}
            /\ Goto(Verifier(r), "starting")
            /\ UNCHANGED <<containers, active, aborted, record, closers, signed,
                           reply, faults>>

\* What every end of runVerifier's body leaves behind.
VerifierReturns(r, outcome, teardown) ==
    /\ Goto(Verifier(r), "idle") /\ Answer(r, "verifier", outcome)
    /\ record' = [record EXCEPT ![Verifier(r)] = teardown]
    /\ verifying' = verifying \ {r} /\ aborted' = aborted \ {r}
    /\ UNCHANGED <<stage, containers, active, closers, signed, faults>>

\* The input hash, a check's entry point or the trusted bundle is refused
\* before there is a teardown record.
VerifierNeverStarts(r) ==
    \/ At(Verifier(r), "requested") /\ Fails(Verifier(r))
    \/ /\ At(Verifier(r), "starting")
       /\ VerifierReturns(r, "error", record[Verifier(r)])

\* beginTeardownRecord, the abort check and the spawn share one turn.
SpawnVerifier(r) ==
    /\ At(Verifier(r), "starting")
    /\ IF r \in aborted
       THEN VerifierReturns(r, "error", "removed")
       ELSE /\ Goto(Verifier(r), "launching")
            /\ record' = [record EXCEPT ![Verifier(r)] = "open"]
            /\ UNCHANGED <<stage, containers, active, verifying, aborted, closers,
                           signed, reply, faults>>

----------------------------------------------------------------------------
(* The engine and its CLI. *)

\* An Agent's containers all have the same name, and so do its verifiers'
\* only within one run.
NameFree(c) == c[2] = "agent" => \A r \in Run : Agent(r) \notin containers

Attach(c) ==
    /\ At(c, "launching") /\ NameFree(c)
    /\ containers' = containers \cup {c}
    /\ Goto(c, "attached")
    /\ UNCHANGED <<stage, active, verifying, aborted, record, closers, signed, reply,
                   faults>>

\* Its process exits, or it is removed by force; --rm leaves nothing.
ContainerEnds(c) ==
    /\ c \in containers
    /\ containers' = containers \ {c}
    /\ UNCHANGED <<stage, volatile, signed, reply, faults>>

\* The CLI ends by itself or is killed; a killed one leaves its container.
CliCloses(c) ==
    /\ At(c, "launching") \/ At(c, "attached")
    /\ Goto(c, "settling")
    /\ UNCHANGED <<stage, containers, active, verifying, aborted, record, closers,
                   signed, reply, faults>>

\* The finally blocks: inspect, then record.  An inspection that fails for any
\* other reason than absence counts as present.
Observed(c, gone) == gone => c \notin containers

SettleAgent(r, gone, outcome) ==
    /\ At(Agent(r), "settling") /\ Observed(Agent(r), gone)
    /\ record' = [record EXCEPT ![Agent(r)] = IF gone THEN "removed" ELSE "left"]
    /\ active' = None
    /\ Goto(Agent(r), "idle") /\ Answer(r, "agent", outcome)
    /\ UNCHANGED <<stage, containers, verifying, aborted, closers, signed, faults>>

SettleVerifier(r, gone, outcome) ==
    /\ At(Verifier(r), "settling") /\ Observed(Verifier(r), gone)
    /\ VerifierReturns(r, outcome, IF gone THEN "removed" ELSE "left")

----------------------------------------------------------------------------
(* teardown and reconcile. *)

\* Mutant: a repeated AGENT close writes its stage whatever the record says.
MarkClosed_Mutant(r, scope) ==
    stage' = [stage EXCEPT ![r] = IF scope = "ALL" THEN "ALL_CLOSED" ELSE "AGENT_CLOSED"]

\* markAgentClosed, markAllClosed.
MarkClosed(r, scope) ==
    stage' = [stage EXCEPT ![r] =
                IF scope = "ALL" THEN "ALL_CLOSED"
                ELSE IF @ = "AGENT_STARTED" THEN "AGENT_CLOSED" ELSE @]

\* The run's verification is told to abort; of an Agent's container only the
\* removal is requested, which ContainerEnds covers.
Abort(r) == aborted' = aborted \cup (verifying \cap {r})

\* Mutant: a run that is closed is no longer known.
Begin_Mutant(r, method, scope) ==
    IF stage[r] \in {"NONE", "ALL_CLOSED"}
    THEN /\ reply' = [reply EXCEPT ![r] = "error"]
         /\ UNCHANGED <<closers, aborted>>
    ELSE /\ reply' = [reply EXCEPT ![r] = "closure"]
         /\ closers' = closers \cup {[run |-> r, method |-> method, scope |-> scope,
                                      pc |-> IF method = "teardown" THEN "observe" ELSE "cancel",
                                      live |-> TRUE]}
         /\ IF method = "reconcile" THEN Abort(r) ELSE UNCHANGED aborted

\* lifecycle.assertKnown, which opens both handlers.  A reconciliation then
\* cancels the run.
Begin(r, method, scope) ==
    IF stage[r] = "NONE"
    THEN /\ reply' = [reply EXCEPT ![r] = "error"]
         /\ UNCHANGED <<closers, aborted>>
    ELSE /\ reply' = [reply EXCEPT ![r] = "closure"]
         /\ closers' = closers \cup {[run |-> r, method |-> method, scope |-> scope,
                                      pc |-> IF method = "teardown" THEN "observe" ELSE "cancel",
                                      live |-> TRUE]}
         /\ IF method = "reconcile" THEN Abort(r) ELSE UNCHANGED aborted

Advance(h, pc) == closers' = (closers \ {h}) \cup {[h EXCEPT !.pc = pc]}

Ends(h, outcome) ==
    /\ closers' = closers \ {h}
    /\ IF h.live THEN Answer(h.run, "closure", outcome) ELSE UNCHANGED reply

\* attestCommitGateTeardown: the record and, again, the engine.
Attested(c) == record[c] = "removed" /\ c \notin containers

\* Mutant: the record of the verifier alone is looked at.
Complete_Mutant(r, scope) ==
    IF scope = "ALL" /\ record[Verifier(r)] # "none"
    THEN Attested(Verifier(r))
    ELSE record[Agent(r)] # "none"

\* Without a verifier record only the Agent's counts; without an Agent record,
\* lost with the process that held it, only the verifier's.
Complete(r, scope) ==
    IF scope = "ALL" /\ record[Verifier(r)] # "none"
    THEN /\ Attested(Verifier(r))
         /\ record[Agent(r)] # "none" => Attested(Agent(r))
    ELSE Attested(Agent(r))

TeardownStep(h) ==
    /\ h.pc = "observe" /\ Complete(h.run, h.scope)
    /\ Advance(h, "close")
    /\ UNCHANGED <<stage, containers, handler, active, verifying, aborted, record,
                   signed, reply, faults>>

\* cancel returns once the CLI of this run's Agent container has closed.
CancelStep(h) ==
    /\ h.pc = "cancel"
    /\ active = h.run => handler[Agent(h.run)] \notin {"launching", "attached"}
    /\ Advance(h, "remove")
    /\ UNCHANGED <<stage, containers, handler, active, verifying, aborted, record,
                   signed, reply, faults>>

Bound(h) == {h.run} \X KindsOf(h.scope)

\* Every container found by its labels is removed by force, or fails to be.
RemoveStep(h, removed) ==
    /\ h.pc = "remove"
    /\ containers' = containers \ removed
    /\ Advance(h, "query")
    /\ UNCHANGED <<stage, handler, active, verifying, aborted, record, signed, reply,
                   faults>>

\* Mutant: the negative query asks for the Agent's containers only.
QueryStep_Mutant(h) ==
    /\ h.pc = "query" /\ Agent(h.run) \notin containers
    /\ Advance(h, "close")
    /\ UNCHANGED <<stage, containers, handler, active, verifying, aborted, record,
                   signed, reply, faults>>

QueryStep(h) ==
    /\ h.pc = "query" /\ Bound(h) \cap containers = {}
    /\ Advance(h, "close")
    /\ UNCHANGED <<stage, containers, handler, active, verifying, aborted, record,
                   signed, reply, faults>>

CloseStep(h) ==
    /\ h.pc = "close"
    /\ MarkClosed(h.run, h.scope)
    /\ signed' = signed \cup {[run |-> h.run, scope |-> h.scope, method |-> h.method]}
    /\ Ends(h, "ok")
    /\ UNCHANGED <<containers, handler, active, verifying, aborted, record, faults>>

\* The observation is incomplete, a container outlives twenty queries, or the
\* engine does not answer.
CloserFails(h) ==
    /\ h.pc \in {"observe", "remove", "query"}
    /\ Ends(h, "error")
    /\ UNCHANGED <<stage, containers, handler, active, verifying, aborted, record,
                   signed, faults>>

----------------------------------------------------------------------------
(* The process.  The supervisor restarts it at once; a CLI killed while it    *)
(* launched has or has not had its container created.                         *)

Kill ==
    /\ faults < MaxFaults
    /\ faults' = faults + 1
    /\ \E born \in SUBSET {c \in Container : At(c, "launching") /\ NameFree(c)} :
         /\ Cardinality({c \in born : c[2] = "agent"}) <= 1
         /\ containers' = containers \cup born
    /\ handler' = [c \in Container |-> "idle"]
    /\ active' = None
    /\ verifying' = {} /\ aborted' = {}
    /\ record' = [c \in Container |-> "none"]
    /\ closers' = {}
    /\ reply' = [r \in Run |-> IF reply[r] \in Calls THEN "error" ELSE reply[r]]
    /\ UNCHANGED <<stage, signed>>

AgentStep(r) ==
    \/ BeginAgent(r) \/ SpawnAgent(r) \/ AgentNeverStarts(r)
    \/ \E gone \in BOOLEAN, outcome \in {"ok", "error"} : SettleAgent(r, gone, outcome)

VerifierStep(r) ==
    \/ BeginVerifier(r) \/ SpawnVerifier(r) \/ VerifierNeverStarts(r)
    \/ \E gone \in BOOLEAN, outcome \in {"ok", "error"} : SettleVerifier(r, gone, outcome)

EngineStep(c) == Attach(c) \/ ContainerEnds(c) \/ CliCloses(c)

CloserStep(h) ==
    \/ TeardownStep(h) \/ CancelStep(h) \/ QueryStep(h)
    \/ \E removed \in SUBSET (Bound(h) \cap containers) : RemoveStep(h, removed)
    \/ CloseStep(h) \/ CloserFails(h)

BrokerNext ==
    \/ \E r \in Run : AgentStep(r) \/ VerifierStep(r)
    \/ \E c \in Container : EngineStep(c)
    \/ \E h \in closers : CloserStep(h)
    \/ Kill
=============================================================================
