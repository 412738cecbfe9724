---------------------------- MODULE BrokerProofs ----------------------------
(***************************************************************************)
(* The Broker under the gate runner's calls, for any number of runs, kills *)
(* and losses: its types, the monotonicity of its ledger, and that what is *)
(* attested, and recorded in the Worker, is true for ever.                 *)
(***************************************************************************)
EXTENDS BrokerInvariant, TLAPS

LEMMA InitTyped == Init => TypeOK
BY BrokerAssumption
   DEF Init, BrokerInit, TypeOK, StageSet, StageRank, Phases, Pending

LEMMA AgentTyped ==
    ASSUME TypeOK, NEW r \in Run, AgentStep(r), UNCHANGED callVars
    PROVE  TypeOK'
<1> USE DEF TypeOK, callVars, Agent, Container, Kinds, Goto, At, Answer
<1>1. CASE BeginAgent(r)
  <2>1. CASE Fails(Agent(r))
    BY <2>1 DEF Fails
  <2>2. CASE stage' = [stage EXCEPT ![r] = "AGENT_STARTED"]
    <3>1. stage' \in [Run -> StageSet]
      BY <2>2 DEF StageSet, StageRank
    <3> QED
      BY <1>1, <2>2, <3>1 DEF BeginAgent, Fails
  <2> QED
    BY <1>1, <2>1, <2>2 DEF BeginAgent
<1>2. CASE SpawnAgent(r)
  BY <1>2 DEF SpawnAgent
<1>3. CASE AgentNeverStarts(r)
  BY <1>3 DEF AgentNeverStarts, Fails
<1>4. ASSUME NEW gone \in BOOLEAN, NEW outcome \in {"ok", "error"},
             SettleAgent(r, gone, outcome)
      PROVE  TypeOK'
  BY <1>4 DEF SettleAgent
<1> QED
  BY <1>1, <1>2, <1>3, <1>4 DEF AgentStep

LEMMA VerifierReturnTyped ==
    ASSUME TypeOK, NEW r \in Run, NEW outcome \in {"ok", "error"},
           NEW teardown \in {"none", "open", "left", "removed"},
           VerifierReturns(r, outcome, teardown), UNCHANGED callVars
    PROVE  TypeOK'
BY DEF TypeOK, callVars, Verifier, Container, Kinds, Goto, Answer, VerifierReturns

LEMMA VerifierTyped ==
    ASSUME TypeOK, NEW r \in Run, VerifierStep(r), UNCHANGED callVars
    PROVE  TypeOK'
<1> USE DEF Verifier, Container, Kinds
<1>1. CASE BeginVerifier(r)
  <2>1. CASE stage[r] # "AGENT_CLOSED"
    BY <1>1, <2>1 DEF BeginVerifier, TypeOK, callVars, Fails, Goto, Answer
  <2>2. CASE stage[r] = "AGENT_CLOSED"
    <3>1. stage' = [stage EXCEPT ![r] = "VERIFIER_STARTED"] /\ verifying' = verifying \cup {r}
      BY <1>1, <2>2 DEF BeginVerifier
    <3>2. stage' \in [Run -> StageSet]
      BY <3>1 DEF TypeOK, StageSet, StageRank
    <3>3. handler' = [handler EXCEPT ![Verifier(r)] = "starting"]
      BY <1>1, <2>2 DEF BeginVerifier, Goto
    <3>4. UNCHANGED <<containers, active, aborted, record, closers, signed, reply, faults>>
      BY <1>1, <2>2 DEF BeginVerifier
    <3> QED
      BY <3>1, <3>2, <3>3, <3>4 DEF TypeOK, callVars
  <2> QED
    BY <2>1, <2>2
<1>2. CASE SpawnVerifier(r)
  <2>1. CASE r \in aborted
    BY <1>2, <2>1, VerifierReturnTyped DEF SpawnVerifier
  <2>2. CASE r \notin aborted
    BY <1>2, <2>2 DEF TypeOK, callVars, SpawnVerifier, Goto, At
  <2> QED
    BY <2>1, <2>2
<1>3. CASE VerifierNeverStarts(r)
  <2>1. CASE Fails(Verifier(r))
    BY <2>1 DEF TypeOK, callVars, Fails, Goto, Answer
  <2>2. CASE VerifierReturns(r, "error", record[Verifier(r)])
    <3>1. record[Verifier(r)] \in {"none", "open", "left", "removed"}
      BY DEF TypeOK
    <3> QED
      BY <2>2, <3>1, VerifierReturnTyped
  <2> QED
    BY <1>3, <2>1, <2>2 DEF VerifierNeverStarts
<1>4. ASSUME NEW gone \in BOOLEAN, NEW outcome \in {"ok", "error"},
             SettleVerifier(r, gone, outcome)
      PROVE  TypeOK'
  BY <1>4, VerifierReturnTyped DEF SettleVerifier
<1> QED
  BY <1>1, <1>2, <1>3, <1>4 DEF VerifierStep

LEMMA EngineTyped ==
    ASSUME TypeOK, NEW c \in Container, EngineStep(c), UNCHANGED callVars
    PROVE  TypeOK'
BY DEF TypeOK, callVars, EngineStep, Attach, ContainerEnds, CliCloses, Goto, volatile

LEMMA AdvanceTyped ==
    ASSUME TypeOK, NEW h \in closers, NEW pc \in {"observe", "cancel", "remove", "query", "close"},
           Advance(h, pc)
    PROVE  closers' \subseteq ClosersType
BY DEF TypeOK, Advance, ClosersType

LEMMA CloserTyped ==
    ASSUME TypeOK, NEW h \in closers, CloserStep(h), UNCHANGED callVars
    PROVE  TypeOK'
<1>1. /\ h.run \in Run /\ h.scope \in Scopes
      /\ h.method \in {"teardown", "reconcile"}
  BY DEF TypeOK, ClosersType
<1>2. CASE TeardownStep(h)
  BY <1>2, AdvanceTyped DEF TypeOK, callVars, TeardownStep
<1>3. CASE CancelStep(h)
  BY <1>3, AdvanceTyped DEF TypeOK, callVars, CancelStep
<1>4. CASE QueryStep(h)
  BY <1>4, AdvanceTyped DEF TypeOK, callVars, QueryStep
<1>5. ASSUME NEW removed \in SUBSET (Bound(h) \cap containers), RemoveStep(h, removed)
      PROVE  TypeOK'
  BY <1>5, AdvanceTyped DEF TypeOK, callVars, RemoveStep
<1>6. CASE CloseStep(h)
  BY <1>1, <1>6
     DEF TypeOK, callVars, CloseStep, MarkClosed, Ends, Answer, StageSet, StageRank
<1>7. CASE CloserFails(h)
  BY <1>1, <1>7 DEF TypeOK, callVars, CloserFails, Ends, Answer
<1> QED
  BY <1>2, <1>3, <1>4, <1>5, <1>6, <1>7 DEF CloserStep

LEMMA KillTyped ==
    ASSUME TypeOK, Kill, UNCHANGED callVars
    PROVE  TypeOK'
BY BrokerAssumption DEF TypeOK, callVars, Kill, ClosersType

LEMMA CloseTyped ==
    ASSUME TypeOK, NEW r \in Run, NEW method \in {"teardown", "reconcile"},
           NEW scope \in Scopes, Close(r, method, scope),
           phase' \in [Run -> Phases], UNCHANGED <<recorded, abandoned>>
    PROVE  TypeOK'
<1> DEFINE h == [run |-> r, method |-> method, scope |-> scope,
                 pc |-> IF method = "teardown" THEN "observe" ELSE "cancel", live |-> TRUE]
<1>1. h \in ClosersType
  BY DEF ClosersType
<1>2. closers' \subseteq ClosersType
  BY <1>1 DEF TypeOK, Close, Begin
<1>3. reply' \in [Run -> Calls \cup {"none", "ok", "error"}]
  BY DEF TypeOK, Close, Begin, Calls
<1>4. aborted' \subseteq verifying
  BY DEF TypeOK, Close, Begin, Abort
<1> QED
  BY <1>2, <1>3, <1>4 DEF TypeOK, Close

LEMMA CallTyped ==
    ASSUME TypeOK, NEW r \in Run,
           StartRun(r) \/ CallStep(r) \/ Cancel(r) \/ LoseReply(r)
    PROVE  TypeOK'
<1> USE DEF Phases, Pending, EnterPhase
<1>0. /\ phase \in [Run -> Phases]
      /\ \A p \in Phases : [phase EXCEPT ![r] = p] \in [Run -> Phases]
      /\ {"AGENT", "ALL"} \subseteq Scopes
  BY DEF TypeOK, Scopes
<1>1. CASE StartRun(r)
  BY <1>1 DEF TypeOK, StartRun, Launch, Goto, Agent, Container, Kinds, Calls
<1>2. CASE CloseAgent(r)
  BY <1>0, <1>2, CloseTyped DEF CloseAgent
<1>3. CASE Verify(r)
  BY <1>3 DEF TypeOK, Verify, Launch, Goto, Verifier, Container, Kinds, Calls
<1>4. CASE CloseAll(r)
  BY <1>0, <1>4, CloseTyped DEF CloseAll
<1>5. CASE RecordAll(r)
  BY <1>5 DEF TypeOK, RecordAll, brokerVars, volatile
<1>6. CASE Recover(r)
  BY <1>0, <1>6, CloseTyped DEF Recover
<1>7. CASE RetryReconcile(r)
  BY <1>0, <1>7, CloseTyped DEF RetryReconcile, callVars
<1>8. CASE Cancel(r)
  BY <1>8 DEF TypeOK, Cancel, Abort, callVars
<1>9. CASE LoseReply(r)
  <2>1. \A h \in ClosersType : [h EXCEPT !.live = FALSE] \in ClosersType
    BY DEF ClosersType
  <2>2. closers' \subseteq ClosersType
    BY <1>9, <2>1 DEF TypeOK, LoseReply
  <2> QED
    BY <1>9, <2>2, BrokerAssumption DEF TypeOK, LoseReply
<1> QED
  BY <1>1, <1>2, <1>3, <1>4, <1>5, <1>6, <1>7, <1>8, <1>9 DEF CallStep

\* The handlers, the engine and the gate runner leave every part of the
\* Broker's state where its code can be, kills and lost answers included.
THEOREM BrokerTypeCorrect == Spec => []TypeOK
<1>1. ASSUME TypeOK, [Next]_vars
      PROVE  TypeOK'
  <2>1. CASE BrokerNext /\ UNCHANGED callVars
    BY <1>1, <2>1, AgentTyped, VerifierTyped, EngineTyped, CloserTyped, KillTyped
       DEF BrokerNext
  <2>2. CASE \E r \in Run : StartRun(r) \/ CallStep(r) \/ Cancel(r) \/ LoseReply(r)
    BY <1>1, <2>2, CallTyped
  <2>3. CASE UNCHANGED vars
    BY <1>1, <2>3 DEF TypeOK, vars, brokerVars, volatile, callVars
  <2> QED
    BY <1>1, <2>1, <2>2, <2>3 DEF Next
<1> QED
  BY InitTyped, <1>1, PTL DEF Spec

LEMMA LedgerStep ==
    ASSUME TypeOK, [Next]_vars
    PROVE  \A r \in Run : StageRank[stage'[r]] >= StageRank[stage[r]]
<1>1. \A s \in StageSet : StageRank[s] >= StageRank[s]
  BY DEF StageSet, StageRank
<1>2. CASE UNCHANGED stage
  BY <1>1, <1>2 DEF TypeOK
<1>3. ASSUME NEW r \in Run, BeginAgent(r)
      PROVE  \A q \in Run : StageRank[stage'[q]] >= StageRank[stage[q]]
  BY <1>1, <1>2, <1>3 DEF TypeOK, BeginAgent, Fails, StageSet, StageRank
<1>4. ASSUME NEW r \in Run, BeginVerifier(r)
      PROVE  \A q \in Run : StageRank[stage'[q]] >= StageRank[stage[q]]
  BY <1>1, <1>2, <1>4 DEF TypeOK, BeginVerifier, Fails, StageSet, StageRank
<1>5. ASSUME NEW h \in closers, CloseStep(h)
      PROVE  \A q \in Run : StageRank[stage'[q]] >= StageRank[stage[q]]
  BY <1>1, <1>5 DEF TypeOK, ClosersType, CloseStep, MarkClosed, StageSet, StageRank
<1>6. CASE BrokerNext
  BY <1>2, <1>3, <1>4, <1>5, <1>6
     DEF BrokerNext, AgentStep, SpawnAgent, AgentNeverStarts, SettleAgent, Fails,
         VerifierStep, SpawnVerifier, VerifierNeverStarts, SettleVerifier,
         VerifierReturns, EngineStep, Attach, ContainerEnds, CliCloses,
         CloserStep, TeardownStep, CancelStep, RemoveStep, QueryStep, CloserFails, Kill
<1>7. ASSUME NEW r \in Run, StartRun(r) \/ CallStep(r) \/ Cancel(r) \/ LoseReply(r)
      PROVE  UNCHANGED stage
  BY <1>7 DEF StartRun, CallStep, CloseAgent, Verify, CloseAll, RecordAll, Recover,
              RetryReconcile, Cancel, LoseReply, Launch, Close, brokerVars
<1>8. CASE UNCHANGED vars
  BY <1>2, <1>8 DEF vars, brokerVars
<1> QED
  BY <1>2, <1>6, <1>7, <1>8 DEF Next

\* The durable tombstones of the Broker are never taken back, in whatever order
\* its handlers close a run.
THEOREM TombstonesStay == Spec => LedgerAdvances
<1>1. ASSUME TypeOK, [Next]_vars
      PROVE  [\A r \in Run : StageRank[stage'[r]] >= StageRank[stage[r]]]_vars
  BY <1>1, LedgerStep
<1> QED
  BY BrokerTypeCorrect, <1>1, PTL DEF Spec, LedgerAdvances

----------------------------------------------------------------------------
(* What a teardown attests: BrokerInv is an invariant. *)

\* A step that gives run r no new container, record, answer or attestation
\* beyond what its handlers were already about to.
Quiet(r) ==
    /\ phase'[r] = phase[r]
    /\ \A k \in Kinds : record'[<<r, k>>] = record[<<r, k>>]
    /\ \A k \in Kinds : handler[<<r, k>>] = "idle" => handler'[<<r, k>>] = "idle"
    /\ handler'[Verifier(r)] \in {"requested", "starting"}
         => handler[Verifier(r)] \in {"requested", "starting"}
    /\ \A k \in Kinds : handler[<<r, k>>] = "idle" /\ <<r, k>> \notin containers
                          => <<r, k>> \notin containers'
    /\ reply'[r] = reply[r] \/ reply'[r] = "error"
    /\ \A a \in signed' : a.run = r => a \in signed
    /\ \A g \in closers' : g.run = r =>
         \E h \in closers :
           /\ h.run = r /\ h.method = g.method /\ h.scope = g.scope
           /\ g.live => h.live
           /\ g.pc = h.pc \/ (g.method = "reconcile" /\ g.pc # "observe")

LEMMA GoneStays ==
    ASSUME NEW r, NEW k \in Kinds, Quiet(r), Gone(<<r, k>>)
    PROVE  Gone(<<r, k>>)'
BY DEF Quiet, Gone

LEMMA QuietKeeps ==
    ASSUME NEW r \in Run, TypeOK, RunInv(r), Quiet(r)
    PROVE  RunInv(r)'
<1>1. \A k \in Kinds : Gone(<<r, k>>) => Gone(<<r, k>>)'
  BY GoneStays
<1>2. /\ Agent(r) = <<r, "agent">> /\ Verifier(r) = <<r, "verifier">>
      /\ "agent" \in Kinds /\ "verifier" \in Kinds
      /\ \A s : KindsOf(s) \subseteq Kinds
  BY DEF Agent, Verifier, Kinds, KindsOf
<1>3. /\ phase'[r] = phase[r] /\ (PastVerifier(r) => PastVerifier(r)')
      /\ record'[Agent(r)] = record[Agent(r)]
      /\ record'[Verifier(r)] = record[Verifier(r)]
      /\ handler[Agent(r)] = "idle" => handler'[Agent(r)] = "idle"
      /\ handler[Verifier(r)] = "idle" => handler'[Verifier(r)] = "idle"
      /\ Gone(Agent(r)) => Gone(Agent(r))'
      /\ Gone(Verifier(r)) => Gone(Verifier(r))'
  BY <1>1, <1>2 DEF Quiet, PastVerifier
<1>4. Unlaunched(r)'
  BY <1>2, <1>3 DEF RunInv, Unlaunched, Quiet
<1>5. RecordsFollow(r)'
  BY <1>2, <1>3 DEF RunInv, RecordsFollow, Quiet
<1>6. AgentFirst(r)'
  BY <1>2, <1>3 DEF RunInv, AgentFirst, Quiet
<1>7. VerifierAnswered(r)'
  BY <1>2, <1>3 DEF RunInv, VerifierAnswered, Quiet
<1>8. ReplyFits(r)'
  BY <1>3 DEF RunInv, ReplyFits, Quiet
<1>9. ASSUME NEW g \in closers', g.run = r
      PROVE  CloserFits(g)'
  <2>1. PICK h \in closers :
          /\ h.run = r /\ h.method = g.method /\ h.scope = g.scope
          /\ g.live => h.live
          /\ g.pc = h.pc \/ (g.method = "reconcile" /\ g.pc # "observe")
    BY <1>9 DEF Quiet
  <2>2. CloserFits(h)
    BY <2>1 DEF RunInv
  <2> QED
    BY <1>1, <1>2, <1>3, <1>9, <2>1, <2>2 DEF CloserFits
<1>10. ASSUME NEW a \in signed', a.run = r
       PROVE  AttestationFits(a)'
  <2>1. AttestationFits(a)
    BY <1>10 DEF Quiet, RunInv
  <2> QED
    BY <1>1, <1>2, <1>3, <1>10, <2>1 DEF AttestationFits
<1> QED
  BY <1>4, <1>5, <1>6, <1>7, <1>8, <1>9, <1>10 DEF RunInv

----------------------------------------------------------------------------
(* The quiet steps. *)

LEMMA QuietHandlers ==
    ASSUME TypeOK, NEW r \in Run, NEW q \in Run, UNCHANGED callVars,
           \/ BeginAgent(r) \/ SpawnAgent(r) \/ AgentNeverStarts(r)
           \/ BeginVerifier(r) \/ VerifierNeverStarts(r)
    PROVE  Quiet(q)
<1> USE DEF Quiet, TypeOK, callVars, Goto, At, Answer, Fails, Agent, Verifier, Container, Kinds
<1>1. CASE BeginAgent(r)
  BY <1>1 DEF BeginAgent
<1>2. CASE SpawnAgent(r)
  BY <1>2 DEF SpawnAgent
<1>3. CASE AgentNeverStarts(r)
  BY <1>3 DEF AgentNeverStarts
<1>4. CASE BeginVerifier(r)
  BY <1>4 DEF BeginVerifier
<1>5. CASE VerifierNeverStarts(r)
  BY <1>5 DEF VerifierNeverStarts, VerifierReturns
<1> QED
  BY <1>1, <1>2, <1>3, <1>4, <1>5

LEMMA QuietEngine ==
    ASSUME TypeOK, NEW c \in Container, NEW q \in Run, EngineStep(c), UNCHANGED callVars
    PROVE  Quiet(q)
<1> USE DEF Quiet, TypeOK, callVars, Goto, At, Agent, Verifier, Container, Kinds
<1>1. CASE Attach(c)
  BY <1>1 DEF Attach
<1>2. CASE ContainerEnds(c)
  BY <1>2 DEF ContainerEnds, volatile
<1>3. CASE CliCloses(c)
  BY <1>3 DEF CliCloses
<1> QED
  BY <1>1, <1>2, <1>3 DEF EngineStep

LEMMA QuietReconciliation ==
    ASSUME TypeOK, NEW h \in closers, CloserFits(h), NEW q \in Run, UNCHANGED callVars,
           \/ CancelStep(h) \/ QueryStep(h) \/ CloserFails(h)
           \/ \E removed \in SUBSET (Bound(h) \cap containers) : RemoveStep(h, removed)
    PROVE  Quiet(q)
<1> DEFINE Same == UNCHANGED <<phase, record, handler, signed>> /\ containers' \subseteq containers
           Moves(pc) == Advance(h, pc) /\ h.method = "reconcile" /\ reply' = reply
<1>0. h \in ClosersType
  BY DEF TypeOK
<1>1. ASSUME Same, NEW pc \in {"remove", "query", "close"}, Moves(pc)
      PROVE  Quiet(q)
  <2>1. ASSUME NEW g \in closers', g.run = q
        PROVE  \E f \in closers :
                 /\ f.run = q /\ f.method = g.method /\ f.scope = g.scope
                 /\ g.live => f.live
                 /\ g.pc = f.pc \/ (g.method = "reconcile" /\ g.pc # "observe")
    <3>1. CASE g \in closers
      BY <2>1, <3>1
    <3>2. CASE g = [h EXCEPT !.pc = pc]
      <4>1. g.run = h.run /\ g.method = h.method /\ g.scope = h.scope
            /\ g.live = h.live /\ g.pc = pc
        BY <1>0, <3>2 DEF ClosersType
      <4> QED
        BY <1>1, <2>1, <4>1
    <3> QED
      BY <1>1, <2>1, <3>1, <3>2 DEF Advance
  <2> QED
    BY <1>1, <2>1 DEF Quiet
<1>2. CASE CancelStep(h)
  BY <1>0, <1>1, <1>2 DEF CancelStep, CloserFits, ClosersType, callVars
<1>3. CASE QueryStep(h)
  BY <1>0, <1>1, <1>3 DEF QueryStep, CloserFits, ClosersType, callVars
<1>4. ASSUME NEW removed, RemoveStep(h, removed)
      PROVE  Quiet(q)
  BY <1>0, <1>1, <1>4 DEF RemoveStep, CloserFits, ClosersType, callVars
<1>5. CASE CloserFails(h)
  BY <1>0, <1>5 DEF CloserFails, Ends, Answer, Quiet, TypeOK, callVars, ClosersType
<1> QED
  BY <1>2, <1>3, <1>4, <1>5

LEMMA QuietLosses ==
    ASSUME TypeOK, NEW r \in Run, NEW q \in Run, Cancel(r) \/ LoseReply(r)
    PROVE  Quiet(q)
<1>1. CASE Cancel(r)
  BY <1>1 DEF Cancel, Quiet, callVars
<1>2. CASE LoseReply(r)
  <2>1. ASSUME NEW g \in closers', g.run = q
        PROVE  \E h \in closers :
                 /\ h.run = q /\ h.method = g.method /\ h.scope = g.scope
                 /\ g.live => h.live
                 /\ g.pc = h.pc
    <3>1. PICK h \in closers : g = IF h.run = r THEN [h EXCEPT !.live = FALSE] ELSE h
      BY <1>2, <2>1 DEF LoseReply
    <3>2. h \in ClosersType
      BY DEF TypeOK
    <3>3. /\ g.run = h.run /\ g.method = h.method /\ g.scope = h.scope /\ g.pc = h.pc
          /\ g.live => h.live
      BY <3>1, <3>2 DEF ClosersType
    <3> QED
      BY <2>1, <3>3
  <2> QED
    BY <1>2, <2>1 DEF LoseReply, Quiet, TypeOK
<1> QED
  BY <1>1, <1>2

----------------------------------------------------------------------------
(* The steps that write a record. *)

LEMMA SettleAgentKeeps ==
    ASSUME TypeOK, NEW r \in Run, NEW gone \in BOOLEAN, NEW outcome \in {"ok", "error"},
           SettleAgent(r, gone, outcome), UNCHANGED callVars,
           NEW q \in Run, RunInv(q)
    PROVE  RunInv(q)'
<1> USE DEF SettleAgent, Goto, At, Answer, Agent, Verifier, Container, Kinds, callVars
<1>1. CASE q # r
  <2>1. Quiet(q)
    BY <1>1 DEF Quiet, TypeOK
  <2> QED
    BY <2>1, QuietKeeps
<1>2. CASE q = r
  <2>1. /\ handler[Agent(r)] = "settling" /\ handler'[Agent(r)] = "idle"
        /\ handler'[Verifier(r)] = handler[Verifier(r)]
        /\ record'[Verifier(r)] = record[Verifier(r)]
        /\ containers' = containers /\ closers' = closers /\ signed' = signed
        /\ phase' = phase
        /\ reply'[r] = reply[r] \/ (reply[r] = "agent" /\ reply'[r] \in {"ok", "error"})
    BY DEF TypeOK
  <2>2. ~Gone(Agent(r)) /\ phase[r] # "idle"
    BY <1>2, <2>1 DEF Gone, RunInv, Unlaunched
  <2> HIDE DEF SettleAgent, Goto, At, Answer, Agent, Verifier, Container, Kinds, callVars
  <2>3. /\ Unlaunched(r)' /\ RecordsFollow(r)' /\ ReplyFits(r)'
    BY <1>2, <2>1, <2>2 DEF RunInv, Unlaunched, RecordsFollow, ReplyFits, Gone
  <2>4. AgentFirst(r)' /\ VerifierAnswered(r)'
    BY <1>2, <2>1, <2>2 DEF RunInv, AgentFirst, VerifierAnswered, ReplyFits
  <2>5. ASSUME NEW h \in closers', h.run = r
        PROVE  CloserFits(h)'
    <3>1. CloserFits(h) /\ h.scope \in {"AGENT", "ALL"}
      BY <1>2, <2>1, <2>5 DEF RunInv, TypeOK, ClosersType, Scopes
    <3>2. h.method = "teardown" => h.scope # "ALL" /\ h.pc # "close"
      BY <2>2, <2>5, <3>1 DEF CloserFits, KindsOf, Agent, Kinds
    <3> QED
      BY <2>1, <2>5, <3>1, <3>2 DEF CloserFits
  <2>6. ASSUME NEW a \in signed', a.run = r
        PROVE  AttestationFits(a)'
    <3>1. AttestationFits(a) /\ a.scope \in {"AGENT", "ALL"}
      BY <1>2, <2>1, <2>6 DEF RunInv, TypeOK, Scopes
    <3>2. a.method # "teardown"
      BY <2>2, <2>6, <3>1 DEF AttestationFits, KindsOf, Agent, Kinds
    <3> QED
      BY <3>2 DEF AttestationFits
  <2> QED
    BY <1>2, <2>3, <2>4, <2>5, <2>6 DEF RunInv
<1> QED
  BY <1>1, <1>2

\* A verifier that is launched or returns: its handler was not idle.
LEMMA VerifierKeeps ==
    ASSUME TypeOK, NEW r \in Run, UNCHANGED callVars, NEW q \in Run, RunInv(q),
           \/ SpawnVerifier(r)
           \/ \E gone \in BOOLEAN, outcome \in {"ok", "error"} : SettleVerifier(r, gone, outcome)
    PROVE  RunInv(q)'
<1> USE DEF SpawnVerifier, SettleVerifier, VerifierReturns, Goto, At, Answer, Agent, Verifier,
            Container, Kinds, callVars
<1>1. CASE q # r
  <2>1. Quiet(q)
    BY <1>1 DEF Quiet, TypeOK
  <2> QED
    BY <2>1, QuietKeeps
<1>2. CASE q = r
  <2>1. /\ handler[Verifier(r)] \in {"starting", "settling"}
        /\ handler'[Agent(r)] = handler[Agent(r)]
        /\ record'[Agent(r)] = record[Agent(r)]
        /\ \/ handler'[Verifier(r)] = "idle" /\ record'[Verifier(r)] \in {"left", "removed"}
           \/ /\ handler'[Verifier(r)] = "launching" /\ record'[Verifier(r)] = "open"
              /\ reply'[r] = reply[r]
        /\ containers' = containers /\ closers' = closers /\ signed' = signed
        /\ phase' = phase
        /\ reply'[r] = reply[r] \/ (reply[r] = "verifier" /\ reply'[r] \in {"ok", "error"})
    BY DEF TypeOK
  <2>2. /\ ~Gone(Verifier(r)) /\ Gone(Agent(r)) /\ Gone(Agent(r))'
        /\ phase[r] \notin {"idle", "agent", "agent_closing"}
    BY <1>2, <2>1 DEF Gone, RunInv, Unlaunched, AgentFirst
  <2> HIDE DEF SpawnVerifier, SettleVerifier, VerifierReturns, Goto, At, Answer, Agent, Verifier,
               Container, Kinds, callVars
  <2>3. /\ Unlaunched(r)' /\ RecordsFollow(r)' /\ ReplyFits(r)'
    BY <1>2, <2>1, <2>2 DEF RunInv, Unlaunched, RecordsFollow, ReplyFits
  <2>4. AgentFirst(r)' /\ VerifierAnswered(r)'
    BY <1>2, <2>1, <2>2 DEF RunInv, AgentFirst, VerifierAnswered, ReplyFits
  <2>5. ASSUME NEW h \in closers', h.run = r
        PROVE  CloserFits(h)'
    <3>1. CloserFits(h) /\ h.scope \in {"AGENT", "ALL"}
      BY <1>2, <2>1, <2>5 DEF RunInv, TypeOK, ClosersType, Scopes
    <3>2. h.method = "teardown" => h.scope = "AGENT"
      BY <2>1, <2>5, <3>1 DEF CloserFits
    <3>3. h.method = "teardown" /\ h.pc = "close" =>
            \A k \in KindsOf(h.scope) : Gone(<<h.run, k>>)'
      BY <2>2, <2>5, <3>2 DEF KindsOf, Agent
    <3> QED
      BY <2>1, <2>5, <3>1, <3>2, <3>3 DEF CloserFits
  <2>6. ASSUME NEW a \in signed', a.run = r
        PROVE  AttestationFits(a)'
    <3>1. AttestationFits(a) /\ a.scope \in {"AGENT", "ALL"}
      BY <1>2, <2>1, <2>6 DEF RunInv, TypeOK, Scopes
    <3>2. a.method = "teardown" => a.scope = "AGENT"
      BY <2>2, <2>6, <3>1 DEF AttestationFits, KindsOf, Verifier, Kinds
    <3> QED
      BY <2>2, <2>6, <3>2 DEF AttestationFits, KindsOf, Agent
  <2> QED
    BY <1>2, <2>3, <2>4, <2>5, <2>6 DEF RunInv
<1> QED
  BY <1>1, <1>2

----------------------------------------------------------------------------
(* The steps of a teardown, and the attestation. *)

\* What the records of a run say when they are enough to attest.
LEMMA CompleteMeansGone ==
    ASSUME NEW h \in closers, h \in ClosersType, RunInv(h.run), Complete(h.run, h.scope),
           h.method = "teardown"
    PROVE  \A k \in KindsOf(h.scope) : Gone(<<h.run, k>>)
<1>1. CloserFits(h)
  BY DEF RunInv
<1>2. Attested(Agent(h.run)) => Gone(Agent(h.run))
  BY DEF Attested, RunInv, RecordsFollow, Gone
<1>3. Attested(Verifier(h.run)) => Gone(Verifier(h.run))
  BY DEF Attested, RunInv, RecordsFollow, Gone
<1>4. CASE h.scope = "AGENT"
  BY <1>2, <1>4 DEF Complete, KindsOf, Agent
<1>5. CASE h.scope = "ALL"
  <2>1. Gone(Agent(h.run))
    BY <1>1, <1>5 DEF CloserFits
  <2>2. Gone(Verifier(h.run))
    BY <1>1, <1>3, <1>5 DEF Complete, CloserFits, Attested
  <2> QED
    BY <1>5, <2>1, <2>2 DEF KindsOf, Kinds, Agent, Verifier
<1> QED
  BY <1>4, <1>5 DEF ClosersType, Scopes

LEMMA TeardownKeeps ==
    ASSUME TypeOK, NEW h \in closers, RunInv(h.run), TeardownStep(h), UNCHANGED callVars,
           NEW q \in Run, RunInv(q)
    PROVE  RunInv(q)'
<1>g. PICK g : g = [h EXCEPT !.pc = "close"]
  OBVIOUS
<1>0. /\ h \in ClosersType /\ CloserFits(h) /\ h.method = "teardown"
      /\ UNCHANGED <<stage, containers, handler, record, signed, reply, phase>>
      /\ closers' = (closers \ {h}) \cup {g}
      /\ g.run = h.run /\ g.method = h.method /\ g.scope = h.scope /\ g.live = h.live
      /\ g.pc = "close"
  BY <1>g DEF TypeOK, ClosersType, RunInv, TeardownStep, CloserFits, Advance, callVars
<1>1. \A k \in KindsOf(h.scope) : Gone(<<h.run, k>>)'
  BY <1>0, CompleteMeansGone DEF TeardownStep, Gone
<1>2. CloserFits(g)'
  <2>2. \A k \in KindsOf(g.scope) : Gone(<<g.run, k>>)'
    BY <1>0, <1>1 DEF Gone
  <2>3. g.scope = "ALL" =>
          /\ PastVerifier(g.run)' /\ Gone(Agent(g.run))' /\ handler'[Verifier(g.run)] = "idle"
          /\ record'[Verifier(g.run)] = "none" =>
               record'[Agent(g.run)] = "none" \/ Gone(Verifier(g.run))'
    BY <1>0 DEF CloserFits, PastVerifier, Gone
  <2>4. g.live /\ phase'[g.run] = "agent_closing" => g.scope = "AGENT"
    BY <1>0 DEF CloserFits
  <2> QED
    BY <1>0, <2>2, <2>3, <2>4 DEF CloserFits
<1>3. Unlaunched(q)' /\ RecordsFollow(q)' /\ AgentFirst(q)' /\ VerifierAnswered(q)' /\ ReplyFits(q)'
  BY <1>0 DEF RunInv, Unlaunched, RecordsFollow, AgentFirst, VerifierAnswered, ReplyFits, Gone
<1>4. ASSUME NEW f \in closers', f.run = q
      PROVE  CloserFits(f)'
  <2>1. CASE f \in closers
    BY <1>0, <1>4, <2>1 DEF RunInv, CloserFits, PastVerifier, Gone
  <2> QED
    BY <1>0, <1>2, <1>4, <2>1
<1>5. ASSUME NEW a \in signed', a.run = q
      PROVE  AttestationFits(a)'
  BY <1>0, <1>5 DEF RunInv, AttestationFits, PastVerifier, Gone
<1> QED
  BY <1>3, <1>4, <1>5 DEF RunInv

LEMMA CloseKeeps ==
    ASSUME TypeOK, NEW h \in closers, RunInv(h.run), CloseStep(h), UNCHANGED callVars,
           NEW q \in Run, RunInv(q)
    PROVE  RunInv(q)'
<1> DEFINE a == [run |-> h.run, scope |-> h.scope, method |-> h.method]
<1>0. /\ h \in ClosersType /\ CloserFits(h) /\ h.pc = "close"
      /\ UNCHANGED <<containers, handler, record, phase>>
      /\ closers' = closers \ {h} /\ signed' = signed \cup {a}
      /\ a.run = h.run /\ a.scope = h.scope /\ a.method = h.method
  BY DEF TypeOK, RunInv, CloseStep, Ends, callVars
<1>1. reply'[q] = reply[q] \/ (h.run = q /\ h.live /\ reply[q] = "closure" /\ reply'[q] = "ok")
  BY <1>0 DEF CloseStep, Ends, Answer, TypeOK, ClosersType
<1>2. AttestationFits(a)'
  BY <1>0 DEF CloserFits, AttestationFits, PastVerifier, Gone
<1>3. h.run = q => phase[q] # "idle"
  BY <1>0 DEF RunInv, Unlaunched
<1>4. h.run = q /\ h.live /\ phase[q] = "agent_closing" => Gone(Agent(q))
  BY <1>0 DEF CloserFits, KindsOf, Agent
<1>5. Unlaunched(q)' /\ RecordsFollow(q)' /\ ReplyFits(q)'
  BY <1>0, <1>1, <1>3 DEF RunInv, Unlaunched, RecordsFollow, ReplyFits, Gone
<1>6. AgentFirst(q)' /\ VerifierAnswered(q)'
  BY <1>0, <1>1, <1>4 DEF RunInv, AgentFirst, VerifierAnswered, ReplyFits, Gone
<1>7. ASSUME NEW f \in closers', f.run = q
      PROVE  CloserFits(f)'
  BY <1>0, <1>7 DEF RunInv, CloserFits, PastVerifier, Gone
<1>8. ASSUME NEW b \in signed', b.run = q
      PROVE  AttestationFits(b)'
  <2>1. CASE b \in signed
    BY <1>0, <1>8, <2>1 DEF RunInv, AttestationFits, PastVerifier, Gone
  <2> QED
    BY <1>0, <1>2, <1>8, <2>1
<1> QED
  BY <1>5, <1>6, <1>7, <1>8 DEF RunInv

LEMMA KillKeeps ==
    ASSUME TypeOK, Kill, UNCHANGED callVars, NEW q \in Run, RunInv(q)
    PROVE  RunInv(q)'
<1>1. PICK born \in SUBSET {c \in Container : At(c, "launching") /\ NameFree(c)} :
        containers' = containers \cup born
  BY DEF Kill
<1>2. /\ \A c \in Container : handler'[c] = "idle" /\ record'[c] = "none"
      /\ closers' = {} /\ signed' = signed /\ phase' = phase
      /\ reply'[q] = IF reply[q] \in Calls THEN "error" ELSE reply[q]
  BY DEF Kill, callVars
<1>3. \A c \in Container : Gone(c) => Gone(c)'
  BY <1>1, <1>2 DEF Gone, At
<1>4. /\ Agent(q) \in Container /\ Verifier(q) \in Container
      /\ \A s : \A k \in KindsOf(s) : <<q, k>> \in Container
  BY DEF Agent, Verifier, Container, Kinds, KindsOf
<1>5. Unlaunched(q)' /\ RecordsFollow(q)'
  BY <1>2, <1>3, <1>4 DEF RunInv, Unlaunched, RecordsFollow
<1>6. AgentFirst(q)' /\ VerifierAnswered(q)' /\ ReplyFits(q)'
  <2>1. Verifier(q) \in containers' =>
          Verifier(q) \in containers \/ handler[Verifier(q)] = "launching"
    BY <1>1 DEF At
  <2> QED
    BY <1>2, <1>3, <1>4, <2>1
       DEF RunInv, AgentFirst, VerifierAnswered, ReplyFits, Calls, Kinds
<1>7. ASSUME NEW a \in signed', a.run = q
      PROVE  AttestationFits(a)'
  BY <1>2, <1>3, <1>4, <1>7 DEF RunInv, AttestationFits, PastVerifier
<1> QED
  BY <1>2, <1>5, <1>6, <1>7 DEF RunInv

----------------------------------------------------------------------------
(* The calls of the gate runner. *)

\* The request of a closure: what it leaves alone.
LEMMA CloseEffect ==
    ASSUME TypeOK, NEW r \in Run, NEW method, NEW scope, Close(r, method, scope)
    PROVE  /\ UNCHANGED <<containers, handler, record, signed>>
           /\ \A q \in Run \ {r} : reply'[q] = reply[q]
           /\ reply'[r] \in {"closure", "error"}
BY DEF Close, Begin, TypeOK

LEMMA ClosureCallKeeps ==
    ASSUME TypeOK, NEW r \in Run, NEW q \in Run, RunInv(q),
           \/ CloseAgent(r) \/ CloseAll(r) \/ Recover(r) \/ RetryReconcile(r)
    PROVE  RunInv(q)'
<1>1. PICK m, s :
        /\ Close(r, m, s)
        /\ \/ /\ m = "teardown" /\ s = "AGENT" /\ Heard(r, "agent", "ok")
              /\ phase' = [phase EXCEPT ![r] = "agent_closing"]
           \/ /\ m = "teardown" /\ s = "ALL" /\ phase' = [phase EXCEPT ![r] = "all_closing"]
              /\ Heard(r, "verifier", "ok") \/ Heard(r, "agent_closing", "ok")
           \/ /\ m = "reconcile" /\ s = "ALL" /\ phase' = [phase EXCEPT ![r] = "reconciling"]
              /\ phase[r] \in Pending \cup {"reconciling"}
  <2>1. CASE CloseAgent(r)
    BY <2>1 DEF CloseAgent, EnterPhase
  <2>2. CASE CloseAll(r)
    BY <2>2 DEF CloseAll, EnterPhase
  <2>3. CASE Recover(r)
    BY <2>3 DEF Recover, EnterPhase
  <2>4. CASE RetryReconcile(r)
    BY <2>4 DEF RetryReconcile, callVars, TypeOK
  <2> QED
    BY <2>1, <2>2, <2>3, <2>4
<1>2. /\ UNCHANGED <<containers, handler, record, signed>>
      /\ \A p \in Run \ {r} : reply'[p] = reply[p] /\ phase'[p] = phase[p]
      /\ reply'[r] \in {"closure", "error"}
      /\ \A g \in closers' :
           \/ g \in closers
           \/ /\ g.run = r /\ g.method = m /\ g.scope = s /\ g.live = TRUE
              /\ g.pc = IF m = "teardown" THEN "observe" ELSE "cancel"
  <2>1. \A p \in Run \ {r} : phase'[p] = phase[p]
    BY <1>1 DEF TypeOK
  <2>2. Close(r, m, s)
    BY <1>1
  <2>3. /\ UNCHANGED <<containers, handler, record, signed>>
        /\ \A p \in Run \ {r} : reply'[p] = reply[p]
        /\ reply'[r] \in {"closure", "error"}
    BY <2>2, CloseEffect
  <2>4. \A g \in closers' :
           \/ g \in closers
           \/ /\ g.run = r /\ g.method = m /\ g.scope = s /\ g.live = TRUE
              /\ g.pc = IF m = "teardown" THEN "observe" ELSE "cancel"
    BY <2>2 DEF Close, Begin
  <2> QED
    BY <2>1, <2>3, <2>4
<1>3. CASE q # r
  <2>1. Quiet(q)
    BY <1>2, <1>3 DEF Quiet
  <2> QED
    BY <2>1, QuietKeeps
<1>4. CASE q = r
  <2>1. /\ \A c : Gone(c) => Gone(c)'
        /\ PastVerifier(r) => PastVerifier(r)'
        /\ phase[r] # "idle" /\ phase'[r] \in {"agent_closing", "all_closing", "reconciling"}
        /\ phase'[r] = "agent_closing" => phase[r] = "agent"
    BY <1>1, <1>2 DEF Gone, TypeOK, PastVerifier, Heard, Pending
  <2>2. Unlaunched(r)' /\ RecordsFollow(r)' /\ ReplyFits(r)'
    BY <1>2, <1>4, <2>1 DEF RunInv, Unlaunched, RecordsFollow, ReplyFits
  <2>3. AgentFirst(r)' /\ VerifierAnswered(r)'
    BY <1>2, <1>4, <2>1 DEF RunInv, AgentFirst, VerifierAnswered
  <2>4. ASSUME NEW g \in closers', g.run = r
        PROVE  CloserFits(g)'
    <3>1. CASE g \in closers
      <4>1. CloserFits(g)
        BY <1>4, <2>4, <3>1 DEF RunInv
      <4>2. phase'[r] # "agent_closing"
        BY <1>4, <2>1, <2>4, <3>1 DEF RunInv, Unlaunched
      <4> QED
        BY <1>2, <2>1, <2>4, <4>1, <4>2 DEF CloserFits
    <3>2. CASE g \notin closers
      <4>1. CASE m = "teardown" /\ s = "ALL"
        <5>1. PastVerifier(r)'
          BY <1>1, <4>1 DEF PastVerifier, TypeOK
        <5>2. /\ Gone(Agent(r)) /\ handler[Verifier(r)] = "idle"
              /\ record[Verifier(r)] = "none" =>
                   record[Agent(r)] = "none" \/ Gone(Verifier(r))
          BY <1>1, <1>4, <4>1
             DEF RunInv, Unlaunched, AgentFirst, VerifierAnswered, Heard, Gone
        <5>3. /\ PastVerifier(g.run)' /\ Gone(Agent(g.run))' /\ handler'[Verifier(g.run)] = "idle"
              /\ record'[Verifier(g.run)] = "none" =>
                   record'[Agent(g.run)] = "none" \/ Gone(Verifier(g.run))'
          BY <1>2, <2>4, <5>1, <5>2 DEF PastVerifier, Gone
        <5>4. g.method = "teardown" /\ g.pc = "observe" /\ phase'[g.run] # "agent_closing"
          BY <1>2, <2>4, <3>2, <4>1, <5>1 DEF PastVerifier
        <5> QED
          BY <5>3, <5>4 DEF CloserFits
      <4>2. CASE m = "teardown" /\ s = "AGENT"
        BY <1>2, <2>4, <3>2, <4>2 DEF CloserFits
      <4>3. CASE m = "reconcile"
        BY <1>1, <1>2, <2>4, <3>2, <4>3 DEF CloserFits, TypeOK
      <4> QED
        BY <1>1, <4>1, <4>2, <4>3
    <3> QED
      BY <3>1, <3>2
  <2>5. ASSUME NEW a \in signed', a.run = r
        PROVE  AttestationFits(a)'
    BY <1>2, <1>4, <2>1, <2>5 DEF RunInv, AttestationFits
  <2> QED
    BY <1>4, <2>2, <2>3, <2>4, <2>5 DEF RunInv
<1> QED
  BY <1>3, <1>4

LEMMA LaunchCallKeeps ==
    ASSUME TypeOK, NEW r \in Run, NEW q \in Run, RunInv(q), RunInv(r),
           StartRun(r) \/ Verify(r) \/ RecordAll(r)
    PROVE  RunInv(q)'
<1> USE DEF Goto, EnterPhase, Heard, Launch, Agent, Verifier, Container, Kinds, brokerVars, volatile
<1>1. CASE q # r
  <2>1. Quiet(q)
    BY <1>1 DEF StartRun, Verify, RecordAll, Quiet, TypeOK
  <2> QED
    BY <2>1, QuietKeeps
<1>2. CASE q = r /\ StartRun(r)
  <2>1. /\ phase[r] = "idle" /\ phase'[r] = "agent" /\ reply'[r] = "agent"
        /\ UNCHANGED <<containers, record, closers, signed>>
        /\ handler'[Verifier(r)] = handler[Verifier(r)]
    BY <1>2 DEF StartRun, TypeOK
  <2>2. /\ \A h \in closers : h.run # r
        /\ \A a \in signed : a.run # r
        /\ Gone(Verifier(r)) /\ record[Agent(r)] = "none" /\ record[Verifier(r)] = "none"
    BY <1>2, <2>1 DEF RunInv, Unlaunched
  <2> HIDE DEF Agent, Verifier, Container, Kinds
  <2>3. Unlaunched(r)' /\ RecordsFollow(r)' /\ AgentFirst(r)' /\ VerifierAnswered(r)' /\ ReplyFits(r)'
    BY <2>1, <2>2 DEF Unlaunched, RecordsFollow, AgentFirst, VerifierAnswered, ReplyFits, Gone
  <2> QED
    BY <1>2, <2>1, <2>2, <2>3 DEF RunInv
<1>3. CASE q = r /\ Verify(r)
  <2>1. /\ phase[r] = "agent_closing" /\ phase'[r] = "verifier"
        /\ reply[r] = "ok" /\ reply'[r] = "verifier"
        /\ UNCHANGED <<containers, record, closers, signed>>
        /\ handler'[Agent(r)] = handler[Agent(r)]
    BY <1>3 DEF Verify, TypeOK
  <2>2. /\ Gone(Agent(r)) /\ record[Verifier(r)] = "none"
        /\ Gone(Agent(r))'
    BY <1>3, <2>1 DEF RunInv, Unlaunched, AgentFirst, Gone
  <2>3. \A h \in closers : h.run = r /\ h.method = "teardown" => h.scope = "AGENT"
    BY <1>3, <2>1 DEF RunInv, CloserFits, PastVerifier, TypeOK, ClosersType, Scopes
  <2>4. \A a \in signed : a.run = r /\ a.method = "teardown" => a.scope = "AGENT"
    BY <1>3, <2>1 DEF RunInv, AttestationFits, PastVerifier, TypeOK, Scopes
  <2>5. \A h \in closers : h.run = r => CloserFits(h)
    BY <1>3 DEF RunInv
  <2> HIDE DEF Agent, Verifier, Container, Kinds
  <2>6. Unlaunched(r)' /\ RecordsFollow(r)' /\ AgentFirst(r)' /\ VerifierAnswered(r)' /\ ReplyFits(r)'
    BY <2>1, <2>2 DEF Unlaunched, RecordsFollow, AgentFirst, VerifierAnswered, ReplyFits, Gone
  <2>7. ASSUME NEW h \in closers', h.run = r
        PROVE  CloserFits(h)'
    <3>1. h.method = "teardown" => \A k \in KindsOf(h.scope) : Gone(<<h.run, k>>)'
      BY <2>1, <2>2, <2>3, <2>7 DEF KindsOf, Agent
    <3> QED
      BY <2>1, <2>3, <2>5, <2>7, <3>1 DEF CloserFits
  <2>8. ASSUME NEW a \in signed', a.run = r
        PROVE  AttestationFits(a)'
    BY <2>1, <2>2, <2>4, <2>8 DEF AttestationFits, KindsOf, Agent
  <2> QED
    BY <1>3, <2>6, <2>7, <2>8 DEF RunInv
<1>4. CASE q = r /\ RecordAll(r)
  <2>1. /\ phase[r] \in {"all_closing", "reconciling"} /\ phase'[r] = "done" /\ reply[r] = "ok"
        /\ UNCHANGED <<containers, handler, record, closers, signed, reply>>
    BY <1>4 DEF RecordAll, TypeOK
  <2>2. PastVerifier(r)'
    BY <2>1 DEF PastVerifier
  <2> HIDE DEF Agent, Verifier, Container, Kinds
  <2>3. Unlaunched(r)' /\ RecordsFollow(r)' /\ AgentFirst(r)' /\ VerifierAnswered(r)' /\ ReplyFits(r)'
    BY <1>4, <2>1
       DEF RunInv, Unlaunched, RecordsFollow, AgentFirst, VerifierAnswered, ReplyFits, Gone
  <2>4. ASSUME NEW h \in closers', h.run = r
        PROVE  CloserFits(h)'
    BY <1>4, <2>1, <2>2, <2>4 DEF RunInv, CloserFits, Gone
  <2>5. ASSUME NEW a \in signed', a.run = r
        PROVE  AttestationFits(a)'
    BY <1>4, <2>1, <2>2, <2>5 DEF RunInv, AttestationFits, Gone
  <2> QED
    BY <1>4, <2>3, <2>4, <2>5 DEF RunInv
<1> QED
  BY <1>1, <1>2, <1>3, <1>4

----------------------------------------------------------------------------
(* What a reconciliation attests: RecordInv is an invariant. *)

\* A step that gives run q no container a reconciliation could miss.
Moves(q) ==
    \A k \in Kinds :
      /\ ~BeforeContainer(<<q, k>>) => ~BeforeContainer(<<q, k>>)'
      /\ handler'[<<q, k>>] \in {"requested", "starting", "launching"}
           => handler[<<q, k>>] \in {"requested", "starting", "launching"}
      /\ <<q, k>> \in containers'
           => <<q, k>> \in containers \/ handler[<<q, k>>] = "launching"

LEMMA CleanStays ==
    ASSUME NEW q, Moves(q)
    PROVE  (Settled(q) => Settled(q)') /\ (Clean(q) => Clean(q)')
BY DEF Moves, Settled, Clean

LEMMA AgentMoves ==
    ASSUME TypeOK, NEW r \in Run, AgentStep(r), NEW q \in Run
    PROVE  Moves(q)
<1> USE DEF TypeOK, Goto, At, Fails, Agent, Container, Kinds
<1>1. PICK s \in {"starting", "launching", "idle"} :
        /\ handler' = [handler EXCEPT ![Agent(r)] = s]
        /\ containers' = containers
        /\ handler[Agent(r)] \in {"requested", "starting", "settling"}
        /\ handler[Agent(r)] = "settling" => s = "idle"
        /\ active' # active => handler[Agent(r)] \in {"starting", "settling"}
        /\ s = "launching" => handler[Agent(r)] = "starting"
  <2>1. CASE BeginAgent(r)
    BY <2>1 DEF BeginAgent
  <2>2. CASE SpawnAgent(r)
    BY <2>2 DEF SpawnAgent
  <2>3. CASE AgentNeverStarts(r)
    BY <2>3 DEF AgentNeverStarts
  <2>4. CASE \E gone \in BOOLEAN, outcome \in {"ok", "error"} : SettleAgent(r, gone, outcome)
    BY <2>4 DEF SettleAgent
  <2> QED
    BY <2>1, <2>2, <2>3, <2>4 DEF AgentStep
<1>2. CASE q = r
  BY <1>1, <1>2 DEF Moves, BeforeContainer
<1>3. CASE q # r
  <2>1. \A k \in Kinds : handler'[<<q, k>>] = handler[<<q, k>>]
    BY <1>1, <1>3
  <2>2. handler[Agent(r)] # "idle"
    BY <1>1
  <2>3. \A p \in Run \ {r} : handler'[Agent(p)] = handler[Agent(p)]
    BY <1>1
  <2> QED
    BY <1>1, <1>3, <2>1, <2>2, <2>3 DEF Moves, BeforeContainer
<1> QED
  BY <1>2, <1>3

LEMMA VerifierMoves ==
    ASSUME TypeOK, NEW r \in Run, VerifierStep(r), NEW q \in Run
    PROVE  Moves(q)
<1> USE DEF TypeOK, Goto, At, Fails, Agent, Verifier, Container, Kinds
<1>1. PICK s \in {"starting", "launching", "idle"} :
        /\ handler' = [handler EXCEPT ![Verifier(r)] = s]
        /\ containers' = containers /\ active' = active
        /\ handler[Verifier(r)] \in {"requested", "starting", "settling"}
        /\ handler[Verifier(r)] = "settling" => s = "idle"
  <2>1. CASE BeginVerifier(r)
    BY <2>1 DEF BeginVerifier
  <2>2. CASE SpawnVerifier(r)
    BY <2>2 DEF SpawnVerifier, VerifierReturns
  <2>3. CASE VerifierNeverStarts(r)
    BY <2>3 DEF VerifierNeverStarts, VerifierReturns
  <2>4. CASE \E gone \in BOOLEAN, outcome \in {"ok", "error"} :
               SettleVerifier(r, gone, outcome)
    BY <2>4 DEF SettleVerifier, VerifierReturns
  <2> QED
    BY <2>1, <2>2, <2>3, <2>4 DEF VerifierStep
<1>2. \A p \in Run : handler'[Agent(p)] = handler[Agent(p)]
  BY <1>1
<1>3. q # r => handler'[Verifier(q)] = handler[Verifier(q)]
  BY <1>1
<1>4. q = r => handler'[Verifier(q)] = s
  BY <1>1
<1>5. ~BeforeContainer(Agent(q)) => ~BeforeContainer(Agent(q))'
  BY <1>1, <1>2 DEF BeforeContainer
<1>6. ~BeforeContainer(Verifier(q)) => ~BeforeContainer(Verifier(q))'
  BY <1>1, <1>3, <1>4 DEF BeforeContainer
<1> HIDE DEF TypeOK, At
<1> QED
  BY <1>1, <1>2, <1>3, <1>4, <1>5, <1>6 DEF Moves

LEMMA EngineMoves ==
    ASSUME TypeOK, NEW c \in Container, EngineStep(c), NEW q \in Run
    PROVE  Moves(q)
<1> USE DEF TypeOK, Goto, At, Agent, Container, Kinds
<1>1. CASE Attach(c)
  BY <1>1 DEF Attach, Moves, BeforeContainer
<1>2. CASE ContainerEnds(c)
  BY <1>2 DEF ContainerEnds, volatile, Moves, BeforeContainer
<1>3. CASE CliCloses(c)
  BY <1>3 DEF CliCloses, Moves, BeforeContainer
<1> QED
  BY <1>1, <1>2, <1>3 DEF EngineStep

LEMMA CloserMoves ==
    ASSUME NEW h \in closers, CloserStep(h), NEW q \in Run
    PROVE  Moves(q)
<1>1. handler' = handler /\ active' = active /\ containers' \subseteq containers
  BY DEF CloserStep, TeardownStep, CancelStep, RemoveStep, QueryStep, CloseStep, CloserFails
<1> QED
  BY <1>1 DEF Moves, BeforeContainer, At

\* A CLI killed while it launched may have had its container created.
LEMMA KillMoves ==
    ASSUME TypeOK, Kill, NEW q \in Run
    PROVE  Moves(q)
<1>1. \A c \in Container : handler'[c] = "idle"
  BY DEF Kill
<1>2. containers' \subseteq containers \cup {c \in Container : handler[c] = "launching"}
  BY DEF Kill, At
<1>3. \A k \in Kinds : <<q, k>> \in Container
  BY DEF Container
<1> QED
  BY <1>1, <1>2, <1>3 DEF Moves, BeforeContainer, At

\* A launch that is answered has ended, and the run's other handler is idle.
LEMMA AnsweredKeeps ==
    ASSUME NEW q \in Run, RunInv(q), AnswerFits(q), Moves(q), UNCHANGED callVars,
           \/ reply'[q] = reply[q] \/ reply[q] \notin Kinds
           \/ handler'[<<q, reply[q]>>] = "idle"
    PROVE  AnswerFits(q)'
<1> USE DEF callVars
<1>1. CASE reply[q] \notin Kinds
  BY <1>1 DEF AnswerFits, Moves
<1>2. CASE reply[q] \in Kinds /\ handler'[<<q, reply[q]>>] = "idle"
  <2>1. CASE reply[q] = "agent"
    <3>1. handler'[Agent(q)] = "idle"
      BY <1>2, <2>1 DEF Agent
    <3>2. handler[Verifier(q)] = "idle"
      BY <2>1 DEF RunInv, ReplyFits, Unlaunched, Gone
    <3>3. ~BeforeContainer(Verifier(q))
      BY <3>2 DEF BeforeContainer, At
    <3> QED
      BY <3>1, <3>3 DEF AnswerFits, Moves, BeforeContainer, At, Kinds, Agent, Verifier
  <2>2. CASE reply[q] = "verifier"
    <3>1. handler'[Verifier(q)] = "idle"
      BY <1>2, <2>2 DEF Verifier
    <3>2. handler[Agent(q)] = "idle"
      BY <2>2 DEF RunInv, ReplyFits, AgentFirst, Gone
    <3>3. ~BeforeContainer(Agent(q))
      BY <3>2 DEF BeforeContainer, At
    <3> QED
      BY <3>1, <3>3 DEF AnswerFits, Moves, BeforeContainer, At, Kinds, Agent, Verifier
  <2> QED
    BY <1>2, <2>1, <2>2 DEF Kinds
<1>3. CASE reply[q] \in Kinds /\ reply'[q] = reply[q]
  BY <1>3 DEF AnswerFits
<1> QED
  BY <1>1, <1>2, <1>3

\* A step of a handler or of the engine signs nothing and closes nothing.
LEMMA SilentKeeps ==
    ASSUME NEW q \in Run, RunInv(q), CloseInv(q), Moves(q),
           UNCHANGED callVars, UNCHANGED <<closers, signed>>,
           \/ reply'[q] = reply[q]
           \/ /\ reply[q] \in Kinds /\ reply'[q] \in {"ok", "error"}
              /\ handler'[<<q, reply[q]>>] = "idle"
    PROVE  CloseInv(q)'
<1> USE DEF callVars
<1>1. AnswerFits(q)'
  BY AnsweredKeeps DEF CloseInv
<1>2. reply[q] \in Kinds => phase[q] \in {"agent", "verifier"} /\ reply[q] # "closure"
  BY DEF RunInv, ReplyFits, Kinds
<1>3. RecordFits(q)'
  BY <1>2 DEF CloseInv, RecordFits, AttestedAll
<1>4. ASSUME NEW h \in closers', h.run = q
      PROVE  LiveFits(h)' /\ ReconcilerFits(h)'
  <2>1. LiveFits(h) /\ ReconcilerFits(h)
    BY <1>4 DEF CloseInv
  <2>2. LiveFits(h)'
    BY <1>2, <1>4, <2>1 DEF LiveFits
  <2>3. ReconcilerFits(h)'
    BY <1>4, <2>1, CleanStays DEF ReconcilerFits
  <2> QED
    BY <2>2, <2>3
<1>5. ASSUME NEW a \in signed', a.run = q
      PROVE  ReconciliationFits(a)'
  <2>1. ReconciliationFits(a)
    BY <1>5 DEF CloseInv
  <2> QED
    BY <1>5, <2>1, CleanStays DEF ReconciliationFits
<1> QED
  BY <1>1, <1>3, <1>4, <1>5 DEF CloseInv

\* What a handler tells the gate runner when it ends.
LEMMA HandlerAnswers ==
    ASSUME TypeOK, NEW r \in Run, AgentStep(r) \/ VerifierStep(r), NEW q \in Run
    PROVE  /\ UNCHANGED <<closers, signed>>
           /\ \/ reply'[q] = reply[q]
              \/ /\ reply[q] \in Kinds /\ reply'[q] \in {"ok", "error"}
                 /\ handler'[<<q, reply[q]>>] = "idle"
<1>1. /\ UNCHANGED <<closers, signed>>
      /\ \/ reply' = reply
         \/ \E k \in Kinds, outcome \in {"ok", "error"} :
              Goto(<<r, k>>, "idle") /\ Answer(r, k, outcome)
  <2> USE DEF Agent, Verifier, Kinds
  <2>1. CASE BeginAgent(r)
    BY <2>1 DEF BeginAgent, Fails
  <2>2. CASE SpawnAgent(r)
    BY <2>2 DEF SpawnAgent
  <2>3. CASE AgentNeverStarts(r)
    BY <2>3 DEF AgentNeverStarts, Fails
  <2>4. CASE \E gone \in BOOLEAN, outcome \in {"ok", "error"} : SettleAgent(r, gone, outcome)
    BY <2>4 DEF SettleAgent
  <2>5. CASE BeginVerifier(r)
    BY <2>5 DEF BeginVerifier, Fails
  <2>6. CASE SpawnVerifier(r)
    BY <2>6 DEF SpawnVerifier, VerifierReturns
  <2>7. CASE VerifierNeverStarts(r)
    BY <2>7 DEF VerifierNeverStarts, VerifierReturns, Fails
  <2>8. CASE \E gone \in BOOLEAN, outcome \in {"ok", "error"} :
               SettleVerifier(r, gone, outcome)
    BY <2>8 DEF SettleVerifier, VerifierReturns
  <2> QED
    BY <2>1, <2>2, <2>3, <2>4, <2>5, <2>6, <2>7, <2>8 DEF AgentStep, VerifierStep
<1>2. ASSUME NEW k \in Kinds, NEW outcome \in {"ok", "error"},
             Goto(<<r, k>>, "idle"), Answer(r, k, outcome)
      PROVE  \/ reply'[q] = reply[q]
             \/ /\ reply[q] \in Kinds /\ reply'[q] \in {"ok", "error"}
                /\ handler'[<<q, reply[q]>>] = "idle"
  <2>1. CASE q = r /\ reply[r] = k
    BY <1>2, <2>1 DEF TypeOK, Goto, Answer, Container
  <2>2. CASE ~(q = r /\ reply[r] = k)
    BY <1>2, <2>2 DEF TypeOK, Answer
  <2> QED
    BY <2>1, <2>2
<1> QED
  BY <1>1, <1>2

LEMMA HandlersClose ==
    ASSUME TypeOK, UNCHANGED callVars,
           \/ \E r \in Run : AgentStep(r) \/ VerifierStep(r)
           \/ \E c \in Container : EngineStep(c),
           NEW q \in Run, RunInv(q), CloseInv(q)
    PROVE  CloseInv(q)'
<1>1. CASE \E r \in Run : AgentStep(r) \/ VerifierStep(r)
  <2>1. Moves(q)
    BY <1>1, AgentMoves, VerifierMoves
  <2> QED
    BY <1>1, <2>1, HandlerAnswers, SilentKeeps
<1>2. CASE \E c \in Container : EngineStep(c)
  <2>1. Moves(q)
    BY <1>2, EngineMoves
  <2>2. UNCHANGED <<closers, signed, reply>>
    BY <1>2 DEF EngineStep, Attach, ContainerEnds, CliCloses, volatile
  <2> QED
    BY <2>1, <2>2, SilentKeeps
<1> QED
  BY <1>1, <1>2

\* A kill takes every handler, every closer and every call with it.
LEMMA KillCloses ==
    ASSUME TypeOK, Kill, UNCHANGED callVars, NEW q \in Run, RunInv(q), CloseInv(q)
    PROVE  CloseInv(q)'
<1>1. Moves(q)
  BY KillMoves
<1>2. /\ closers' = {} /\ signed' = signed /\ UNCHANGED <<phase, recorded, abandoned>>
      /\ reply'[q] = IF reply[q] \in Calls THEN "error" ELSE reply[q]
      /\ \A k \in Kinds : handler'[<<q, k>>] = "idle"
  BY DEF Kill, callVars, Container
<1>3. AnswerFits(q)'
  BY <1>2 DEF AnswerFits, BeforeContainer, At
<1>4. RecordFits(q)'
  BY <1>2 DEF CloseInv, RecordFits, AttestedAll
<1>5. ASSUME NEW a \in signed', a.run = q
      PROVE  ReconciliationFits(a)'
  <2>1. ReconciliationFits(a)
    BY <1>2, <1>5 DEF CloseInv
  <2> QED
    BY <1>1, <1>2, <1>5, <2>1, CleanStays DEF ReconciliationFits
<1> QED
  BY <1>2, <1>3, <1>4, <1>5 DEF CloseInv

\* Nothing of a recorded run is still to come.
LEMMA DoneIsSettled ==
    ASSUME TypeOK, NEW q \in Run, RunInv(q), CloseInv(q), phase[q] = "done", q \notin abandoned
    PROVE  Settled(q)
<1>1. PICK a \in signed : a.run = q /\ a.scope = "ALL"
  BY DEF CloseInv, RecordFits, AttestedAll
<1>2. a.method \in {"teardown", "reconcile"}
  BY DEF TypeOK
<1>3. CASE a.method = "teardown"
  BY <1>1, <1>3 DEF RunInv, AttestationFits, KindsOf, Gone, Settled
<1>4. CASE a.method = "reconcile"
  BY <1>1, <1>4 DEF CloseInv, ReconciliationFits, Clean
<1> QED
  BY <1>2, <1>3, <1>4

\* cancel has waited for the one container it may have to wait for.
LEMMA CancelSettles ==
    ASSUME TypeOK, NEW h \in closers, RunInv(h.run), CloseInv(h.run), CancelStep(h),
           h.run \in Run, h.method = "reconcile", h.run \notin abandoned
    PROVE  Settled(h.run)
<1> DEFINE q == h.run
<1>1. phase[q] \in {"reconciling", "done"}
  BY DEF CloseInv, ReconcilerFits
<1>2. CASE phase[q] = "done"
  BY <1>2, DoneIsSettled
<1>3. CASE phase[q] = "reconciling"
  <2>1. \A k \in Kinds : ~BeforeContainer(<<q, k>>)
    BY <1>3 DEF CloseInv, AnswerFits, RunInv, ReplyFits, Kinds
  <2>2. active = q => handler[Agent(q)] \notin {"launching", "attached"}
    BY DEF CancelStep
  <2> QED
    BY <2>1, <2>2 DEF BeforeContainer, At, Settled, Agent, Kinds
<1> QED
  BY <1>1, <1>2, <1>3

\* A closer goes one step on: it stays the only one that is waited for.
LEMMA AdvanceCloses ==
    ASSUME TypeOK, NEW h \in closers, h \in ClosersType, NEW pc, Advance(h, pc), UNCHANGED callVars,
           UNCHANGED <<signed, reply>>, NEW q \in Run, RunInv(q), CloseInv(q), Moves(q),
           h.run = q /\ h.method = "reconcile" /\ q \notin abandoned =>
             /\ Settled(q)'
             /\ pc = "close" => Clean(q)'
    PROVE  CloseInv(q)'
<1> USE DEF callVars
<1>g. PICK g : g = [h EXCEPT !.pc = pc]
  OBVIOUS
<1>0. /\ closers' = (closers \ {h}) \cup {g}
      /\ g.run = h.run /\ g.method = h.method /\ g.scope = h.scope /\ g.live = h.live /\ g.pc = pc
  BY <1>g DEF Advance, ClosersType
<1>1. AnswerFits(q)'
  BY AnsweredKeeps DEF CloseInv
<1>2. RecordFits(q)'
  BY DEF CloseInv, RecordFits, AttestedAll
<1>3. ASSUME NEW f \in closers', f.run = q
      PROVE  LiveFits(f)' /\ ReconcilerFits(f)'
  <2>1. CASE f \in closers /\ f # h
    <3>1. LiveFits(f) /\ ReconcilerFits(f)
      BY <1>3, <2>1 DEF CloseInv
    <3>2. LiveFits(f)'
      BY <1>0, <2>1, <3>1 DEF LiveFits
    <3>3. ReconcilerFits(f)'
      BY <1>3, <3>1, CleanStays DEF ReconcilerFits
    <3> QED
      BY <3>2, <3>3
  <2>2. CASE f = g
    <3>1. LiveFits(h) /\ ReconcilerFits(h)
      BY <1>0, <1>3, <2>2 DEF CloseInv
    <3>2. LiveFits(g)'
      BY <1>0, <3>1 DEF LiveFits
    <3>3. ReconcilerFits(g)'
      BY <1>0, <1>3, <2>2, <3>1 DEF ReconcilerFits
    <3> QED
      BY <2>2, <3>2, <3>3
  <2> QED
    BY <1>0, <2>1, <2>2
<1>4. ASSUME NEW a \in signed', a.run = q
      PROVE  ReconciliationFits(a)'
  <2>1. ReconciliationFits(a)
    BY <1>4 DEF CloseInv
  <2> QED
    BY <1>4, <2>1, CleanStays DEF ReconciliationFits
<1> QED
  BY <1>1, <1>2, <1>3, <1>4 DEF CloseInv

LEMMA ClosersAdvance ==
    ASSUME TypeOK, NEW h \in closers, h \in ClosersType, RunInv(h.run), CloseInv(h.run),
           UNCHANGED callVars, NEW q \in Run, RunInv(q), CloseInv(q),
           \/ TeardownStep(h) \/ CancelStep(h) \/ QueryStep(h)
           \/ \E removed \in SUBSET (Bound(h) \cap containers) : RemoveStep(h, removed)
    PROVE  CloseInv(q)'
<1>0. Moves(q)
  BY CloserMoves DEF CloserStep
<1>1. CASE TeardownStep(h)
  <2>1. h.method # "reconcile"
    BY <1>1 DEF TeardownStep, RunInv, CloserFits
  <2> QED
    BY <1>0, <1>1, <2>1, AdvanceCloses DEF TeardownStep
<1>2. CASE CancelStep(h)
  <2>1. h.run = q /\ h.method = "reconcile" /\ q \notin abandoned => Settled(q)'
    BY <1>0, <1>2, CancelSettles, CleanStays
  <2> QED
    BY <1>0, <1>2, <2>1, AdvanceCloses DEF CancelStep
<1>3. CASE QueryStep(h)
  <2>1. h.run = q /\ h.method = "reconcile" /\ q \notin abandoned => Clean(q)
    BY <1>3 DEF QueryStep, CloseInv, ReconcilerFits, Clean, Bound, KindsOf
  <2>2. Clean(q) => Clean(q)' /\ Settled(q)'
    BY <1>0, CleanStays DEF Clean
  <2> QED
    BY <1>0, <1>3, <2>1, <2>2, AdvanceCloses DEF QueryStep
<1>4. CASE \E removed \in SUBSET (Bound(h) \cap containers) : RemoveStep(h, removed)
  <2>1. h.run = q /\ h.method = "reconcile" /\ q \notin abandoned => Settled(q)'
    BY <1>0, <1>4, CleanStays DEF RemoveStep, CloseInv, ReconcilerFits
  <2> QED
    BY <1>0, <1>4, <2>1, AdvanceCloses DEF RemoveStep
<1> QED
  BY <1>1, <1>2, <1>3, <1>4

\* A closer ends: by what it signs, if it does, its answer is justified.
LEMMA EndCloses ==
    ASSUME TypeOK, NEW h \in closers, h \in ClosersType, RunInv(h.run), CloseInv(h.run),
           UNCHANGED callVars, NEW q \in Run, RunInv(q), CloseInv(q),
           CloseStep(h) \/ CloserFails(h)
    PROVE  CloseInv(q)'
<1> DEFINE b == [run |-> h.run, scope |-> h.scope, method |-> h.method]
<1>0. /\ Moves(q) /\ closers' = closers \ {h}
      /\ UNCHANGED <<containers, handler, phase, recorded, abandoned>>
      /\ CloseStep(h) => h.pc = "close" /\ signed' = signed \cup {b}
      /\ CloserFails(h) => signed' = signed
  BY CloserMoves DEF CloserStep, CloseStep, CloserFails, Ends, callVars
<1>1. \/ reply'[q] = reply[q]
      \/ /\ h.run = q /\ h.live /\ reply[q] = "closure"
         /\ \/ reply'[q] = "ok" /\ CloseStep(h)
            \/ reply'[q] = "error"
  BY DEF CloseStep, CloserFails, Ends, Answer, TypeOK, ClosersType
<1>2. AnswerFits(q)'
  BY <1>0, <1>1, AnsweredKeeps DEF CloseInv, Kinds
<1>3. RecordFits(q)'
  <2>1. AttestedAll(q) => AttestedAll(q)'
    BY <1>0 DEF AttestedAll
  <2>2. CASE reply'[q] = reply[q] \/ reply'[q] = "error"
    BY <1>0, <2>1, <2>2 DEF CloseInv, RecordFits
  <2>3. CASE h.run = q /\ h.live /\ CloseStep(h)
    <3>1. phase[q] \in {"all_closing", "reconciling"} => h.scope = "ALL"
      BY <2>3 DEF CloseInv, LiveFits
    <3>2. b \in signed' /\ b.run = q /\ b.scope = h.scope
      BY <1>0, <2>3
    <3> QED
      BY <1>0, <2>1, <3>1, <3>2 DEF CloseInv, RecordFits, AttestedAll
  <2> QED
    BY <1>1, <2>2, <2>3
<1>4. ASSUME NEW f \in closers', f.run = q
      PROVE  LiveFits(f)' /\ ReconcilerFits(f)'
  <2>1. LiveFits(f) /\ ReconcilerFits(f) /\ f # h
    BY <1>0, <1>4 DEF CloseInv
  <2>2. f.live => ~(h.run = q /\ h.live)
    BY <1>0, <1>4, <2>1 DEF LiveFits
  <2>3. LiveFits(f)'
    BY <1>0, <1>1, <1>4, <2>1, <2>2 DEF LiveFits
  <2>4. ReconcilerFits(f)'
    BY <1>0, <1>4, <2>1, CleanStays DEF ReconcilerFits
  <2> QED
    BY <2>3, <2>4
<1>5. ASSUME NEW a \in signed', a.run = q
      PROVE  ReconciliationFits(a)'
  <2>1. CASE a \in signed
    <3>1. ReconciliationFits(a)
      BY <1>5, <2>1 DEF CloseInv
    <3> QED
      BY <1>0, <1>5, <3>1, CleanStays DEF ReconciliationFits
  <2>2. CASE a \notin signed
    <3>1. a = b /\ h.run = q /\ h.pc = "close" /\ a.method = h.method /\ a.scope = h.scope
      BY <1>0, <1>5, <2>2
    <3>2. ReconcilerFits(h)
      BY <3>1 DEF CloseInv
    <3> QED
      BY <1>0, <1>5, <3>1, <3>2, CleanStays DEF ReconcilerFits, ReconciliationFits
  <2> QED
    BY <2>1, <2>2
<1> QED
  BY <1>2, <1>3, <1>4, <1>5 DEF CloseInv

----------------------------------------------------------------------------
(* The same for the calls of the gate runner. *)

\* A call about another run.
LEMMA OthersClose ==
    ASSUME NEW q \in Run, RunInv(q), CloseInv(q), phase'[q] = phase[q], reply'[q] = reply[q],
           abandoned \subseteq abandoned', q \in recorded' => q \in recorded,
           UNCHANGED <<containers, signed>>,
           \A k \in Kinds : handler'[<<q, k>>] = handler[<<q, k>>],
           \A h \in closers' : h.run = q => h \in closers,
           AnswerFits(q)'
    PROVE  CloseInv(q)'
<1>1. RecordFits(q)'
  BY DEF CloseInv, RecordFits, AttestedAll
<1>2. (Settled(q) => Settled(q)') /\ (Clean(q) => Clean(q)')
  BY DEF Settled, Clean
<1>3. ASSUME NEW h \in closers', h.run = q
      PROVE  LiveFits(h)' /\ ReconcilerFits(h)'
  <2>1. LiveFits(h) /\ ReconcilerFits(h) /\ h \in closers
    BY <1>3 DEF CloseInv
  <2> QED
    BY <1>2, <1>3, <2>1 DEF LiveFits, ReconcilerFits
<1>4. ASSUME NEW a \in signed', a.run = q
      PROVE  ReconciliationFits(a)'
  <2>1. ReconciliationFits(a)
    BY <1>4 DEF CloseInv
  <2> QED
    BY <1>2, <1>4, <2>1 DEF ReconciliationFits
<1> QED
  BY <1>1, <1>3, <1>4 DEF CloseInv

LEMMA LaunchCloses ==
    ASSUME TypeOK, NEW r \in Run, StartRun(r) \/ Verify(r),
           NEW q \in Run, RunInv(q), CloseInv(q)
    PROVE  CloseInv(q)'
<1> USE DEF Goto, EnterPhase, Heard, Launch, Container, Kinds
<1>1. /\ UNCHANGED <<containers, active, closers, signed, recorded, abandoned>>
      /\ \A p \in Run \ {r} : reply'[p] = reply[p] /\ phase'[p] = phase[p]
      /\ \A p \in Run \ {r}, k \in Kinds : handler'[<<p, k>>] = handler[<<p, k>>]
      /\ reply'[r] \in Kinds
  BY DEF StartRun, Verify, TypeOK, Agent, Verifier
<1>2. CASE q # r
  <2>1. AnswerFits(q)'
    <3>1. CASE StartRun(r)
      BY <1>1, <1>2, <3>1 DEF StartRun, AnswerFits
    <3>2. CASE Verify(r)
      <4>1. \A p \in Run : handler'[Agent(p)] = handler[Agent(p)]
        BY <3>2 DEF Verify, TypeOK, Agent, Verifier
      <4>2. AnswerFits(q)
        BY DEF CloseInv
      <4>3. handler'[Verifier(q)] = handler[Verifier(q)]
        BY <1>1, <1>2 DEF Verifier
      <4> QED
        BY <1>1, <1>2, <4>1, <4>2, <4>3 DEF AnswerFits, BeforeContainer, At, Agent, Verifier
    <3> QED
      BY <3>1, <3>2
  <2> QED
    BY <1>1, <1>2, <2>1, OthersClose
<1>3. CASE q = r
  <2>1. /\ phase[r] \in {"idle", "agent_closing"} /\ phase'[r] \in {"agent", "verifier"}
        /\ phase[r] = "agent_closing" => reply[r] = "ok"
    BY DEF StartRun, Verify, TypeOK
  <2>2. AnswerFits(r)'
    BY <1>1 DEF AnswerFits
  <2>3. RecordFits(r)'
    BY <1>1, <1>3, <2>1 DEF CloseInv, RecordFits, AttestedAll
  <2>4. ASSUME NEW h \in closers', h.run = r
        PROVE  LiveFits(h)' /\ ReconcilerFits(h)'
    <3>1. LiveFits(h) /\ ReconcilerFits(h) /\ phase[r] # "idle"
      BY <1>1, <1>3, <2>4 DEF CloseInv, RunInv, Unlaunched
    <3> QED
      BY <1>1, <2>1, <2>4, <3>1 DEF LiveFits, ReconcilerFits
  <2>5. ASSUME NEW a \in signed', a.run = r
        PROVE  ReconciliationFits(a)'
    BY <1>1, <1>3, <2>1, <2>5 DEF CloseInv, ReconciliationFits
  <2> QED
    BY <1>3, <2>2, <2>3, <2>4, <2>5 DEF CloseInv
<1> QED
  BY <1>2, <1>3

LEMMA ClosureCallCloses ==
    ASSUME TypeOK, NEW r \in Run, CloseAgent(r) \/ CloseAll(r) \/ Recover(r) \/ RetryReconcile(r),
           NEW q \in Run, RunInv(q), CloseInv(q)
    PROVE  CloseInv(q)'
<1>1. PICK m, s, p :
        /\ Close(r, m, s) /\ phase' = [phase EXCEPT ![r] = p]
        /\ UNCHANGED <<recorded, abandoned>>
        /\ reply[r] \notin Calls /\ phase[r] \in Pending \cup {"reconciling"}
        /\ \/ m = "teardown" /\ s = "AGENT" /\ p = "agent_closing"
           \/ m = "teardown" /\ s = "ALL" /\ p = "all_closing"
           \/ m = "reconcile" /\ s = "ALL" /\ p = "reconciling"
        /\ phase[r] = "reconciling" => p = "reconciling"
  <2> USE DEF EnterPhase, Heard, Waits, Calls, Kinds, Pending
  <2>1. CASE CloseAgent(r)
    BY <2>1 DEF CloseAgent
  <2>2. CASE CloseAll(r)
    BY <2>2 DEF CloseAll
  <2>3. CASE Recover(r)
    BY <2>3 DEF Recover
  <2>4. CASE RetryReconcile(r)
    BY <2>4 DEF RetryReconcile, callVars, TypeOK
  <2> QED
    BY <2>1, <2>2, <2>3, <2>4
<1>2. /\ UNCHANGED <<containers, handler, active, signed>>
      /\ \A t \in Run \ {r} : reply'[t] = reply[t] /\ phase'[t] = phase[t]
      /\ phase'[r] = p /\ reply'[r] \in {"closure", "error"}
      /\ \A g \in closers' :
           \/ g \in closers
           \/ /\ g = [run |-> r, method |-> m, scope |-> s, live |-> TRUE,
                      pc |-> IF m = "teardown" THEN "observe" ELSE "cancel"]
              /\ reply'[r] = "closure"
  BY <1>1 DEF Close, Begin, TypeOK
<1>3. AnswerFits(q)'
  <2>1. AnswerFits(q)
    BY DEF CloseInv
  <2>2. \A k \in Kinds : BeforeContainer(<<q, k>>)' <=> BeforeContainer(<<q, k>>)
    BY <1>2 DEF BeforeContainer, At
  <2>3. CASE q = r
    BY <1>1, <2>1, <2>2, <2>3 DEF AnswerFits, Pending, Calls
  <2>4. CASE q # r
    BY <1>1, <1>2, <2>1, <2>2, <2>4 DEF AnswerFits
  <2> QED
    BY <2>3, <2>4
<1>4. CASE q # r
  BY <1>1, <1>2, <1>3, <1>4, OthersClose
<1>5. CASE q = r
  <2>1. RecordFits(r)'
    BY <1>1, <1>2, <1>5 DEF CloseInv, RecordFits, AttestedAll
  <2>2. ASSUME NEW f \in closers', f.run = r
        PROVE  LiveFits(f)' /\ ReconcilerFits(f)'
    <3>1. \A h \in closers : h.run = r => ~h.live
      BY <1>1, <1>5 DEF CloseInv, LiveFits, Calls
    <3>2. CASE f \in closers
      <4>1. ReconcilerFits(f)
        BY <1>5, <2>2, <3>2 DEF CloseInv
      <4>2. ReconcilerFits(f)'
        BY <1>1, <1>2, <2>2, <4>1 DEF ReconcilerFits, Clean, Settled, Pending
      <4> QED
        BY <2>2, <3>1, <3>2, <4>2 DEF LiveFits
    <3>3. CASE f \notin closers
      <4>1. /\ f.run = r /\ f.method = m /\ f.scope = s /\ f.live = TRUE
            /\ f.pc = IF m = "teardown" THEN "observe" ELSE "cancel"
            /\ reply'[r] = "closure"
        BY <1>2, <2>2, <3>3
      <4>2. \A g \in closers' : g.live /\ g.run = r => g = f
        BY <1>2, <2>2, <3>1, <3>3
      <4>3. LiveFits(f)'
        BY <1>1, <1>2, <4>1, <4>2 DEF LiveFits
      <4>4. ReconcilerFits(f)'
        BY <1>1, <1>2, <4>1 DEF ReconcilerFits
      <4> QED
        BY <4>3, <4>4
    <3> QED
      BY <3>2, <3>3
  <2>3. ASSUME NEW a \in signed', a.run = r
        PROVE  ReconciliationFits(a)'
    <3>1. ReconciliationFits(a)
      BY <1>2, <1>5, <2>3 DEF CloseInv
    <3> QED
      BY <1>1, <1>2, <2>3, <3>1 DEF ReconciliationFits, Clean, Settled, Pending
  <2> QED
    BY <1>3, <1>5, <2>1, <2>2, <2>3 DEF CloseInv
<1> QED
  BY <1>4, <1>5

LEMMA RecordAllCloses ==
    ASSUME TypeOK, NEW r \in Run, RecordAll(r), NEW q \in Run, RunInv(q), CloseInv(q)
    PROVE  CloseInv(q)'
<1>1. /\ UNCHANGED <<containers, handler, active, closers, signed, reply, abandoned>>
      /\ recorded' = recorded \cup {r} /\ phase' = [phase EXCEPT ![r] = "done"]
      /\ phase[r] \in {"all_closing", "reconciling"} /\ reply[r] = "ok"
  BY DEF RecordAll, Heard, EnterPhase, brokerVars, volatile
<1>2. AnswerFits(q)'
  BY <1>1 DEF CloseInv, AnswerFits, BeforeContainer, At, TypeOK
<1>3. CASE q # r
  BY <1>1, <1>2, <1>3, OthersClose DEF TypeOK
<1>4. CASE q = r
  <2>1. phase'[r] = "done"
    BY <1>1 DEF TypeOK
  <2>2. RecordFits(r)'
    BY <1>1, <1>4, <2>1 DEF CloseInv, RecordFits, AttestedAll
  <2>3. ASSUME NEW h \in closers', h.run = r
        PROVE  LiveFits(h)' /\ ReconcilerFits(h)'
    <3>1. LiveFits(h) /\ ReconcilerFits(h)
      BY <1>1, <1>4, <2>3 DEF CloseInv
    <3> QED
      BY <1>1, <2>1, <2>3, <3>1 DEF LiveFits, ReconcilerFits, Clean, Settled
  <2>4. ASSUME NEW a \in signed', a.run = r
        PROVE  ReconciliationFits(a)'
    <3>1. ReconciliationFits(a)
      BY <1>1, <1>4, <2>4 DEF CloseInv
    <3> QED
      BY <1>1, <2>1, <2>4, <3>1 DEF ReconciliationFits, Clean, Settled
  <2> QED
    BY <1>2, <1>4, <2>2, <2>3, <2>4 DEF CloseInv
<1> QED
  BY <1>3, <1>4

\* A caller that gives up: its closers run on unheard, and a run whose container
\* a reconciliation could miss is abandoned.
LEMMA LossCloses ==
    ASSUME TypeOK, NEW r \in Run, LoseReply(r), NEW q \in Run, RunInv(q), CloseInv(q)
    PROVE  CloseInv(q)'
<1>1. /\ UNCHANGED <<containers, handler, active, signed, phase, recorded>>
      /\ reply' = [reply EXCEPT ![r] = "error"]
      /\ closers' = {IF h.run = r THEN [h EXCEPT !.live = FALSE] ELSE h : h \in closers}
      /\ abandoned' = IF \E k \in Kinds : BeforeContainer(<<r, k>>)
                      THEN abandoned \cup {r} ELSE abandoned
  BY DEF LoseReply
<1>2. AnswerFits(q)'
  BY <1>1 DEF CloseInv, AnswerFits, BeforeContainer, At, TypeOK
<1>3. CASE q # r
  <2>1. \A h \in closers' : h.run = q => h \in closers
    <3>1. ASSUME NEW h \in closers', h.run = q
          PROVE  h \in closers
      <4>1. PICK f \in closers : h = IF f.run = r THEN [f EXCEPT !.live = FALSE] ELSE f
        BY <1>1, <3>1
      <4>2. f \in ClosersType
        BY DEF TypeOK
      <4> QED
        BY <1>3, <3>1, <4>1, <4>2 DEF ClosersType
    <3> QED
      BY <3>1
  <2> QED
    BY <1>1, <1>2, <1>3, <2>1, OthersClose DEF TypeOK
<1>4. CASE q = r
  <2>0. reply'[r] = "error"
    BY <1>1 DEF TypeOK
  <2>1. RecordFits(r)'
    BY <1>1, <1>4, <2>0 DEF CloseInv, RecordFits, AttestedAll
  <2>2. ASSUME NEW h \in closers', h.run = r
        PROVE  LiveFits(h)' /\ ReconcilerFits(h)'
    <3>1. PICK f \in closers : h = IF f.run = r THEN [f EXCEPT !.live = FALSE] ELSE f
      BY <1>1, <2>2
    <3>2. f \in ClosersType
      BY DEF TypeOK
    <3>3. /\ f.run = r /\ h.live = FALSE
          /\ h.method = f.method /\ h.scope = f.scope /\ h.pc = f.pc
      BY <2>2, <3>1, <3>2 DEF ClosersType
    <3>4. ReconcilerFits(f)
      BY <1>4, <3>3 DEF CloseInv
    <3>5. ReconcilerFits(h)'
      BY <1>1, <2>2, <3>3, <3>4 DEF ReconcilerFits, Clean, Settled
    <3> QED
      BY <3>3, <3>5 DEF LiveFits
  <2>3. ASSUME NEW a \in signed', a.run = r
        PROVE  ReconciliationFits(a)'
    <3>1. ReconciliationFits(a)
      BY <1>1, <1>4, <2>3 DEF CloseInv
    <3> QED
      BY <1>1, <3>1 DEF ReconciliationFits, Clean, Settled
  <2> QED
    BY <1>2, <1>4, <2>1, <2>2, <2>3 DEF CloseInv
<1> QED
  BY <1>3, <1>4

\* Neither a step that changes nothing nor an abort matters.
LEMMA UnmovedCloses ==
    ASSUME NEW q \in Run, RunInv(q), CloseInv(q), UNCHANGED callVars,
           UNCHANGED <<containers, handler, active, closers, signed, reply>>
    PROVE  CloseInv(q)'
<1>1. AnswerFits(q)'
  BY DEF CloseInv, AnswerFits, BeforeContainer, At, callVars
<1> QED
  BY <1>1, OthersClose DEF callVars

----------------------------------------------------------------------------
(* The induction. *)

LEMMA InitFits == Init => BrokerInv
BY DEF Init, BrokerInit, BrokerInv, RunInv, Unlaunched, RecordsFollow, AgentFirst,
       VerifierAnswered, ReplyFits, Gone, Agent, Verifier, Container, Kinds

LEMMA CloserKeeps ==
    ASSUME TypeOK, BrokerInv, NEW h \in closers, CloserStep(h), UNCHANGED callVars
    PROVE  BrokerInv'
<1>1. RunInv(h.run) /\ CloserFits(h)
  BY DEF TypeOK, ClosersType, BrokerInv, RunInv
<1>2. ASSUME NEW q \in Run
      PROVE  RunInv(q)'
  <2>1. RunInv(q)
    BY DEF BrokerInv
  <2>2. CASE TeardownStep(h)
    BY <1>1, <2>1, <2>2, TeardownKeeps
  <2>3. CASE CloseStep(h)
    BY <1>1, <2>1, <2>3, CloseKeeps
  <2>4. CASE \/ CancelStep(h) \/ QueryStep(h) \/ CloserFails(h)
             \/ \E removed \in SUBSET (Bound(h) \cap containers) : RemoveStep(h, removed)
    <3>1. Quiet(q)
      BY <1>1, <2>4, QuietReconciliation
    <3> QED
      BY <2>1, <3>1, QuietKeeps
  <2> QED
    BY <2>2, <2>3, <2>4 DEF CloserStep
<1> QED
  BY <1>2 DEF BrokerInv

LEMMA HandlerKeeps ==
    ASSUME TypeOK, BrokerInv, NEW r \in Run, AgentStep(r) \/ VerifierStep(r), UNCHANGED callVars
    PROVE  BrokerInv'
<1>1. ASSUME NEW q \in Run
      PROVE  RunInv(q)'
  <2>1. RunInv(q)
    BY DEF BrokerInv
  <2>2. CASE \/ BeginAgent(r) \/ SpawnAgent(r) \/ AgentNeverStarts(r)
             \/ BeginVerifier(r) \/ VerifierNeverStarts(r)
    BY <2>1, <2>2, QuietHandlers, QuietKeeps
  <2>3. CASE \E gone \in BOOLEAN, outcome \in {"ok", "error"} : SettleAgent(r, gone, outcome)
    BY <2>1, <2>3, SettleAgentKeeps
  <2>4. CASE \/ SpawnVerifier(r)
             \/ \E gone \in BOOLEAN, outcome \in {"ok", "error"} :
                  SettleVerifier(r, gone, outcome)
    BY <2>1, <2>4, VerifierKeeps
  <2> QED
    BY <2>2, <2>3, <2>4 DEF AgentStep, VerifierStep
<1> QED
  BY <1>1 DEF BrokerInv

LEMMA CallKeeps ==
    ASSUME TypeOK, BrokerInv, NEW r \in Run,
           StartRun(r) \/ CallStep(r) \/ Cancel(r) \/ LoseReply(r)
    PROVE  BrokerInv'
<1>1. ASSUME NEW q \in Run
      PROVE  RunInv(q)'
  <2>1. RunInv(q) /\ RunInv(r)
    BY DEF BrokerInv
  <2>2. CASE StartRun(r) \/ Verify(r) \/ RecordAll(r)
    BY <2>1, <2>2, LaunchCallKeeps
  <2>3. CASE CloseAgent(r) \/ CloseAll(r) \/ Recover(r) \/ RetryReconcile(r)
    BY <2>1, <2>3, ClosureCallKeeps
  <2>4. CASE Cancel(r) \/ LoseReply(r)
    BY <2>1, <2>4, QuietLosses, QuietKeeps
  <2> QED
    BY <2>2, <2>3, <2>4 DEF CallStep
<1> QED
  BY <1>1 DEF BrokerInv

LEMMA StepKeeps ==
    ASSUME TypeOK, BrokerInv, [Next]_vars
    PROVE  BrokerInv'
<1>1. ASSUME NEW c \in Container, EngineStep(c), UNCHANGED callVars
      PROVE  BrokerInv'
  BY <1>1, QuietEngine, QuietKeeps DEF BrokerInv
<1>2. CASE Kill /\ UNCHANGED callVars
  BY <1>2, KillKeeps DEF BrokerInv
<1>3. CASE BrokerNext /\ UNCHANGED callVars
  BY <1>1, <1>2, <1>3, HandlerKeeps, CloserKeeps DEF BrokerNext
<1>4. CASE UNCHANGED vars
  <2>1. ASSUME NEW q \in Run
        PROVE  Quiet(q)
    BY <1>4 DEF Quiet, vars, brokerVars, volatile, callVars
  <2> QED
    BY <2>1, QuietKeeps DEF BrokerInv
<1> QED
  BY <1>3, <1>4, CallKeeps DEF Next

LEMMA InitRecords == Init => RecordInv
BY DEF Init, BrokerInit, RecordInv, CloseInv, AnswerFits, RecordFits

LEMMA StepRecords ==
    ASSUME TypeOK, BrokerInv, RecordInv, [Next]_vars
    PROVE  RecordInv'
<1>1. ASSUME NEW q \in Run
      PROVE  CloseInv(q)'
  <2>1. RunInv(q) /\ CloseInv(q)
    BY DEF BrokerInv, RecordInv
  <2>2. CASE BrokerNext /\ UNCHANGED callVars
    <3>1. ASSUME NEW h \in closers, CloserStep(h)
          PROVE  CloseInv(q)'
      <4>1. h \in ClosersType /\ h.run \in Run
        BY DEF TypeOK, ClosersType
      <4>2. RunInv(h.run) /\ CloseInv(h.run)
        BY <4>1 DEF BrokerInv, RecordInv
      <4> QED
        BY <2>1, <2>2, <3>1, <4>1, <4>2, ClosersAdvance, EndCloses DEF CloserStep
    <3> QED
      BY <2>1, <2>2, <3>1, HandlersClose, KillCloses DEF BrokerNext
  <2>3. ASSUME NEW r \in Run, StartRun(r) \/ CallStep(r) \/ Cancel(r) \/ LoseReply(r)
        PROVE  CloseInv(q)'
    <3>1. CASE StartRun(r) \/ Verify(r)
      BY <2>1, <3>1, LaunchCloses
    <3>2. CASE CloseAgent(r) \/ CloseAll(r) \/ Recover(r) \/ RetryReconcile(r)
      BY <2>1, <3>2, ClosureCallCloses
    <3>3. CASE RecordAll(r)
      BY <2>1, <3>3, RecordAllCloses
    <3>4. CASE Cancel(r)
      BY <2>1, <3>4, UnmovedCloses DEF Cancel
    <3>5. CASE LoseReply(r)
      BY <2>1, <3>5, LossCloses
    <3> QED
      BY <2>3, <3>1, <3>2, <3>3, <3>4, <3>5 DEF CallStep
  <2>4. CASE UNCHANGED vars
    BY <2>1, <2>4, UnmovedCloses DEF vars, brokerVars, volatile
  <2> QED
    BY <2>2, <2>3, <2>4 DEF Next
<1> QED
  BY <1>1 DEF RecordInv

\* The inductive invariant holds for any number of runs, kills and lost answers.
THEOREM BrokerInvariance == Spec => []Inductive
<1>1. Init => BrokerInv /\ RecordInv
  BY InitFits, InitRecords
<1>2. TypeOK /\ BrokerInv /\ RecordInv /\ [Next]_vars => (BrokerInv /\ RecordInv)'
  BY StepKeeps, StepRecords
<1>3. Spec => [](TypeOK /\ BrokerInv /\ RecordInv)
  BY BrokerTypeCorrect, <1>1, <1>2, PTL DEF Spec
<1>4. TypeOK /\ BrokerInv /\ RecordInv => Inductive
  BY DEF Inductive
<1> QED
  BY <1>3, <1>4, PTL

\* Whatever is killed, lost, given up or answered late: a teardown attestation
\* is true when the Broker signs it and for ever after.
THEOREM TeardownsHold == Spec => []TeardownHolds
<1>1. Inductive => TeardownHolds
  <2>1. ASSUME BrokerInv, TypeOK, NEW a \in signed, a.method = "teardown"
        PROVE  Covers(a) \cap containers = {}
    BY <2>1 DEF BrokerInv, RunInv, AttestationFits, TypeOK, Gone, Covers
  <2> QED
    BY <2>1 DEF TeardownHolds, Inductive
<1> QED
  BY BrokerInvariance, <1>1, PTL

\* What the Worker destroys artifacts on was attested by the Broker and is true:
\* a reconciliation's word too, of every run whose container existed, or would
\* have been waited for, when its caller gave up.
THEOREM RecordsAreTrue == Spec => []RecordsHold
<1>1. Inductive => RecordsHold
  <2>1. ASSUME Inductive, NEW a \in signed, a.method = "reconcile", a.run \notin abandoned
        PROVE  Covers(a) \cap containers = {}
    <3>1. a.run \in Run
      BY <2>1 DEF Inductive, TypeOK
    <3>2. Clean(a.run) /\ a.scope = "ALL"
      BY <2>1, <3>1 DEF Inductive, RecordInv, CloseInv, ReconciliationFits
    <3> QED
      BY <3>2 DEF Clean, Covers, KindsOf
  <2>2. Inductive => RecordedIsAttested
    BY DEF Inductive, TypeOK, RecordInv, CloseInv, RecordFits, AttestedAll, RecordedIsAttested
  <2> QED
    BY <2>1, <2>2 DEF RecordsHold, ReconciliationHolds
<1> QED
  BY BrokerInvariance, <1>1, PTL

\* No verifier ever runs beside the Agent it judges, not even one that the gate
\* runner has given up or the Broker has forgotten.
THEOREM VerifierAlone == Spec => []Exclusive
<1>1. Inductive => Exclusive
  BY DEF Inductive, BrokerInv, RunInv, AgentFirst, Gone, Exclusive
<1> QED
  BY BrokerInvariance, <1>1, PTL
=============================================================================
