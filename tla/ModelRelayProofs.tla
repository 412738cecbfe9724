-------------------------- MODULE ModelRelayProofs --------------------------
(* That a capability once revoked is never used again, for any runs,         *)
(* requests and number of restarts.                                          *)
EXTENDS ModelRelay, TLAPS

(* The parts of the state each step disturbs on its own. *)
RegistryType ==
    /\ active \cup revoked \cup expired \cup held \cup acked \subseteq Run
    /\ models \in [Run -> [model : Model \cup {None}, conflicted : BOOLEAN]]
    /\ said \in [Run -> SUBSET Model] /\ restarts \in 0..MaxRestarts
RunnerType ==
    /\ pc \in [Run -> Stages]
    /\ teardown \in [Run -> [revoked : BOOLEAN, model : Model \cup {None}]]

LEMMA TypeParts ==
    TypeOK <=> /\ RegistryType /\ RunnerType /\ requests \in [Request -> RequestRecords]
               /\ calls \subseteq CallRecords
  BY DEF TypeOK, RegistryType, RunnerType

LEMMA InitRelayInv == Init => RelayInv
  BY ModelRelayAssumption
     DEF Init, RelayInv, TypeOK, NoModel, NoRequest, NoTeardown, RequestRecords, Stages

(* A new call has the type of a call. *)
LEMMA CallType == ASSUME NEW r \in Run, NEW k \in {"activate", "revoke"}
                  PROVE  Call(r, k) \in CallRecords
  BY DEF Call, CallRecords

(* Every step leaves calls that are calls. *)
LEMMA CallsStep == TypeOK /\ [Next]_vars => (calls \subseteq CallRecords)'
<1> SUFFICES ASSUME TypeOK, [Next]_vars PROVE calls' \subseteq CallRecords
  OBVIOUS
<1>0. calls \subseteq CallRecords
  BY DEF TypeOK
<1>1. ASSUME NEW c \in calls, ServeActivate(c) PROVE calls' \subseteq CallRecords
  <2>1. [c EXCEPT !.stage = "done"] \in CallRecords
    BY <1>0 DEF CallRecords
  <2> QED
    BY <1>0, <1>1, <2>1 DEF ServeActivate, Serve
<1>2. ASSUME NEW c \in calls, ServeRevoke(c) PROVE calls' \subseteq CallRecords
  <2>1. Pending(c.run) \subseteq Request /\ Awaited(c.run) \subseteq Request
    BY DEF Pending, Awaited
  <2>2. [c EXCEPT !.stage = "waits", !.awaits = Awaited(c.run), !.owed = Pending(c.run)]
          \in CallRecords
    BY <1>0, <2>1 DEF CallRecords
  <2> QED
    BY <1>0, <1>2, <2>2 DEF ServeRevoke, Serve
<1>3. ASSUME NEW c \in calls, AnswerRevoke(c) PROVE calls' \subseteq CallRecords
  <2>1. ResolvedModel(c.run) \in Model \cup {None}
    BY <1>0 DEF ResolvedModel, TypeOK, CallRecords
  <2>2. [c EXCEPT !.stage = "done", !.model = ResolvedModel(c.run),
                  !.timedOut = (c.awaits # {}), !.awaits = {}] \in CallRecords
    BY <1>0, <2>1 DEF CallRecords
  <2> QED
    BY <1>0, <1>3, <2>2 DEF AnswerRevoke, Serve
<1>4. ASSUME NEW q \in Request, Finish(q) PROVE calls' \subseteq CallRecords
  <2>1. ASSUME NEW c \in calls
        PROVE  [c EXCEPT !.awaits = @ \ {q}, !.owed = @ \ {q}] \in CallRecords
    BY <1>0 DEF CallRecords
  <2> QED
    BY <1>0, <1>4, <2>1 DEF Finish
<1>5. ASSUME NEW r \in Run, Activate(r) \/ Exit(r) PROVE calls' \subseteq CallRecords
  BY <1>0, <1>5, CallType DEF Activate, Exit
<1>6. ASSUME NEW r \in Run, NotSpawned(r) PROVE calls' \subseteq CallRecords
  BY <1>0, <1>6, CallType DEF NotSpawned, Unheard
<1>7. ASSUME NEW r \in Run, Spawn(r) \/ Revoked(r) PROVE calls' \subseteq CallRecords
  BY <1>0, <1>7 DEF Spawn, Revoked, Unheard
<1>8. CASE RelayRestarts \/ RunnerDies \/ UNCHANGED vars
  BY <1>0, <1>8 DEF RelayRestarts, RunnerDies, vars
<1>9. ASSUME NEW r \in Run, Expire(r) \/ Judge(r) PROVE calls' \subseteq CallRecords
  BY <1>0, <1>9 DEF Expire, Judge
<1>10. ASSUME NEW q \in Request, NEW r \in Run, Forward(q, r) PROVE calls' \subseteq CallRecords
  BY <1>0, <1>10 DEF Forward
<1>11. ASSUME NEW q \in Request, NEW m, Respond(q, m) PROVE calls' \subseteq CallRecords
  BY <1>0, <1>11 DEF Respond
<1> QED
  BY <1>1, <1>2, <1>3, <1>4, <1>5, <1>6, <1>7, <1>8, <1>9, <1>10, <1>11
     DEF Next, Capture, NoIdentity

(* Every step leaves requests that are requests. *)
LEMMA RequestsStep ==
    TypeOK /\ [Next]_vars => (requests \in [Request -> RequestRecords])'
<1> SUFFICES ASSUME TypeOK, [Next]_vars PROVE requests' \in [Request -> RequestRecords]
  OBVIOUS
<1>0. requests \in [Request -> RequestRecords] /\ NoRequest \in RequestRecords
  BY DEF TypeOK, NoRequest, RequestRecords
<1>1. ASSUME NEW q \in Request, NEW r \in Run, Forward(q, r)
      PROVE  requests' \in [Request -> RequestRecords]
  <2>1. [requests[q] EXCEPT !.run = r, !.stage = "forwarded"] \in RequestRecords
    BY <1>0 DEF RequestRecords
  <2> QED
    BY <1>0, <1>1, <2>1 DEF Forward
<1>2. ASSUME NEW q \in Request, NEW m \in Model \cup {None}, Respond(q, m)
      PROVE  requests' \in [Request -> RequestRecords]
  BY <1>0, <1>2 DEF Respond, RequestRecords
<1>3. ASSUME NEW q \in Request, Finish(q) PROVE requests' \in [Request -> RequestRecords]
  BY <1>0, <1>3 DEF Finish
<1>4. CASE RelayRestarts
  BY <1>0, <1>4 DEF RelayRestarts
<1>5. CASE UNCHANGED requests
  BY <1>0, <1>5
<1> QED
  BY <1>1, <1>2, <1>3, <1>4, <1>5
     DEF Next, Capture, NoIdentity, ServeActivate, ServeRevoke, AnswerRevoke, RunnerDies, Expire,
         Activate, Spawn, NotSpawned, Exit, Revoked, Judge, vars

(* Every step leaves the registry and the runner with their types. *)
LEMMA RegistryStep == TypeOK /\ [Next]_vars => RegistryType'
<1> SUFFICES ASSUME TypeOK, [Next]_vars PROVE RegistryType'
  OBVIOUS
<1> USE ModelRelayAssumption DEF RegistryType
<1>0. RegistryType
  BY DEF TypeOK
<1>1. Pruned \in [Run -> [model : Model \cup {None}, conflicted : BOOLEAN]]
  BY <1>0 DEF Pruned, NoModel
<1>2. ASSUME NEW c \in calls, ServeActivate(c) \/ ServeRevoke(c) PROVE RegistryType'
  <2>1. c.run \in Run
    BY DEF TypeOK, CallRecords
  <2> QED
    BY <1>0, <1>1, <1>2, <2>1 DEF ServeActivate, ServeRevoke, registryVars, runnerVars
<1>3. ASSUME NEW q \in Request, Capture(q) PROVE RegistryType'
  <2>1. requests[q].model \in Model
    BY <1>3 DEF Capture, TypeOK, RequestRecords
  <2>2. WithModel(models, requests[q].run, requests[q].model)
          \in [Run -> [model : Model \cup {None}, conflicted : BOOLEAN]]
    BY <1>0, <2>1 DEF WithModel
  <2> QED
    BY <1>0, <1>3, <2>1, <2>2 DEF Capture, runnerVars
<1>4. ASSUME NEW q \in Request, NEW r \in Run, Forward(q, r) PROVE RegistryType'
  BY <1>0, <1>1, <1>4 DEF Forward, runnerVars
<1>5. CASE RelayRestarts
  BY <1>0, <1>5 DEF RelayRestarts, runnerVars, NoModel
<1>6. CASE RunnerDies
  BY <1>0, <1>6 DEF RunnerDies, registryVars
<1>7. ASSUME NEW r \in Run, Expire(r) \/ Spawn(r) \/ Revoked(r) PROVE RegistryType'
  BY <1>0, <1>7 DEF Expire, Spawn, Revoked, registryVars, runnerVars
<1>8. ASSUME NEW r \in Run, Activate(r) \/ NotSpawned(r) \/ Exit(r) \/ Judge(r) PROVE RegistryType'
  BY <1>0, <1>8 DEF Activate, NotSpawned, Exit, Judge, registryVars
<1>9. ASSUME NEW c, AnswerRevoke(c) PROVE RegistryType'
  BY <1>0, <1>9 DEF AnswerRevoke, registryVars, runnerVars
<1>10. ASSUME NEW q, NEW m, Respond(q, m) \/ NoIdentity(q) PROVE RegistryType'
  BY <1>0, <1>10 DEF Respond, NoIdentity, registryVars, runnerVars
<1>11. CASE UNCHANGED vars
  BY <1>0, <1>11 DEF vars, registryVars, runnerVars
<1> QED
  BY <1>2, <1>3, <1>4, <1>5, <1>6, <1>7, <1>8, <1>9, <1>10, <1>11 DEF Next

LEMMA RunnerStep == TypeOK /\ [Next]_vars => RunnerType'
<1> SUFFICES ASSUME TypeOK, [Next]_vars PROVE RunnerType'
  OBVIOUS
<1> USE DEF RunnerType, Stages
<1>0. RunnerType
  BY DEF TypeOK
<1>1. ASSUME NEW r \in Run, Revoked(r) PROVE RunnerType'
  <2>1. \A c \in Answers(r, "revoke") : c.model \in Model \cup {None}
    BY DEF Answers, TypeOK, CallRecords
  <2>2. teardown' = teardown
        \/ \E c \in Answers(r, "revoke") :
              teardown' = [teardown EXCEPT ![r] = IF pc[r] = "failing" THEN @
                                                 ELSE [revoked |-> TRUE, model |-> c.model]]
    BY <1>1 DEF Revoked
  <2>3. teardown' \in [Run -> [revoked : BOOLEAN, model : Model \cup {None}]]
    <3>1. ASSUME NEW c \in Answers(r, "revoke")
          PROVE  (IF pc[r] = "failing" THEN teardown[r] ELSE [revoked |-> TRUE, model |-> c.model])
                   \in [revoked : BOOLEAN, model : Model \cup {None}]
      BY <1>0, <2>1
    <3>2. ASSUME NEW v \in [revoked : BOOLEAN, model : Model \cup {None}]
          PROVE  [teardown EXCEPT ![r] = v] \in [Run -> [revoked : BOOLEAN, model : Model \cup {None}]]
      BY <1>0
    <3>3. CASE teardown' = teardown
      BY <1>0, <3>3
    <3>4. ASSUME NEW c \in Answers(r, "revoke"),
                 teardown' = [teardown EXCEPT ![r] = IF pc[r] = "failing" THEN @
                                                    ELSE [revoked |-> TRUE, model |-> c.model]]
          PROVE  teardown' \in [Run -> [revoked : BOOLEAN, model : Model \cup {None}]]
      BY <3>1, <3>2, <3>4
    <3> QED
      BY <2>2, <3>3, <3>4
  <2> QED
    BY <1>0, <1>1, <2>3 DEF Revoked
<1>2. ASSUME NEW r \in Run, Judge(r) PROVE RunnerType'
  BY <1>0, <1>2 DEF Judge, NoTeardown
<1>3. ASSUME NEW r \in Run, Activate(r) \/ Spawn(r) \/ NotSpawned(r) \/ Exit(r) PROVE RunnerType'
  BY <1>0, <1>3 DEF Activate, Spawn, NotSpawned, Exit
<1>4. CASE RunnerDies
  BY <1>0, <1>4 DEF RunnerDies, NoTeardown
<1>5. CASE UNCHANGED runnerVars
  BY <1>0, <1>5 DEF runnerVars
<1> QED
  BY <1>1, <1>2, <1>3, <1>4, <1>5
     DEF Next, Capture, NoIdentity, ServeActivate, ServeRevoke, AnswerRevoke, RelayRestarts, Expire,
         Forward, Respond, vars

LEMMA TypeStep == TypeOK /\ [Next]_vars => TypeOK'
<1> SUFFICES ASSUME TypeOK, [Next]_vars PROVE TypeOK'
  OBVIOUS
<1>1. RegistryType' /\ RunnerType' /\ (requests \in [Request -> RequestRecords])'
      /\ (calls \subseteq CallRecords)'
  BY RegistryStep, RunnerStep, RequestsStep, CallsStep
<1> QED
  BY <1>1 DEF TypeOK, RegistryType, RunnerType

----------------------------------------------------------------------------
(* A call of the next state is one that was there, a new one of the runner's *)
(* or one the Relay has just served.                                         *)
LateActivation(r) == \E c \in calls : c.run = r /\ c.kind = "activate" /\ c.stage = "sent"

(* Nobody sends an activation but a runner that begins. *)
LEMMA ActivationsStep ==
    ASSUME TypeOK, [Next]_vars, NEW r \in Run, pc[r] # "idle", LateActivation(r)'
    PROVE  LateActivation(r)
<1> USE DEF LateActivation
<1>0. calls \subseteq CallRecords
  BY DEF TypeOK
<1>1. ASSUME NEW c \in calls, ServeActivate(c) \/ ServeRevoke(c) \/ AnswerRevoke(c)
      PROVE  LateActivation(r)
  <2>0. c \in CallRecords
    BY <1>0
  <2>1. [c EXCEPT !.stage = "done"].stage # "sent"
        /\ [c EXCEPT !.stage = "waits", !.awaits = Awaited(c.run), !.owed = Pending(c.run)].stage # "sent"
        /\ [c EXCEPT !.stage = "done", !.model = ResolvedModel(c.run),
                     !.timedOut = (c.awaits # {}), !.awaits = {}].stage # "sent"
    BY <2>0 DEF CallRecords
  <2> QED
    BY <1>1, <2>1 DEF ServeActivate, ServeRevoke, AnswerRevoke, Serve
<1>2. ASSUME NEW q \in Request, Finish(q) PROVE LateActivation(r)
  BY <1>0, <1>2 DEF Finish, CallRecords
<1>3. ASSUME NEW s \in Run, Activate(s) PROVE LateActivation(r)
  BY <1>3 DEF Activate, Call
<1>4. ASSUME NEW s \in Run, NotSpawned(s) \/ Exit(s) PROVE LateActivation(r)
  BY <1>4 DEF NotSpawned, Exit, Unheard, Call
<1>5. CASE calls' \subseteq calls
  BY <1>5
<1> QED
  BY <1>1, <1>2, <1>3, <1>4, <1>5
     DEF Next, Capture, NoIdentity, RelayRestarts, RunnerDies, Expire, Spawn, Revoked, Judge,
         Forward, Respond, Unheard, vars

(* Once dead, dead for good: the activation on its way is refused while the  *)
(* nonce is remembered or past its TTL, and a restart loses it.              *)
LEMMA DeadStep ==
    ASSUME TypeOK, [Next]_vars, NEW r \in Run, pc[r] # "idle", Dead(r)
    PROVE  Dead(r)'
<1> USE DEF Dead, LateActivation
<1>0. calls \subseteq CallRecords
  BY DEF TypeOK
<1>1. (r \in revoked \cup expired)' \/ ~LateActivation(r)'
  <2>1. CASE r \notin revoked \cup expired
    BY <2>1, ActivationsStep
  <2>2. CASE r \in expired
    <3>1. expired \subseteq expired'
      BY DEF Next, Capture, NoIdentity, RelayRestarts, RunnerDies, Expire, Spawn, Revoked, Judge,
             Forward, Respond, ServeActivate, ServeRevoke, AnswerRevoke, Activate, NotSpawned, Exit, vars
    <3> QED
      BY <2>2, <3>1
  <2>3. CASE r \in revoked /\ r \notin expired
    <3>1. CASE RelayRestarts
      BY <3>1 DEF RelayRestarts
    <3>2. CASE ~RelayRestarts
      <4>1. r \in revoked'
        BY <2>3, <3>2
           DEF Next, Capture, NoIdentity, RunnerDies, Expire, Spawn, Revoked, Judge, Forward, Respond,
               ServeActivate, ServeRevoke, AnswerRevoke, Activate, NotSpawned, Exit, vars,
               registryVars
      <4> QED
        BY <4>1
    <3> QED
      BY <3>1, <3>2
  <2> QED
    BY <2>1, <2>2, <2>3
<1>2. r \notin active'
  <2>1. ASSUME NEW c \in calls, ServeActivate(c) PROVE r \notin active'
    BY <1>0, <2>1 DEF ServeActivate, ActivationRefused, registryVars
  <2>2. CASE active' \subseteq active
    BY <2>2
  <2> QED
    BY <2>1, <2>2
       DEF Next, Capture, NoIdentity, RelayRestarts, RunnerDies, Expire, Spawn, Revoked, Judge,
           Forward, Respond, ServeRevoke, AnswerRevoke, Activate, NotSpawned, Exit, vars, registryVars
<1> QED
  BY <1>1, <1>2

(* A served revocation is that of a dead capability. *)
LEMMA ServedStep ==
    ASSUME RelayInv, [Next]_vars, NEW c \in calls', c.kind = "revoke", c.stage # "sent"
    PROVE  Dead(c.run)'
<1>0. TypeOK /\ calls \subseteq CallRecords
  BY DEF RelayInv, TypeOK
<1>1. ASSUME NEW d \in calls, d.run = c.run, d.kind = "revoke", d.stage # "sent" PROVE Dead(c.run)'
  <2>1. d.run \in Run /\ Dead(d.run) /\ pc[d.run] # "idle"
    BY <1>0, <1>1 DEF RelayInv, CallRecords
  <2> QED
    BY <1>0, <1>1, <2>1, DeadStep
<1>2. ASSUME NEW d \in calls, ServeRevoke(d) PROVE Dead(c.run)'
  <2>1. CASE c \in calls
    BY <1>1, <2>1
  <2>2. CASE c \notin calls
    <3>1. d.run \notin expired
          /\ c = [d EXCEPT !.stage = "waits", !.awaits = Awaited(d.run), !.owed = Pending(d.run)]
          /\ active' = (active \ expired) \ {d.run} /\ revoked' = (revoked \ expired) \cup {d.run}
      BY <1>2, <2>2 DEF ServeRevoke, Serve
    <3>2. d \in CallRecords
      BY <1>0
    <3>3. c.run = d.run
      BY <3>1, <3>2 DEF CallRecords
    <3> QED
      BY <3>1, <3>3 DEF Dead
  <2> QED
    BY <2>1, <2>2
<1>3. ASSUME NEW d \in calls, AnswerRevoke(d) PROVE Dead(c.run)'
  <2>1. CASE c \in calls
    BY <1>1, <2>1
  <2>2. CASE c \notin calls
    <3>1. c = [d EXCEPT !.stage = "done", !.model = ResolvedModel(d.run),
                        !.timedOut = (d.awaits # {}), !.awaits = {}]
          /\ d.stage = "waits"
      BY <1>3, <2>2 DEF AnswerRevoke, Serve
    <3>2. d \in CallRecords
      BY <1>0
    <3>3. d.run = c.run /\ d.kind = "revoke"
      BY <3>1, <3>2 DEF CallRecords
    <3> QED
      BY <1>1, <3>1, <3>3
  <2> QED
    BY <2>1, <2>2
<1>4. ASSUME NEW d \in calls, ServeActivate(d) PROVE Dead(c.run)'
  <2>1. CASE c \in calls
    BY <1>1, <2>1
  <2>2. CASE c \notin calls
    <3>1. c = [d EXCEPT !.stage = "done"] /\ d.kind = "activate" /\ d \in CallRecords
      BY <1>0, <1>4, <2>2 DEF ServeActivate, Serve
    <3> QED
      BY <3>1 DEF CallRecords
  <2> QED
    BY <2>1, <2>2
<1>5. ASSUME NEW q \in Request, Finish(q) PROVE Dead(c.run)'
  <2>1. PICK d \in calls :
          c = IF d.stage = "waits" THEN [d EXCEPT !.awaits = @ \ {q}, !.owed = @ \ {q}] ELSE d
    BY <1>5 DEF Finish
  <2>2. d \in CallRecords
    BY <1>0
  <2>3. d.run = c.run /\ d.kind = c.kind /\ d.stage = c.stage
    BY <2>1, <2>2 DEF CallRecords
  <2> QED
    BY <1>1, <2>3
<1>6. ASSUME NEW r \in Run, Activate(r) \/ NotSpawned(r) \/ Exit(r) PROVE Dead(c.run)'
  <2>1. Call(r, "activate").stage = "sent" /\ Call(r, "revoke").stage = "sent"
    BY DEF Call
  <2>2. c \in calls
    BY <1>6, <2>1 DEF Activate, NotSpawned, Exit, Unheard
  <2> QED
    BY <1>1, <2>2
<1>7. CASE calls' \subseteq calls
  BY <1>1, <1>7
<1> QED
  BY <1>2, <1>3, <1>4, <1>5, <1>6, <1>7
     DEF Next, Capture, NoIdentity, RelayRestarts, RunnerDies, Expire, Spawn, Revoked, Judge,
         Forward, Respond, Unheard, vars

LEMMA RelayInvStep == RelayInv /\ [Next]_vars => RelayInv'
<1> SUFFICES ASSUME RelayInv, [Next]_vars PROVE RelayInv'
  OBVIOUS
<1>0. TypeOK /\ TypeOK'
  BY TypeStep DEF RelayInv
<1>1. ASSUME NEW r \in acked' PROVE Dead(r)'
  <2>1. CASE r \in acked
    <3>1. r \in Run /\ Dead(r) /\ pc[r] # "idle"
      BY <1>0, <2>1 DEF RelayInv, TypeOK
    <3> QED
      BY <1>0, <3>1, DeadStep
  <2>2. CASE r \notin acked
    <3>1. r \in Run /\ Revoked(r)
      BY <2>2 DEF Next, Capture, NoIdentity, RelayRestarts, RunnerDies, Expire, Spawn, Revoked,
                  Judge, Forward, Respond, ServeActivate, ServeRevoke, AnswerRevoke, Activate,
                  NotSpawned, Exit, vars, runnerVars
    <3>2. PICK c \in Answers(r, "revoke") : TRUE
      BY <2>2, <3>1 DEF Revoked
    <3>3. Dead(r) /\ pc[r] # "idle"
      BY <3>1, <3>2 DEF RelayInv, Answers, Revoked
    <3> QED
      BY <1>0, <3>1, <3>3, DeadStep
  <2> QED
    BY <2>1, <2>2
<1>2. ASSUME NEW c \in calls', c.kind = "revoke", c.stage # "sent" PROVE Dead(c.run)'
  BY <1>2, ServedStep
<1>3. ASSUME NEW r \in Run, pc'[r] = "idle" PROVE r \notin acked' /\ \A c \in calls' : c.run # r
  <2>1. pc[r] = "idle"
    BY <1>0, <1>3
       DEF Next, Capture, NoIdentity, RelayRestarts, RunnerDies, Expire, Spawn, Revoked, Judge,
           Forward, Respond, ServeActivate, ServeRevoke, AnswerRevoke, Activate, NotSpawned, Exit,
           vars, runnerVars, TypeOK
  <2>2. r \notin acked /\ \A c \in calls : c.run # r
    BY <2>1 DEF RelayInv
  <2>3. r \notin acked'
    BY <2>1, <2>2
       DEF Next, Capture, NoIdentity, RelayRestarts, RunnerDies, Expire, Spawn, Revoked, Judge,
           Forward, Respond, ServeActivate, ServeRevoke, AnswerRevoke, Activate, NotSpawned, Exit,
           vars, runnerVars
  <2>4. ASSUME NEW c \in calls' PROVE c.run # r
    <3>0. calls \subseteq CallRecords
      BY <1>0 DEF TypeOK
    <3>1. ASSUME NEW d \in calls, ServeActivate(d) \/ ServeRevoke(d) \/ AnswerRevoke(d)
          PROVE  c.run # r
      <4>1. d \in CallRecords /\ d.run # r
        BY <2>2, <3>0
      <4>2. [d EXCEPT !.stage = "done"].run # r
            /\ [d EXCEPT !.stage = "waits", !.awaits = Awaited(d.run), !.owed = Pending(d.run)].run # r
            /\ [d EXCEPT !.stage = "done", !.model = ResolvedModel(d.run),
                         !.timedOut = (d.awaits # {}), !.awaits = {}].run # r
        BY <4>1 DEF CallRecords
      <4> QED
        BY <2>2, <3>1, <4>2 DEF ServeActivate, ServeRevoke, AnswerRevoke, Serve
    <3>2. ASSUME NEW q \in Request, Finish(q) PROVE c.run # r
      BY <2>2, <3>0, <3>2 DEF Finish, CallRecords
    <3>3. ASSUME NEW s \in Run, Activate(s) \/ NotSpawned(s) \/ Exit(s) PROVE c.run # r
      <4>1. pc'[s] # "idle"
        BY <1>0, <3>3 DEF Activate, NotSpawned, Exit, TypeOK
      <4> QED
        BY <1>3, <2>2, <3>3, <4>1 DEF Activate, NotSpawned, Exit, Unheard, Call
    <3>4. CASE calls' \subseteq calls
      BY <2>2, <3>4
    <3> QED
      BY <3>1, <3>2, <3>3, <3>4
         DEF Next, Capture, NoIdentity, RelayRestarts, RunnerDies, Expire, Spawn, Revoked, Judge,
             Forward, Respond, Unheard, vars
  <2> QED
    BY <2>3, <2>4
<1> QED
  BY <1>0, <1>1, <1>2, <1>3 DEF RelayInv

(* The inductive invariant: a capability whose revocation was served         *)
(* (revoke, model-relay-server.ts) cannot become active any more.            *)
THEOREM RelayCorrect == Spec => []RelayInv
<1>1. Init => RelayInv
  BY InitRelayInv
<1>2. RelayInv /\ [Next]_vars => RelayInv'
  BY RelayInvStep
<1> QED
  BY <1>1, <1>2, PTL DEF Spec

(* After its revocation was acknowledged a bearer serves no more: the        *)
(* forwarding of forwardModelRelayRequest needs an active nonce, and that of *)
(* an acknowledged run is dead.                                              *)
THEOREM RevocationIsFinal == Spec => RevokedStays
<1> DEFINE Silent == \A q \in Request :
                        (requests[q].stage = "free" /\ requests'[q].stage = "forwarded")
                           => requests'[q].run \notin acked
<1>1. RelayInv /\ [Next]_vars => [Silent]_vars
  <2> SUFFICES ASSUME RelayInv, Next, NEW q \in Request, requests[q].stage = "free",
                      requests'[q].stage = "forwarded"
               PROVE  requests'[q].run \notin acked
    OBVIOUS
  <2>0. requests \in [Request -> RequestRecords]
    BY DEF RelayInv, TypeOK
  <2>1. PICK p \in Request, r \in Run : Forward(p, r)
    <3>1. ASSUME NEW p \in Request, Finish(p) PROVE FALSE
      BY <2>0, <3>1 DEF Finish, NoRequest
    <3>2. ASSUME NEW p \in Request, NEW m, Respond(p, m) PROVE FALSE
      BY <2>0, <3>2 DEF Respond, RequestRecords
    <3>3. CASE RelayRestarts
      BY <3>3 DEF RelayRestarts, NoRequest
    <3>4. CASE UNCHANGED requests
      BY <3>4
    <3> QED
      BY <3>1, <3>2, <3>3, <3>4
         DEF Next, Capture, NoIdentity, RunnerDies, Expire, Spawn, Revoked, Judge, ServeActivate,
             ServeRevoke, AnswerRevoke, Activate, NotSpawned, Exit
  <2>2. p = q
    BY <2>0, <2>1 DEF Forward
  <2>3. requests'[q].run = r /\ r \in active
    BY <2>0, <2>1, <2>2 DEF Forward, Admitted, RequestRecords
  <2> QED
    BY <2>3 DEF RelayInv, Dead
<1> QED
  BY <1>1, RelayCorrect, PTL DEF Spec, RevokedStays

----------------------------------------------------------------------------
(* What the teardown evidence says of the revocation is what the runner was  *)
(* told, and the in-process gate passes on nothing else.                     *)
Acknowledged ==
    /\ \A r \in Run : teardown[r].revoked => r \in acked
    /\ Gate = "container" => PassedIsRevoked

(* Only a runner that was told of the revocation writes the evidence.        *)
LEMMA AcknowledgedStep == TypeOK /\ Acknowledged /\ [Next]_vars => Acknowledged'
<1> SUFFICES ASSUME TypeOK, Acknowledged, [Next]_vars PROVE Acknowledged'
  OBVIOUS
<1> USE DEF Acknowledged, PassedIsRevoked
<1>0. RunnerType
  BY TypeParts
<1>1. ASSUME NEW r \in Run, Revoked(r) PROVE Acknowledged'
  <2>1. acked \subseteq acked'
    BY <1>1 DEF Revoked
  <2>2. \A s \in Run : teardown'[s].revoked => teardown[s].revoked \/ s \in acked'
    <3> SUFFICES ASSUME NEW s \in Run, teardown'[s] # teardown[s] PROVE s \in acked'
      OBVIOUS
    <3>1. s = r /\ acked' = acked \cup {r}
      BY <1>0, <1>1 DEF Revoked, RunnerType
    <3> QED
      BY <3>1
  <2>3. \A s \in Run : pc'[s] = "passed" => pc[s] = "passed"
    BY <1>0, <1>1 DEF Revoked, RunnerType
  <2> QED
    BY <2>1, <2>2, <2>3
<1>2. ASSUME NEW r \in Run, Judge(r) PROVE Acknowledged'
  <2>1. \A s \in Run : teardown'[s].revoked => teardown[s].revoked
    BY <1>0, <1>2 DEF Judge, NoTeardown, RunnerType
  <2>2. \A s \in Run : pc'[s] = "passed" =>
           pc[s] = "passed" \/ (Gate = "container" => teardown[s].revoked)
    BY <1>0, <1>2 DEF Judge, Passes, RunnerType
  <2> QED
    BY <1>2, <2>1, <2>2 DEF Judge
<1>3. ASSUME NEW r \in Run, Activate(r) \/ Spawn(r) \/ NotSpawned(r) \/ Exit(r)
      PROVE  Acknowledged'
  <2>1. \A s \in Run : pc'[s] = "passed" => pc[s] = "passed"
    BY <1>0, <1>3 DEF Activate, Spawn, NotSpawned, Exit, RunnerType
  <2> QED
    BY <1>3, <2>1 DEF Activate, Spawn, NotSpawned, Exit
<1>4. CASE RunnerDies
  BY <1>0, <1>4 DEF RunnerDies, NoTeardown, RunnerType
<1>5. CASE UNCHANGED <<pc, teardown, acked>>
  BY <1>5
<1> QED
  BY <1>1, <1>2, <1>3, <1>4, <1>5
     DEF Next, Capture, NoIdentity, ServeActivate, ServeRevoke, AnswerRevoke, RelayRestarts, Expire,
         Forward, Respond, vars, runnerVars

(* recordRuntimeTeardown of the in-process gate (coordinator.ts) passes no   *)
(* run whose revocation the Relay has not acknowledged, whatever the runner  *)
(* gave up or lost.                                                          *)
THEOREM PassedRevoked == Spec => [](Gate = "container" => PassedIsRevoked)
<1>1. Init => Acknowledged
  BY DEF Init, Acknowledged, PassedIsRevoked, NoTeardown
<1>2. RelayInv /\ Acknowledged /\ [Next]_vars => Acknowledged'
  BY AcknowledgedStep DEF RelayInv
<1>3. Acknowledged => (Gate = "container" => PassedIsRevoked)
  BY DEF Acknowledged
<1> QED
  BY <1>1, <1>2, <1>3, RelayCorrect, PTL DEF Spec
=============================================================================
