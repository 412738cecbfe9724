---------------------------- MODULE OriginProofs ----------------------------
(***************************************************************************)
(* OriginInv is inductive: for any Agents, and any number of deaths, failed *)
(* steps, calls given up and writes of others, the log of an Agent binds    *)
(* the tree its row names and nothing that was there is overwritten.        *)
(***************************************************************************)
EXTENDS AgentOrigin, TLAPS

\* What OriginInv says of one Agent.
Fits(a) == StepFits(a) /\ LogBinds(a)

----------------------------------------------------------------------------
(* What the steps have in common. *)

LEMMA TypeParts ==
    ASSUME TypeOK
    PROVE  /\ old \in [Agent -> Tree] /\ staging \in [Agent -> Tree]
           /\ workspace \in [Agent -> Tree] /\ snapshot \in [Agent -> Tree]
           /\ target \in [Agent -> Tree]
BY DEF TypeOK

\* An operation that fails leaves its queue; its caller, if it hears, hears of it.
LEMMA FaultShape ==
    ASSUME TypeOK, NEW a \in Agent, Fault(a)
    PROVE  /\ op' = [op EXCEPT ![a] = NoOp] /\ worker' \in {worker, "down"}
           /\ call' = call \/ call' = [call EXCEPT ![a] = "failed"]
BY DEF Fault, Leave, CallIs

Op == [step : Step, heard : BOOLEAN, saw : Tree \cup {"unread"}]

LEMMA NoOpType == NoOp \in Op /\ NoOp.step = "idle"
BY DEF NoOp, Op, Step

LEMMA GotoShape ==
    ASSUME TypeOK, NEW a \in Agent, NEW s \in Step, Goto(a, s)
    PROVE  /\ op' \in [Agent -> Op] /\ op'[a].step = s /\ op'[a].saw = op[a].saw
           /\ \A b \in Agent \ {a} : op'[b] = op[b]
<1> USE DEF Goto, TypeOK, Op
<1>1. op[a] \in Op
  OBVIOUS
<1>2. [op[a] EXCEPT !.step = s] \in Op
  BY <1>1
<1>3. [op[a] EXCEPT !.step = s].step = s /\ [op[a] EXCEPT !.step = s].saw = op[a].saw
  BY <1>1
<1>4. op' = [op EXCEPT ![a] = [op[a] EXCEPT !.step = s]]
  OBVIOUS
<1> QED
  BY <1>2, <1>3, <1>4

\* Callers that are gone change nothing but who listens.
LEMMA OrphanedShape ==
    ASSUME TypeOK, NEW A \in SUBSET Agent, Orphaned(A)
    PROVE  /\ asked' \subseteq Agent /\ late' \in [Agent -> Nat]
           /\ op' \in [Agent -> Op]
           /\ \A a \in Agent : op'[a].step = op[a].step /\ op'[a].saw = op[a].saw
<1> USE DEF Orphaned, TypeOK
<1>1. asked' \subseteq Agent /\ late' \in [Agent -> Nat]
  OBVIOUS
<1>2. op' = [a \in Agent |-> IF a \in A THEN [op[a] EXCEPT !.heard = FALSE] ELSE op[a]]
  OBVIOUS
<1>3. ASSUME NEW a \in Agent
      PROVE  op'[a] \in Op /\ op'[a].step = op[a].step /\ op'[a].saw = op[a].saw
  <2>1. op[a] \in Op
    BY DEF Op
  <2>2. [op[a] EXCEPT !.heard = FALSE] \in Op
    BY <2>1 DEF Op
  <2>3. [op[a] EXCEPT !.heard = FALSE].step = op[a].step
    BY <2>1 DEF Op
  <2>4. [op[a] EXCEPT !.heard = FALSE].saw = op[a].saw
    BY <2>1 DEF Op
  <2> QED
    BY <1>2, <2>1, <2>2, <2>3, <2>4
<1>4. op' \in [Agent -> Op]
  BY <1>2, <1>3
<1> QED
  BY <1>1, <1>3, <1>4

\* An Agent whose log and trees stand still, and whose operation does or ends.
LEMMA QuietFits ==
    ASSUME NEW a \in Agent, Fits(a), UNCHANGED <<log[a], target[a], drifts>>,
           UNCHANGED <<staging[a], workspace[a], snapshot[a]>>,
           op'[a].step = "idle" \/ (op'[a].step = op[a].step /\ op'[a].saw = op[a].saw)
    PROVE  Fits(a)'
BY DEF Fits, StepFits, LogBinds

\* The product's side of the invariant survives while heads stay, and while a
\* call is answered only once there is one.
LEMMA AuthorityKept ==
    ASSUME ServedHasAuthority, UNCHANGED <<mode, product, rows, visited>>,
           \A a \in Agent : log[a] = "done" => log'[a] = "done",
           \A a \in Agent : call'[a] = "answered" /\ mode = "worker"
                                => call[a] = "answered" \/ log'[a] = "done"
    PROVE  ServedHasAuthority'
BY DEF ServedHasAuthority

----------------------------------------------------------------------------
(* The initial state. *)

LEMMA InitHolds == Init => OriginInv
<1> SUFFICES ASSUME Init PROVE OriginInv
  OBVIOUS
<1>1. TypeOK
  BY NoOpType DEF Init, TypeOK, Tree, File, None, Op
<1>2. ServedHasAuthority
  BY DEF Init, ServedHasAuthority
<1>3. \A a \in Agent : StepFits(a) /\ LogBinds(a)
  BY DEF Init, StepFits, LogBinds, NoOp
<1> QED
  BY <1>1, <1>2, <1>3 DEF OriginInv
----------------------------------------------------------------------------
(* The types, step by step. *)

LEMMA CallType ==
    ASSUME TypeOK, NEW a \in Agent, NEW c,
           c \in {"new", "filling", "asked", "answered", "failed", "over"}, CallIs(a, c)
    PROVE  call' \in [Agent -> {"new", "filling", "asked", "answered", "failed", "over"}]
BY DEF TypeOK, CallIs

LEMMA FaultType ==
    ASSUME TypeOK, NEW a \in Agent, Fault(a)
    PROVE  /\ op' \in [Agent -> Op] /\ worker' \in {"down", "starting", "recovering", "up"}
           /\ call' \in [Agent -> {"new", "filling", "asked", "answered", "failed", "over"}]
<1>1. op' = [op EXCEPT ![a] = NoOp] /\ op \in [Agent -> Op]
  BY FaultShape DEF TypeOK, Op
<1>2. op' \in [Agent -> Op]
  BY <1>1, NoOpType
<1> QED
  BY <1>2, FaultShape DEF TypeOK

LEMMA ProductTypes ==
    ASSUME TypeOK, NEW a \in Agent, CreateStep(a) \/ StartupStep(a)
    PROVE  TypeOK'
<1> USE DEF TypeOK, rowVars, requestVars, workerVars, controlVars, treeVars, logVars, boundVars,
            CallIs, Creates, Project, HasHead, Starting
<1>1. CASE CreateInProcess(a)
  BY <1>1, TypeParts DEF CreateInProcess, Tree
<1>2. CASE FillWorkspace(a)
  BY <1>2, TypeParts DEF FillWorkspace, Tree
<1>3. CASE CreateUnderWorker(a)
  BY <1>3 DEF CreateUnderWorker
<1>4. CASE PushRow(a)
  BY <1>4 DEF PushRow
<1>5. CASE CreateFails(a)
  BY <1>5 DEF CreateFails
<1>6. CASE FindHead(a)
  BY <1>6 DEF FindHead
<1>7. CASE Adopt(a)
  BY <1>7 DEF Adopt
<1>8. CASE ProjectAdopted(a)
  BY <1>8 DEF ProjectAdopted
<1> QED
  BY <1>1, <1>2, <1>3, <1>4, <1>5, <1>6, <1>7, <1>8 DEF CreateStep, StartupStep

LEMMA ProductEndsType ==
    ASSUME TypeOK, ProductEnds, drifts' = drifts
    PROVE  TypeOK'
<1>1. /\ asked' \subseteq Agent /\ late' \in [Agent -> Nat]
      /\ op' \in [Agent -> Op]
  BY OrphanedShape DEF ProductEnds
<1>2. call' \in [Agent -> {"new", "filling", "asked", "answered", "failed", "over"}]
  BY DEF ProductEnds, TypeOK
<1> QED
  BY <1>1, <1>2 DEF ProductEnds, TypeOK, controlVars, treeVars, logVars, Op

\* An operation of the Worker has its types, when its step does or fails.
LEMMA OperationTypes ==
    ASSUME TypeOK, NEW a \in Agent,
           \/ Check(a) \/ Stage(a) \/ Copy(a) \/ Prepare(a) \/ Place(a) \/ Capture(a) \/ Complete(a)
    PROVE  TypeOK'
<1> USE DEF rowVars, productVars, requestVars, controlVars, treeVars, logVars, boundVars
<1>1. ASSUME NEW s \in Step, Goto(a, s)
      PROVE  op' \in [Agent -> Op]
  BY <1>1, GotoShape
<1>2. Goto(a, "stage") \/ Goto(a, "copy") \/ Goto(a, "prepare") \/ Goto(a, "finish")
      \/ Goto(a, "capture") \/ Goto(a, "complete") \/ Goto(a, "answer")
        => op' \in [Agent -> Op]
  BY <1>1 DEF Step
<1>3. CASE Check(a)
  BY <1>2, <1>3, FaultType DEF Check, TypeOK, Op
<1>4. CASE Stage(a)
  BY <1>2, <1>4, TypeParts DEF Stage, TypeOK, Op, Tree
<1>5. CASE Copy(a)
  <2>1. staging' \in [Agent -> Tree]
    BY <1>5, TypeParts DEF Copy, Tree
  <2>2. /\ op' \in [Agent -> Op] /\ worker' \in {"down", "starting", "recovering", "up"}
        /\ call' \in [Agent -> {"new", "filling", "asked", "answered", "failed", "over"}]
    BY <1>2, <1>5, FaultType DEF Copy, TypeOK
  <2> QED
    BY <1>5, <2>1, <2>2 DEF Copy, TypeOK, Op
<1>6. CASE Prepare(a)
  <2>1. target' \in [Agent -> Tree] /\ log' \in [Agent -> {"none", "prepared", "done"}]
    BY <1>6, TypeParts DEF Prepare, TypeOK
  <2> QED
    BY <1>2, <1>6, <2>1 DEF Prepare, TypeOK, Op
<1>7. CASE Place(a)
  <2>1. staging' \in [Agent -> Tree] /\ workspace' \in [Agent -> Tree]
    BY <1>7, TypeParts DEF Place, Tree
  <2>2. /\ op' \in [Agent -> Op] /\ worker' \in {"down", "starting", "recovering", "up"}
        /\ call' \in [Agent -> {"new", "filling", "asked", "answered", "failed", "over"}]
    BY <1>2, <1>7, FaultType DEF Place, TypeOK
  <2> QED
    BY <1>7, <2>1, <2>2 DEF Place, TypeOK, Op
<1>8. CASE Capture(a)
  <2>1. snapshot' \in [Agent -> Tree]
    BY <1>8, TypeParts DEF Capture
  <2>2. /\ op' \in [Agent -> Op] /\ worker' \in {"down", "starting", "recovering", "up"}
        /\ call' \in [Agent -> {"new", "filling", "asked", "answered", "failed", "over"}]
    BY <1>2, <1>8, FaultType DEF Capture, TypeOK
  <2> QED
    BY <1>8, <2>1, <2>2 DEF Capture, TypeOK, Op
<1>9. CASE Complete(a)
  BY <1>2, <1>9 DEF Complete, TypeOK, Op
<1> QED
  BY <1>3, <1>4, <1>5, <1>6, <1>7, <1>8, <1>9

\* Look: the operation has read the workspace.
LEMMA LookShape ==
    ASSUME TypeOK, NEW a \in Agent, Look(a), ~Fault(a)
    PROVE  /\ op' \in [Agent -> Op] /\ op'[a].saw = workspace[a]
           /\ op'[a].step = IF IsPlaced(a, workspace[a]) THEN "capture" ELSE "place"
           /\ IsPlaced(a, workspace[a]) \/ MayPlace(a, workspace[a])
           /\ \A b \in Agent \ {a} : op'[b] = op[b]
           /\ UNCHANGED <<call, worker>>
<1> DEFINE s == IF IsPlaced(a, workspace[a]) THEN "capture" ELSE "place"
           new == [op[a] EXCEPT !.step = s, !.saw = workspace[a]]
<1>1. op[a] \in Op /\ s \in Step /\ workspace[a] \in Tree \cup {"unread"}
  BY TypeParts DEF TypeOK, Op, Step
<1>2. /\ op' = [op EXCEPT ![a].step = s, ![a].saw = workspace[a]]
      /\ UNCHANGED <<call, worker>>
      /\ IsPlaced(a, workspace[a]) \/ MayPlace(a, workspace[a])
  BY DEF Look
<1> HIDE DEF s
<1>3. new \in Op
  BY <1>1 DEF Op
<1>4. new.step = s /\ new.saw = workspace[a]
  BY <1>1 DEF Op
<1>5. op' = [op EXCEPT ![a] = new]
  BY <1>1, <1>2 DEF TypeOK, Op
<1> HIDE DEF new
<1>6. op \in [Agent -> Op]
  BY DEF TypeOK, Op
<1> QED
  BY <1>2, <1>3, <1>4, <1>5, <1>6 DEF s

\* Begin: a request is taken, and the log says where its operation starts.
LEMMA BeginShape ==
    ASSUME TypeOK, NEW a \in Agent, Begin(a)
    PROVE  /\ op' \in [Agent -> Op] /\ op'[a].step = Resumption(a)
           /\ \A b \in Agent \ {a} : op'[b] = op[b]
           /\ asked' \subseteq Agent /\ late' \in [Agent -> Nat]
<1>1. Resumption(a) \in Step
  BY DEF Resumption, Step
<1> HIDE DEF Resumption
<1>2. /\ [NoOp EXCEPT !.step = Resumption(a), !.heard = TRUE] \in Op
      /\ [NoOp EXCEPT !.step = Resumption(a), !.heard = TRUE].step = Resumption(a)
      /\ [NoOp EXCEPT !.step = Resumption(a)] \in Op
      /\ [NoOp EXCEPT !.step = Resumption(a)].step = Resumption(a)
  BY <1>1 DEF NoOp, Op
<1>3. PICK new \in Op : new.step = Resumption(a) /\ op' = [op EXCEPT ![a] = new]
  BY <1>2 DEF Begin
<1>4. op \in [Agent -> Op]
  BY DEF TypeOK, Op
<1>5. asked' \subseteq Agent /\ late' \in [Agent -> Nat]
  BY DEF Begin, TypeOK
<1> QED
  BY <1>3, <1>4, <1>5

LEMMA QueueTypes ==
    ASSUME TypeOK, NEW a \in Agent,
           Begin(a) \/ Look(a) \/ Answer(a) \/ ResumeIntent(a) \/ CheckHead(a) \/ StepFails(a)
    PROVE  TypeOK'
<1> USE DEF rowVars, productVars, requestVars, controlVars, treeVars, logVars, boundVars
<1>1. CASE Begin(a)
  BY <1>1, BeginShape DEF Begin, TypeOK, Op
<1>2. CASE Look(a)
  <2>1. /\ op' \in [Agent -> Op] /\ worker' \in {"down", "starting", "recovering", "up"}
        /\ call' \in [Agent -> {"new", "filling", "asked", "answered", "failed", "over"}]
    BY <1>2, LookShape, FaultType DEF TypeOK
  <2> QED
    BY <1>2, <2>1 DEF Look, TypeOK, Op
<1>3. CASE Answer(a)
  <2>1. op' \in [Agent -> Op]
    BY <1>3, NoOpType DEF Answer, Leave, TypeOK, Op
  <2>2. call' \in [Agent -> {"new", "filling", "asked", "answered", "failed", "over"}]
    BY <1>3 DEF Answer, Leave, CallIs, TypeOK
  <2>3. staging' \in [Agent -> Tree]
    BY <1>3, TypeParts DEF Answer, Tree
  <2> QED
    BY <1>3, <2>1, <2>2, <2>3 DEF Answer, TypeOK, Op
<1>4. CASE ResumeIntent(a)
  <2>1. op' \in [Agent -> Op]
    BY <1>4, GotoShape DEF ResumeIntent, Step
  <2> QED
    BY <1>4, <2>1 DEF ResumeIntent, TypeOK, Op
<1>5. CASE CheckHead(a)
  <2>1. op' \in [Agent -> Op]
    BY <1>5, NoOpType DEF CheckHead, TypeOK, Op
  <2>2. staging' \in [Agent -> Tree]
    BY <1>5, TypeParts DEF CheckHead, Tree
  <2>3. recovered' \subseteq Agent /\ worker' \in {"down", "starting", "recovering", "up"}
    BY <1>5 DEF CheckHead, TypeOK
  <2> QED
    BY <1>5, <2>1, <2>2, <2>3 DEF CheckHead, TypeOK, Op
<1>6. CASE StepFails(a)
  BY <1>6, FaultType DEF StepFails, TypeOK, Op
<1> QED
  BY <1>1, <1>2, <1>3, <1>4, <1>5, <1>6

----------------------------------------------------------------------------
(* What the log binds, step by step of an operation. *)

\* The log, the trees and the operations of other Agents stand still.
LEMMA OthersFit ==
    ASSUME NEW a \in Agent, \A b \in Agent : Fits(b), drifts' = drifts,
           \A b \in Agent \ {a} :
               /\ UNCHANGED <<log[b], target[b], staging[b], workspace[b], snapshot[b]>>
               /\ op'[b] = op[b],
           Fits(a)'
    PROVE  \A b \in Agent : Fits(b)'
BY QuietFits

\* An operation that fails, with its log and trees as they were.
LEMMA FaultFits ==
    ASSUME TypeOK, NEW a \in Agent, \A b \in Agent : Fits(b), Fault(a), drifts' = drifts,
           UNCHANGED <<logVars, treeVars>>
    PROVE  \A b \in Agent : Fits(b)'
<1> SUFFICES ASSUME NEW b \in Agent PROVE Fits(b)'
  OBVIOUS
<1>1. op'[b].step = "idle" \/ op'[b] = op[b]
  BY FaultShape, NoOpType DEF TypeOK
<1> QED
  BY <1>1, QuietFits DEF logVars, treeVars

LEMMA BeginFits ==
    ASSUME TypeOK, NEW a \in Agent, \A b \in Agent : Fits(b), Begin(a)
    PROVE  \A b \in Agent : Fits(b)'
<1> USE DEF Begin, logVars, treeVars, boundVars
<1>1. Fits(a)'
  BY BeginShape DEF TypeOK, Resumption, HasHead, Fits, StepFits, LogBinds
<1> QED
  BY <1>1, BeginShape, OthersFit

LEMMA CheckFits ==
    ASSUME TypeOK, NEW a \in Agent, \A b \in Agent : Fits(b), Check(a)
    PROVE  \A b \in Agent : Fits(b)'
<1> USE DEF Check, At
<1>1. UNCHANGED <<logVars, treeVars, drifts>>
  BY DEF boundVars
<1>2. CASE Fault(a)
  BY <1>1, <1>2, FaultFits
<1>3. CASE Goto(a, "stage")
  <2>1. /\ op'[a].step = "stage" /\ op'[a].saw = op[a].saw
        /\ \A b \in Agent \ {a} : op'[b] = op[b]
    BY <1>3, GotoShape DEF Step
  <2>2. Fits(a)'
    BY <1>1, <2>1 DEF Fits, StepFits, LogBinds, logVars, treeVars
  <2> QED
    BY <1>1, <2>1, <2>2, OthersFit DEF logVars, treeVars
<1> QED
  BY <1>2, <1>3

LEMMA StageFits ==
    ASSUME TypeOK, NEW a \in Agent, \A b \in Agent : Fits(b), Stage(a)
    PROVE  \A b \in Agent : Fits(b)'
<1> USE DEF Stage, At, logVars, boundVars
<1>1. /\ op'[a].step = "copy" /\ op'[a].saw = op[a].saw
      /\ \A b \in Agent \ {a} : op'[b] = op[b]
  BY GotoShape DEF Step
<1>2. Fits(a)'
  BY <1>1 DEF Fits, StepFits, LogBinds
<1>3. \A b \in Agent \ {a} : staging'[b] = staging[b]
  BY DEF TypeOK
<1> QED
  BY <1>1, <1>2, <1>3, OthersFit

LEMMA CopyFits ==
    ASSUME TypeOK, NEW a \in Agent, \A b \in Agent : Fits(b), Copy(a)
    PROVE  \A b \in Agent : Fits(b)'
<1> USE DEF Copy, At, logVars, boundVars
<1>1. \A b \in Agent \ {a} : staging'[b] = staging[b]
  BY DEF TypeOK
<1>2. log[a] = "none"
  BY DEF Fits, StepFits
<1>3. CASE CopyHolds(a) /\ Goto(a, "prepare")
  <2>1. /\ op'[a].step = "prepare" /\ op'[a].saw = op[a].saw
        /\ \A b \in Agent \ {a} : op'[b] = op[b]
    BY <1>3, GotoShape DEF Step
  <2>2. staging'[a] = "birth"
    BY <1>3, TypeParts DEF CopyHolds
  <2>3. Fits(a)'
    BY <1>2, <2>1, <2>2 DEF Fits, StepFits, LogBinds
  <2> QED
    BY <1>1, <2>1, <2>3, OthersFit
<1>4. CASE Fault(a)
  <2>1. op'[a].step = "idle" /\ \A b \in Agent \ {a} : op'[b] = op[b]
    BY <1>4, FaultShape, NoOpType DEF TypeOK
  <2>2. Fits(a)'
    BY <1>2, <2>1 DEF Fits, StepFits, LogBinds
  <2> QED
    BY <1>1, <2>1, <2>2, OthersFit
<1> QED
  BY <1>3, <1>4

LEMMA PrepareFits ==
    ASSUME TypeOK, NEW a \in Agent, \A b \in Agent : Fits(b), Prepare(a)
    PROVE  \A b \in Agent : Fits(b)'
<1> USE DEF Prepare, At, treeVars, boundVars
<1>1. /\ op'[a].step = "finish" /\ op'[a].saw = op[a].saw
      /\ \A b \in Agent \ {a} : op'[b] = op[b]
  BY GotoShape DEF Step
<1>2. /\ log'[a] = "prepared" /\ target'[a] = staging[a]
      /\ \A b \in Agent \ {a} : log'[b] = log[b] /\ target'[b] = target[b]
  BY TypeParts DEF TypeOK
<1>3. Fits(a)'
  BY <1>1, <1>2 DEF Fits, StepFits, LogBinds
<1> QED
  BY <1>1, <1>2, <1>3, OthersFit

LEMMA LookFits ==
    ASSUME TypeOK, NEW a \in Agent, \A b \in Agent : Fits(b), Look(a)
    PROVE  \A b \in Agent : Fits(b)'
<1>1. UNCHANGED <<logVars, treeVars, drifts>>
  BY DEF Look, boundVars
<1>2. CASE Fault(a)
  BY <1>1, <1>2, FaultFits
<1>3. CASE ~Fault(a)
  <2>1. log[a] = "prepared"
    BY DEF Look, At, Fits, StepFits
  <2>2. Fits(a)'
    BY <1>1, <1>3, <2>1, LookShape
       DEF IsPlaced, MayPlace, Fits, StepFits, LogBinds, logVars, treeVars
  <2> QED
    BY <1>1, <1>3, <2>2, LookShape, OthersFit DEF logVars, treeVars
<1> QED
  BY <1>2, <1>3

\* The staged tree was the bound one when the workspace was read, and still is.
LEMMA PlaceFits ==
    ASSUME TypeOK, NEW a \in Agent, \A b \in Agent : Fits(b), Place(a)
    PROVE  \A b \in Agent : Fits(b)'
<1>1. /\ UNCHANGED <<logVars, snapshot, drifts>>
      /\ \A b \in Agent \ {a} : staging'[b] = staging[b] /\ workspace'[b] = workspace[b]
  BY TypeParts DEF Place, boundVars
<1>2. log[a] = "prepared" /\ staging[a] = target[a]
  BY DEF Place, At, Fits, StepFits
<1>3. CASE op[a].saw = "none" /\ ~Vacant(workspace[a])
  BY <1>1, <1>3, FaultFits DEF Place, treeVars
<1>4. CASE ~(op[a].saw = "none" /\ ~Vacant(workspace[a]))
  <2>1. Goto(a, "capture") /\ workspace'[a] = staging[a]
    BY <1>4, TypeParts DEF Place
  <2>2. /\ op'[a].step = "capture" /\ op'[a].saw = op[a].saw
        /\ \A b \in Agent \ {a} : op'[b] = op[b]
    BY <2>1, GotoShape DEF Step
  <2>3. Fits(a)'
    BY <1>1, <1>2, <2>1, <2>2 DEF Fits, StepFits, LogBinds, logVars
  <2> QED
    BY <1>1, <2>2, <2>3, OthersFit DEF logVars
<1> QED
  BY <1>3, <1>4

LEMMA CaptureFits ==
    ASSUME TypeOK, NEW a \in Agent, \A b \in Agent : Fits(b), Capture(a)
    PROVE  \A b \in Agent : Fits(b)'
<1>1. /\ UNCHANGED <<logVars, staging, workspace, drifts>>
      /\ \A b \in Agent \ {a} : snapshot'[b] = snapshot[b]
  BY TypeParts DEF Capture, boundVars
<1>2. log[a] = "prepared"
  BY DEF Capture, At, Fits, StepFits
<1>3. CASE Fault(a) /\ UNCHANGED snapshot
  BY <1>1, <1>3, FaultFits DEF treeVars
<1>4. CASE Goto(a, "complete") /\ workspace[a] = target[a]
           /\ snapshot' = [snapshot EXCEPT ![a] = target[a]]
  <2>1. /\ op'[a].step = "complete" /\ op'[a].saw = op[a].saw
        /\ \A b \in Agent \ {a} : op'[b] = op[b]
    BY <1>4, GotoShape DEF Step
  <2>2. Fits(a)'
    BY <1>1, <1>2, <1>4, <2>1, TypeParts DEF Fits, StepFits, LogBinds, logVars
  <2> QED
    BY <1>1, <2>1, <2>2, OthersFit DEF logVars
<1> QED
  BY <1>3, <1>4 DEF Capture

LEMMA CompleteFits ==
    ASSUME TypeOK, NEW a \in Agent, \A b \in Agent : Fits(b), Complete(a)
    PROVE  \A b \in Agent : Fits(b)'
<1> USE DEF Complete, At, treeVars, boundVars
<1>1. /\ op'[a].step = "answer" /\ op'[a].saw = op[a].saw
      /\ \A b \in Agent \ {a} : op'[b] = op[b]
  BY GotoShape DEF Step
<1>2. log'[a] = "done" /\ \A b \in Agent \ {a} : log'[b] = log[b]
  BY DEF TypeOK
<1>3. Fits(a)'
  BY <1>1, <1>2 DEF Fits, StepFits, LogBinds
<1> QED
  BY <1>1, <1>2, <1>3, OthersFit

LEMMA QueueFits ==
    ASSUME TypeOK, NEW a \in Agent, \A b \in Agent : Fits(b),
           Answer(a) \/ ResumeIntent(a) \/ CheckHead(a) \/ StepFails(a)
    PROVE  \A b \in Agent : Fits(b)'
<1> USE DEF logVars, boundVars
<1>1. CASE Answer(a) \/ CheckHead(a)
  <2>1. /\ op'[a].step = "idle" /\ log[a] = "done"
        /\ \A b \in Agent \ {a} : op'[b] = op[b] /\ staging'[b] = staging[b]
        /\ UNCHANGED <<log, target, workspace, snapshot, drifts>>
    BY <1>1, NoOpType DEF Answer, Leave, CheckHead, At, Fits, StepFits, TypeOK
  <2>2. Fits(a)'
    BY <2>1 DEF Fits, StepFits, LogBinds
  <2> QED
    BY <2>1, <2>2, OthersFit
<1>2. CASE ResumeIntent(a)
  <2>1. /\ op'[a].step = "finish" /\ log[a] = "prepared"
        /\ \A b \in Agent \ {a} : op'[b] = op[b]
    BY <1>2, GotoShape DEF ResumeIntent, Step
  <2>2. Fits(a)'
    BY <1>2, <2>1 DEF ResumeIntent, Fits, StepFits, LogBinds, treeVars
  <2> QED
    BY <1>2, <2>1, <2>2, OthersFit DEF ResumeIntent, treeVars
<1>3. CASE StepFails(a)
  BY <1>3, FaultFits DEF StepFails
<1> QED
  BY <1>1, <1>2, <1>3

----------------------------------------------------------------------------
(* One step of a Worker's operation keeps the invariant. *)

\* A head stays, and an operation answers only for one.
LEMMA WorkerStepAuthority ==
    ASSUME OriginInv, NEW a \in Agent, WorkerStep(a) \/ StepFails(a)
    PROVE  ServedHasAuthority'
<1> USE DEF OriginInv
<1>1. UNCHANGED <<mode, product, rows, visited>>
  BY DEF WorkerStep, Begin, Check, Stage, Copy, Prepare, Look, Place, Capture, Complete, Answer,
         ResumeIntent, CheckHead, StepFails, productVars, rowVars
<1>2. \A b \in Agent : log[b] = "done" => log'[b] = "done"
  <2>1. CASE Prepare(a)
    BY <2>1 DEF Prepare, At, StepFits, TypeOK
  <2>2. CASE Complete(a)
    BY <2>2 DEF Complete, TypeOK
  <2>3. CASE ~(Prepare(a) \/ Complete(a))
    BY <2>3 DEF WorkerStep, Begin, Check, Stage, Copy, Look, Place, Capture, Answer, ResumeIntent,
                CheckHead, StepFails, logVars
  <2> QED
    BY <2>1, <2>2, <2>3
<1>3. \A b \in Agent : call'[b] = "answered" => call[b] = "answered" \/ log'[b] = "done"
  <2>1. CASE Answer(a)
    BY <2>1 DEF Answer, At, Leave, CallIs, StepFits, TypeOK, logVars
  <2>2. CASE Fault(a)
    BY <2>2, FaultShape DEF TypeOK
  <2>3. CASE ~(Answer(a) \/ Fault(a))
    BY <2>3 DEF WorkerStep, Begin, Check, Stage, Copy, Prepare, Look, Place, Capture, Complete,
                ResumeIntent, CheckHead, StepFails, productVars
  <2> QED
    BY <2>1, <2>2, <2>3
<1> QED
  BY <1>1, <1>2, <1>3, AuthorityKept

LEMMA WorkerStepKeeps ==
    ASSUME OriginInv, NEW a \in Agent, WorkerStep(a) \/ StepFails(a)
    PROVE  OriginInv'
<1>1. TypeOK /\ \A b \in Agent : Fits(b)
  BY DEF OriginInv, Fits
<1>2. TypeOK'
  BY <1>1, OperationTypes, QueueTypes DEF WorkerStep
<1>3. \A b \in Agent : Fits(b)'
  BY <1>1, BeginFits, CheckFits, StageFits, CopyFits, PrepareFits, LookFits, PlaceFits, CaptureFits,
     CompleteFits, QueueFits DEF WorkerStep
<1> QED
  BY <1>2, <1>3, WorkerStepAuthority DEF OriginInv, Fits

----------------------------------------------------------------------------
(* The steps of the product. *)

LEMMA CreateKeeps ==
    ASSUME OriginInv, NEW a \in Agent, CreateStep(a) \/ StartupStep(a)
    PROVE  OriginInv'
<1> USE DEF OriginInv
<1>1. TypeOK'
  BY ProductTypes
<1>2. UNCHANGED <<op, log, target, staging, workspace, snapshot, drifts>>
  BY DEF CreateStep, CreateInProcess, FillWorkspace, CreateUnderWorker, PushRow, CreateFails,
         StartupStep, FindHead, Adopt, ProjectAdopted, workerVars, treeVars, logVars, boundVars
<1>3. \A b \in Agent : Fits(b)'
  BY <1>2, QuietFits DEF Fits
<1>4. ServedHasAuthority'
  <2> USE DEF TypeOK, ServedHasAuthority, CallIs, rowVars
  <2>1. CASE CreateInProcess(a) \/ FillWorkspace(a) \/ CreateUnderWorker(a)
    BY <1>2, <2>1 DEF CreateInProcess, FillWorkspace, CreateUnderWorker, Creates
  <2>2. CASE PushRow(a) \/ CreateFails(a)
    BY <1>2, <2>2 DEF PushRow, CreateFails
  <2>3. CASE FindHead(a) \/ ProjectAdopted(a)
    BY <1>2, <2>3 DEF FindHead, ProjectAdopted, Project, Starting, HasHead
  <2>4. CASE Adopt(a)
    BY <1>2, <2>4 DEF Adopt
  <2> QED
    BY <2>1, <2>2, <2>3, <2>4 DEF CreateStep, StartupStep
<1> QED
  BY <1>1, <1>3, <1>4 DEF Fits

LEMMA ProductEndsKeeps ==
    ASSUME OriginInv, ProductEnds, drifts' = drifts
    PROVE  OriginInv'
<1> USE DEF OriginInv
<1>1. TypeOK'
  BY ProductEndsType
<1>2. UNCHANGED <<log, target, staging, workspace, snapshot>>
  BY DEF ProductEnds, treeVars, logVars
<1>3. \A b \in Agent : op'[b].step = op[b].step /\ op'[b].saw = op[b].saw
  BY OrphanedShape DEF ProductEnds
<1>4. \A b \in Agent : Fits(b)'
  BY <1>2, <1>3, QuietFits DEF Fits
<1>5. ServedHasAuthority'
  BY <1>2 DEF ProductEnds, ServedHasAuthority
<1> QED
  BY <1>1, <1>4, <1>5 DEF Fits

LEMMA TimesOutKeeps ==
    ASSUME OriginInv, NEW a \in Agent, TimesOut(a)
    PROVE  OriginInv'
<1> USE DEF OriginInv
<1>1. /\ asked' \subseteq Agent /\ late' \in [Agent -> Nat] /\ op' \in [Agent -> Op]
      /\ \A b \in Agent : op'[b].step = op[b].step /\ op'[b].saw = op[b].saw
  BY OrphanedShape DEF TimesOut
<1>2. call' \in [Agent -> {"new", "filling", "asked", "answered", "failed", "over"}]
  BY CallType DEF TimesOut
<1>3. TypeOK'
  BY <1>1, <1>2 DEF TimesOut, TypeOK, rowVars, controlVars, treeVars, logVars, Op
<1>4. \A b \in Agent : Fits(b)'
  BY <1>1, QuietFits DEF TimesOut, treeVars, logVars, Fits
<1>5. ServedHasAuthority'
  BY AuthorityKept DEF TimesOut, CallIs, TypeOK, rowVars, logVars
<1> QED
  BY <1>3, <1>4, <1>5 DEF Fits

LEMMA ServingKeeps ==
    ASSUME OriginInv, Serve \/ StartProduct \/ Migrate
    PROVE  OriginInv'
<1> USE DEF OriginInv, Serve, StartProduct, Migrate
<1>1. TypeOK'
  BY DEF TypeOK, requestVars, workerVars, controlVars, treeVars, logVars, boundVars
<1>2. \A b \in Agent : Fits(b)'
  BY QuietFits DEF workerVars, treeVars, logVars, boundVars, Fits
<1>3. ServedHasAuthority'
  <2> USE DEF ServedHasAuthority, workerVars, logVars
  <2>1. CASE Serve
    BY <2>1
  <2>2. CASE StartProduct
    BY <2>2
  <2>3. CASE Migrate
    BY <2>3
  <2> QED
    BY <2>1, <2>2, <2>3
<1> QED
  BY <1>1, <1>2, <1>3 DEF Fits

----------------------------------------------------------------------------
(* The steps of the Worker as a whole, and the writes of others. *)

LEMMA WorkerStartKeeps ==
    ASSUME OriginInv,
           WorkerStarts \/ (\E f \in File : CreateFile(f)) \/ FillFile \/ ReadFiles
    PROVE  OriginInv'
<1> USE DEF OriginInv, WorkerStarts, CreateFile, FillFile, ReadFiles
<1>1. TypeOK'
  BY DEF TypeOK, File, None, productVars, rowVars, requestVars, controlVars, treeVars, logVars,
         boundVars
<1>2. \A b \in Agent : Fits(b)'
  BY QuietFits DEF treeVars, logVars, boundVars, Fits
<1>3. ServedHasAuthority'
  BY AuthorityKept DEF productVars, rowVars, logVars
<1> QED
  BY <1>1, <1>2, <1>3 DEF Fits

\* The sweep spares what a pending intent names.
LEMMA OpenKeeps ==
    ASSUME OriginInv, OpenWorker
    PROVE  OriginInv'
<1> USE DEF OriginInv, OpenWorker
<1>1. TypeOK'
  BY TypeParts DEF TypeOK, Tree, productVars, rowVars, requestVars, controlVars, logVars, boundVars
<1>2. \A b \in Agent : Fits(b)'
  BY NoOpType DEF Fits, StepFits, LogBinds, logVars, boundVars
<1>3. ServedHasAuthority'
  BY AuthorityKept DEF productVars, rowVars, logVars
<1> QED
  BY <1>1, <1>2, <1>3 DEF Fits

LEMMA WorkerDiesKeeps ==
    ASSUME OriginInv, WorkerDies
    PROVE  OriginInv'
<1> USE DEF OriginInv, WorkerDies
<1>1. /\ op' \in [Agent -> Op] /\ late' \in [Agent -> Nat]
      /\ call' \in [Agent -> {"new", "filling", "asked", "answered", "failed", "over"}]
  BY NoOpType DEF TypeOK
<1>2. TypeOK'
  BY <1>1 DEF TypeOK, Op, rowVars, treeVars, logVars
<1>3. \A b \in Agent : Fits(b)'
  BY NoOpType, QuietFits DEF treeVars, logVars, Fits
<1>4. ServedHasAuthority'
  BY AuthorityKept DEF rowVars, logVars
<1> QED
  BY <1>2, <1>3, <1>4 DEF Fits

LEMMA DriftKeeps ==
    ASSUME OriginInv, NEW a \in Agent, Drift(a)
    PROVE  OriginInv'
<1> USE DEF OriginInv, Drift
<1>1. old' \in [Agent -> Tree] /\ workspace' \in [Agent -> Tree]
  BY TypeParts DEF Tree
<1>2. drifts' \in Nat /\ drifts' # 0
  BY DEF TypeOK
<1>3. TypeOK'
  BY <1>1, <1>2 DEF TypeOK, requestVars, controlVars, logVars
<1>4. \A b \in Agent : Fits(b)'
  BY <1>2 DEF Fits, StepFits, LogBinds, logVars
<1>5. ServedHasAuthority'
  BY AuthorityKept DEF logVars
<1> QED
  BY <1>3, <1>4, <1>5 DEF Fits

----------------------------------------------------------------------------
(* The theorems. *)

LEMMA OriginStep == OriginInv /\ [Next]_vars => OriginInv'
<1> SUFFICES ASSUME OriginInv, [Next]_vars PROVE OriginInv'
  OBVIOUS
<1>1. ASSUME NEW a \in Agent, CreateStep(a) \/ StartupStep(a) PROVE OriginInv'
  BY <1>1, CreateKeeps
<1>2. ASSUME NEW a \in Agent, WorkerStep(a) \/ StepFails(a) PROVE OriginInv'
  BY <1>2, WorkerStepKeeps
<1>3. ASSUME NEW a \in Agent, TimesOut(a) PROVE OriginInv'
  BY <1>3, TimesOutKeeps
<1>4. ASSUME NEW a \in Agent, Drift(a) PROVE OriginInv'
  BY <1>4, DriftKeeps
<1>5. CASE StartupThrows \/ ProductDies
  BY <1>5, ProductEndsKeeps DEF StartupThrows, ProductDies, boundVars
<1>6. CASE Serve \/ StartProduct \/ Migrate
  BY <1>6, ServingKeeps
<1>7. CASE WorkerStarts \/ (\E f \in File : CreateFile(f)) \/ FillFile \/ ReadFiles
  BY <1>7, WorkerStartKeeps
<1>8. CASE OpenWorker
  BY <1>8, OpenKeeps
<1>9. CASE WorkerDies
  BY <1>9, WorkerDiesKeeps
<1>10. CASE UNCHANGED vars
  BY <1>10 DEF vars, productVars, rowVars, requestVars, workerVars, controlVars, treeVars, logVars,
               boundVars, OriginInv, TypeOK, ServedHasAuthority, StepFits, LogBinds
<1> QED
  BY <1>1, <1>2, <1>3, <1>4, <1>5, <1>6, <1>7, <1>8, <1>9, <1>10 DEF Next

\* createAgent, initializeWorkerAuthorityProjection (agent-service.ts) and
\* finishInitialAuthorityIntent (worker.ts) keep rows, log and trees in step.
THEOREM OriginCorrect == Spec => []OriginInv
<1> QED
  BY InitHolds, OriginStep, PTL DEF Spec

\* finishInitialAuthorityIntent (worker.ts) replaces a workspace only if it had
\* read it and found nothing in it; no other operation replaces one.
THEOREM OriginOverwritesNothing == Spec => NothingOverwritten
<1> DEFINE Spares ==
      \A a \in Agent :
          workspace'[a] # workspace[a] /\ workspace[a] = "foreign" => Vacant(op[a].saw)
<1>1. ASSUME OriginInv, [Next]_vars
      PROVE  Spares
  <2> SUFFICES ASSUME NEW a \in Agent, workspace'[a] # workspace[a], workspace[a] = "foreign"
               PROVE  Vacant(op[a].saw)
    OBVIOUS
  <2>0. TypeOK /\ workspace \in [Agent -> Tree]
    BY <1>1, TypeParts DEF OriginInv
  <2>1. ASSUME NEW b \in Agent, Drift(b) PROVE FALSE
    BY <2>0, <2>1 DEF Drift
  <2>2. ASSUME NEW b \in Agent, CreateStep(b) \/ StartupStep(b) PROVE FALSE
    BY <2>2 DEF CreateStep, CreateInProcess, FillWorkspace, CreateUnderWorker, PushRow, CreateFails,
                StartupStep, FindHead, Adopt, ProjectAdopted, workerVars, treeVars
  <2>3. ASSUME NEW b \in Agent, WorkerStep(b) PROVE Place(b) /\ b = a
    <3>1. Place(b)
      BY <2>3 DEF WorkerStep, Begin, Check, Stage, Copy, Prepare, Look, Capture, Complete, Answer,
                  ResumeIntent, CheckHead, treeVars
    <3>2. b = a
      BY <2>0, <3>1 DEF Place
    <3> QED
      BY <3>1, <3>2
  <2>4. Place(a) => Vacant(op[a].saw)
    BY <1>1 DEF Place, At, OriginInv, StepFits
  <2>5. ASSUME NEW b \in Agent, TimesOut(b) \/ StepFails(b) PROVE FALSE
    BY <2>5 DEF TimesOut, StepFails, treeVars
  <2>6. \E b \in Agent : \/ CreateStep(b) \/ StartupStep(b) \/ WorkerStep(b)
                       \/ TimesOut(b) \/ StepFails(b) \/ Drift(b)
    BY <1>1 DEF Next, StartupThrows, ProductEnds, Serve, ProductDies, StartProduct, Migrate,
                WorkerStarts, CreateFile, FillFile, ReadFiles, OpenWorker, WorkerDies, vars,
                workerVars, treeVars
  <2> QED
    BY <2>1, <2>2, <2>3, <2>4, <2>5, <2>6
<1> QED
  BY <1>1, OriginCorrect, PTL DEF Spec, NothingOverwritten
=============================================================================
