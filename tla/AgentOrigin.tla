---------------------------- MODULE AgentOrigin ----------------------------
(***************************************************************************)
(* How an Agent comes to be: created in process, created under the Worker, *)
(* or adopted by the Worker, once, when the product first starts over it   *)
(* (agent-service.ts, workspace.ts, transition-worker/worker.ts).  Product *)
(* and Worker die between any two steps, a call may be given up while the  *)
(* Worker still carries it out, any of its steps may fail, and others may  *)
(* write to an adopted tree or to the Worker's workspaces.                 *)
(*                                                                         *)
(* A tree is "none", "empty", "partial" (being written), "birth" (what the *)
(* Agent's row and View name) or "foreign".                                *)
(***************************************************************************)
EXTENDS Naturals, FiniteSets

CONSTANTS
    Agent,
    MaxTroubles, MaxDrifts, MaxTimeouts \* bounds: deaths and failures, others' writes,
                                        \* calls given up

ASSUME OriginAssumption ==
    IsFiniteSet(Agent) /\ {MaxTroubles, MaxDrifts, MaxTimeouts} \subseteq Nat

VARIABLES
    mode,       \* "in-process", or "worker" once the product is moved over it
    product,    \* "down", "starting", "ready"
    rows,       \* the product's record of each Agent: "none", "legacy", "worker"
    call,       \* where the product is with each Agent
    visited,    \* the Agents this startup is done with
    old,        \* the in-process workspaces, read-only to the Worker
    asked,      \* Agents with a request whose caller still listens
    late,       \* requests the Worker has yet to take whose caller is gone
    worker,     \* "down", "starting", "recovering", "up"
    control,    \* the Worker's own files: "none", "torn" (created, not filled), "whole"
    creating,   \* the one of them this start has created and not filled yet
    recovered,  \* the Agents Worker.initialize is done with
    op,         \* the operation that holds each Agent's queue in the Worker
    staging, workspace, snapshot, \* the Worker's trees
    log,        \* the initial intent of each Agent: "none", "prepared", "done"
    target,     \* the tree that intent binds
    troubles, drifts, timeouts

rowVars == <<mode, product, rows, visited, old>>
productVars == <<rowVars, call>>
requestVars == <<asked, late>>
treeVars == <<staging, workspace, snapshot>>
logVars == <<log, target>>
controlVars == <<control, creating>>
workerVars == <<worker, controlVars, recovered, op, treeVars, logVars>>
boundVars == <<troubles, drifts, timeouts>>
vars == <<productVars, requestVars, workerVars, boundVars>>

File == {"marker", "key"}
None == "none"

\* "saw" is the workspace as the operation last read it.
NoOp == [step |-> "idle", heard |-> FALSE, saw |-> "unread"]

Init ==
    /\ mode = "in-process" /\ product = "ready" /\ visited = {}
    /\ rows = [a \in Agent |-> "none"] /\ call = [a \in Agent |-> "new"]
    /\ old = [a \in Agent |-> "none"]
    /\ asked = {} /\ late = [a \in Agent |-> 0]
    /\ worker = "down" /\ control = [f \in File |-> "none"] /\ creating = None
    /\ recovered = {} /\ op = [a \in Agent |-> NoOp]
    /\ staging = [a \in Agent |-> "none"] /\ snapshot = [a \in Agent |-> "none"]
    /\ workspace \in [Agent -> {"none", "empty"}]
    /\ log = [a \in Agent |-> "none"] /\ target = [a \in Agent |-> "none"]
    /\ troubles = 0 /\ drifts = 0 /\ timeouts = 0

\* An Agent the Worker can only adopt.
Legacy(a) == old[a] # "none"

----------------------------------------------------------------------------
(* AgentService.createAgent. *)

Creates(a, m) == mode = m /\ product = "ready" /\ rows[a] = "none"
CallIs(a, c) == call' = [call EXCEPT ![a] = c]

\* WorkspaceManager.create makes the directory ...
CreateInProcess(a) ==
    /\ Creates(a, "in-process") /\ call[a] = "new"
    /\ CallIs(a, "filling") /\ old' = [old EXCEPT ![a] = "partial"]
    /\ UNCHANGED <<mode, product, rows, visited, requestVars, workerVars, boundVars>>

\* ... and fills it; coordinator.initializeAgent records it.
FillWorkspace(a) ==
    /\ Creates(a, "in-process") /\ call[a] = "filling"
    /\ CallIs(a, "answered") /\ old' = [old EXCEPT ![a] = "birth"]
    /\ UNCHANGED <<mode, product, rows, visited, requestVars, workerVars, boundVars>>

\* The identifier is new, so a call that fails is never made again.
CreateUnderWorker(a) ==
    /\ Creates(a, "worker") /\ call[a] = "new" /\ worker = "up"
    /\ CallIs(a, "asked") /\ asked' = asked \cup {a}
    /\ UNCHANGED <<rowVars, late, workerVars, boundVars>>

\* The row comes last.
PushRow(a) ==
    /\ product = "ready" /\ call[a] = "answered" /\ CallIs(a, "over")
    /\ rows' = [rows EXCEPT ![a] = IF mode = "worker" THEN "worker" ELSE "legacy"]
    /\ UNCHANGED <<mode, product, visited, old, requestVars, workerVars, boundVars>>

\* The rejection reaches the client; no row is written.
CreateFails(a) ==
    /\ product = "ready" /\ call[a] = "failed" /\ CallIs(a, "over")
    /\ UNCHANGED <<rowVars, requestVars, workerVars, boundVars>>

----------------------------------------------------------------------------
(* initializeWorkerAuthorityProjection, one Agent after the other. *)

HasHead(a) == log[a] = "done"

Starting(a) ==
    /\ product = "starting" /\ rows[a] # "none" /\ a \notin visited
    /\ \A b \in Agent \ {a} : call[b] \in {"new", "over"}

\* applyWorkerHead and applyWorkerVersions.
Project(a) ==
    /\ rows' = [rows EXCEPT ![a] = "worker"] /\ visited' = visited \cup {a}
    /\ CallIs(a, "over")

\* getProjection shows a head: nothing to adopt.
FindHead(a) ==
    /\ Starting(a) /\ call[a] \in {"new", "over"} /\ worker = "up" /\ HasHead(a) /\ Project(a)
    /\ UNCHANGED <<mode, product, old, requestVars, workerVars, boundVars>>

Adopt(a) ==
    /\ Starting(a) /\ call[a] \in {"new", "over"} /\ worker = "up" /\ ~HasHead(a)
    /\ CallIs(a, "asked") /\ asked' = asked \cup {a}
    /\ UNCHANGED <<rowVars, late, workerVars, boundVars>>

ProjectAdopted(a) ==
    /\ Starting(a) /\ call[a] = "answered" /\ Project(a)
    /\ UNCHANGED <<mode, product, old, requestVars, workerVars, boundVars>>

\* Requests not taken yet lose their caller, and so do those under way.
Orphaned(A) ==
    /\ asked' = asked \ A
    /\ late' = [a \in Agent |-> IF a \in asked \cap A THEN late[a] + 1 ELSE late[a]]
    /\ op' = [a \in Agent |-> IF a \in A THEN [op[a] EXCEPT !.heard = FALSE] ELSE op[a]]

\* The product's process ends, and every call in it.
ProductEnds ==
    /\ product' = "down" /\ visited' = {} /\ Orphaned(Agent)
    /\ call' = [a \in Agent |-> IF call[a] = "new" THEN "new" ELSE "over"]
    /\ UNCHANGED <<mode, rows, old, worker, controlVars, recovered, treeVars, logVars>>

\* The Worker refuses, or cannot be reached: the startup throws.
StartupThrows ==
    /\ \E a \in Agent :
        /\ Starting(a)
        /\ call[a] = "failed" \/ (call[a] \in {"new", "over"} /\ worker # "up")
    /\ ProductEnds /\ UNCHANGED boundVars

Serve ==
    /\ product = "starting" /\ {a \in Agent : rows[a] # "none"} \subseteq visited
    /\ product' = "ready"
    /\ UNCHANGED <<mode, rows, call, visited, old, requestVars, workerVars, boundVars>>

ProductDies ==
    /\ product # "down" /\ troubles < MaxTroubles /\ troubles' = troubles + 1
    /\ ProductEnds /\ UNCHANGED <<drifts, timeouts>>

StartProduct ==
    /\ product = "down" /\ product' = IF mode = "worker" THEN "starting" ELSE "ready"
    /\ UNCHANGED <<mode, rows, call, visited, old, requestVars, workerVars, boundVars>>

\* The operator stops the product, when no call is under way, and moves it
\* over the Worker.
Migrate ==
    /\ mode = "in-process" /\ call \in [Agent -> {"new", "over"}]
    /\ mode' = "worker" /\ product' = "down"
    /\ UNCHANGED <<rows, call, visited, old, requestVars, workerVars, boundVars>>

\* TransitionWorkerRpcClient.request destroys the socket; the Worker is not told.
TimesOut(a) ==
    /\ call[a] = "asked" /\ timeouts < MaxTimeouts /\ timeouts' = timeouts + 1
    /\ CallIs(a, "failed") /\ Orphaned({a})
    /\ UNCHANGED <<rowVars, worker, controlVars, recovered, treeVars, logVars, troubles, drifts>>

----------------------------------------------------------------------------
(* The Worker: initializeAgent and adoptLegacyState, each in its Agent's queue. *)

At(a, step) == op[a].step = step
Goto(a, step) == op' = [op EXCEPT ![a].step = step]

\* serial is left; a caller that still listens hears the answer.
Leave(a, answer) ==
    /\ op' = [op EXCEPT ![a] = NoOp]
    /\ IF op[a].heard THEN CallIs(a, answer) ELSE UNCHANGED call

\* A fault rejects the operation; within Worker.initialize it ends the Worker.
Fault(a) ==
    IF worker = "recovering"
    THEN worker' = "down" /\ op' = [op EXCEPT ![a] = NoOp] /\ UNCHANGED call
    ELSE Leave(a, "failed") /\ UNCHANGED worker

Vacant(tree) == tree \in {"none", "empty"}

\* Mutant: what the log holds is not looked at.
Resumption_Mutant(a) == IF HasHead(a) THEN "answer" ELSE "check"

\* recoverPendingWorkerIntents comes first, then the projection is read.
Resumption(a) ==
    CASE log[a] = "prepared" -> "finish" [] HasHead(a) -> "answer" [] OTHER -> "check"

Begin(a) ==
    /\ worker = "up" /\ At(a, "idle")
    /\ \/ /\ a \in asked /\ asked' = asked \ {a} /\ UNCHANGED late
          /\ op' = [op EXCEPT ![a] = [NoOp EXCEPT !.step = Resumption(a), !.heard = TRUE]]
       \/ /\ late[a] > 0 /\ late' = [late EXCEPT ![a] = @ - 1] /\ UNCHANGED asked
          /\ op' = [op EXCEPT ![a] = [NoOp EXCEPT !.step = Resumption(a)]]
    /\ UNCHANGED <<productVars, worker, controlVars, recovered, treeVars, logVars, boundVars>>

\* The source must have the hash of the row, the workspace must hold nothing.
Check(a) ==
    /\ At(a, "check")
    /\ IF (Legacy(a) => old[a] = "birth") /\ Vacant(workspace[a])
       THEN Goto(a, "stage") /\ UNCHANGED <<call, worker>>
       ELSE Fault(a)
    /\ UNCHANGED <<rowVars, requestVars, controlVars, recovered, treeVars, logVars, boundVars>>

\* What an interrupted attempt left is removed.
Stage(a) ==
    /\ At(a, "stage") /\ Goto(a, "copy") /\ staging' = [staging EXCEPT ![a] = "partial"]
    /\ UNCHANGED <<productVars, requestVars, worker, controlVars, recovered, workspace, snapshot,
                   logVars, boundVars>>

\* "Legacy import changed during copy".
CopyHolds(a) == Legacy(a) => old[a] = "birth"

Copy(a) ==
    /\ At(a, "copy")
    /\ staging' = [staging EXCEPT ![a] = IF Legacy(a) THEN old[a] ELSE "birth"]
    /\ IF CopyHolds(a) THEN Goto(a, "prepare") /\ UNCHANGED <<call, worker>> ELSE Fault(a)
    /\ UNCHANGED <<rowVars, requestVars, controlVars, recovered, workspace, snapshot, logVars,
                   boundVars>>

\* AGENT_INITIALIZATION_PREPARED or LEGACY_ADOPTION_PREPARED.
Prepare(a) ==
    /\ At(a, "prepare") /\ Goto(a, "finish")
    /\ log' = [log EXCEPT ![a] = "prepared"] /\ target' = [target EXCEPT ![a] = staging[a]]
    /\ UNCHANGED <<productVars, requestVars, worker, controlVars, recovered, treeVars, boundVars>>

----------------------------------------------------------------------------
(* finishInitialAuthorityIntent, after Prepare, at the head of a later call *)
(* or when the Worker starts.                                              *)

\* Mutant: the workspace that is already in place is not recognised.
IsPlaced_Mutant(a, tree) == FALSE

IsPlaced(a, tree) == tree = target[a]

\* Mutant: a workspace that holds something is no reason to stop.
MayPlace_Mutant(a, tree) == staging[a] = target[a]

\* The staged tree is the bound one and nothing would be overwritten.
MayPlace(a, tree) == staging[a] = target[a] /\ Vacant(tree)

\* The workspace is read ...
Look(a) ==
    /\ At(a, "finish")
    /\ LET tree == workspace[a]
           next == IF IsPlaced(a, tree) THEN "capture" ELSE "place"
       IN  IF IsPlaced(a, tree) \/ MayPlace(a, tree)
           THEN /\ op' = [op EXCEPT ![a].step = next, ![a].saw = tree]
                /\ UNCHANGED <<call, worker>>
           ELSE Fault(a)
    /\ UNCHANGED <<rowVars, requestVars, controlVars, recovered, treeVars, logVars, boundVars>>

\* ... and, if there was one, removed; rename fails on one that came since.
Place(a) ==
    /\ At(a, "place")
    /\ IF op[a].saw = "none" /\ ~Vacant(workspace[a])
       THEN Fault(a) /\ UNCHANGED <<staging, workspace>>
       ELSE /\ workspace' = [workspace EXCEPT ![a] = staging[a]]
            /\ staging' = [staging EXCEPT ![a] = "none"]
            /\ Goto(a, "capture") /\ UNCHANGED <<call, worker>>
    /\ UNCHANGED <<rowVars, requestVars, controlVars, recovered, snapshot, logVars, boundVars>>

\* captureSnapshot: what is there is verified, what is not there is copied.
Capture(a) ==
    /\ At(a, "capture")
    /\ IF workspace[a] = target[a] /\ snapshot[a] \in {"none", target[a]}
       THEN /\ snapshot' = [snapshot EXCEPT ![a] = target[a]]
            /\ Goto(a, "complete") /\ UNCHANGED <<call, worker>>
       ELSE Fault(a) /\ UNCHANGED snapshot
    /\ UNCHANGED <<rowVars, requestVars, controlVars, recovered, staging, workspace, logVars,
                   boundVars>>

\* AGENT_INITIALIZED or LEGACY_STATE_ADOPTED.
Complete(a) ==
    /\ At(a, "complete") /\ Goto(a, "answer") /\ log' = [log EXCEPT ![a] = "done"]
    /\ UNCHANGED <<productVars, requestVars, worker, controlVars, recovered, treeVars, target,
                   boundVars>>

\* cleanupCompletedIntent, then the projection is the answer.
Answer(a) ==
    /\ At(a, "answer") /\ worker = "up" /\ Leave(a, "answered")
    /\ staging' = [staging EXCEPT ![a] = "none"]
    /\ UNCHANGED <<rowVars, requestVars, worker, controlVars, recovered, workspace, snapshot,
                   logVars, boundVars>>

----------------------------------------------------------------------------
(* Worker.initialize: its own files, recoverAgent for every Agent with a   *)
(* log, and the sweep of the staging trees no pending intent names.        *)

WorkerStarts ==
    /\ worker = "down" /\ mode = "worker" /\ worker' = "starting"
    /\ UNCHANGED <<productVars, requestVars, controlVars, recovered, op, treeVars, logVars,
                   boundVars>>

\* A missing file is created, the profile's marker before the signing key ...
CreateFile(f) ==
    /\ worker = "starting" /\ creating = None /\ control[f] = "none"
    /\ f = "key" => control["marker"] = "whole"
    /\ control' = [control EXCEPT ![f] = "torn"] /\ creating' = f
    /\ UNCHANGED <<productVars, requestVars, worker, recovered, op, treeVars, logVars, boundVars>>

\* ... and filled, in a step of its own.
FillFile ==
    /\ worker = "starting" /\ creating # None
    /\ control' = [control EXCEPT ![creating] = "whole"] /\ creating' = None
    /\ UNCHANGED <<productVars, requestVars, worker, recovered, op, treeVars, logVars, boundVars>>

\* A file an earlier start left empty is refused, by every start.
Torn == \E f \in File : control[f] = "torn" /\ creating # f

ReadFiles ==
    /\ worker = "starting" /\ creating = None /\ recovered' = {}
    /\ Torn \/ \A f \in File : control[f] = "whole"
    /\ worker' = IF Torn THEN "down" ELSE "recovering"
    /\ UNCHANGED <<productVars, requestVars, controlVars, op, treeVars, logVars, boundVars>>

\* A pending intent is finished first, one Agent at a time.
ResumeIntent(a) ==
    /\ worker = "recovering" /\ log[a] = "prepared" /\ op = [b \in Agent |-> NoOp]
    /\ Goto(a, "finish")
    /\ UNCHANGED <<productVars, requestVars, worker, controlVars, recovered, treeVars, logVars,
                   boundVars>>

\* The workspace must be the head of the log.
CheckHead(a) ==
    /\ worker = "recovering" /\ log[a] = "done" /\ a \notin recovered
    /\ \A b \in Agent : op[b].step \in IF b = a THEN {"idle", "answer"} ELSE {"idle"}
    /\ op' = [op EXCEPT ![a] = NoOp] /\ staging' = [staging EXCEPT ![a] = "none"]
    /\ IF workspace[a] = target[a]
       THEN recovered' = recovered \cup {a} /\ UNCHANGED worker
       ELSE worker' = "down" /\ UNCHANGED recovered
    /\ UNCHANGED controlVars
    /\ UNCHANGED <<productVars, requestVars, workspace, snapshot, logVars, boundVars>>

\* gcStartupOrphans, and the socket is opened.
OpenWorker ==
    /\ worker = "recovering" /\ op = [a \in Agent |-> NoOp]
    /\ {a \in Agent : log[a] # "none"} \subseteq recovered /\ worker' = "up"
    /\ staging' = [a \in Agent |-> IF log[a] = "prepared" THEN staging[a] ELSE "none"]
    /\ UNCHANGED <<productVars, requestVars, controlVars, recovered, op, workspace, snapshot,
                   logVars, boundVars>>

\* Every operation and every request goes; a caller sees its socket close.
WorkerDies ==
    /\ worker # "down" /\ troubles < MaxTroubles /\ troubles' = troubles + 1 /\ worker' = "down"
    /\ creating' = None
    /\ op' = [a \in Agent |-> NoOp] /\ asked' = {} /\ late' = [a \in Agent |-> 0]
    /\ call' = [a \in Agent |-> IF call[a] = "asked" THEN "failed" ELSE call[a]]
    /\ UNCHANGED <<rowVars, control, recovered, treeVars, logVars, drifts, timeouts>>

\* A read, a write or an append of the operation fails.
StepFails(a) ==
    /\ op[a] # NoOp /\ troubles < MaxTroubles /\ troubles' = troubles + 1 /\ Fault(a)
    /\ UNCHANGED <<rowVars, requestVars, controlVars, recovered, treeVars, logVars, drifts,
                   timeouts>>

\* Others write: to a tree the product has a row for, or to a Worker's workspace.
Drift(a) ==
    /\ drifts < MaxDrifts /\ drifts' = drifts + 1
    /\ \/ rows[a] = "legacy" /\ old' = [old EXCEPT ![a] = "foreign"] /\ UNCHANGED workspace
       \/ workspace' = [workspace EXCEPT ![a] = "foreign"] /\ UNCHANGED old
    /\ UNCHANGED <<mode, product, rows, call, visited, requestVars, worker, controlVars,
                   recovered, op, staging, snapshot, logVars, troubles, timeouts>>

CreateStep(a) ==
    CreateInProcess(a) \/ FillWorkspace(a) \/ CreateUnderWorker(a) \/ PushRow(a) \/ CreateFails(a)
StartupStep(a) == FindHead(a) \/ Adopt(a) \/ ProjectAdopted(a)
WorkerStep(a) ==
    \/ Begin(a) \/ Check(a) \/ Stage(a) \/ Copy(a) \/ Prepare(a) \/ Look(a) \/ Place(a)
    \/ Capture(a) \/ Complete(a) \/ Answer(a) \/ ResumeIntent(a) \/ CheckHead(a)

Next ==
    \/ \E a \in Agent :
           \/ CreateStep(a) \/ StartupStep(a) \/ WorkerStep(a)
           \/ TimesOut(a) \/ StepFails(a) \/ Drift(a)
    \/ StartupThrows \/ Serve \/ ProductDies \/ StartProduct \/ Migrate
    \/ WorkerStarts \/ (\E f \in File : CreateFile(f)) \/ FillFile \/ ReadFiles \/ OpenWorker
    \/ WorkerDies

\* Both processes are restarted by their supervisor and go on with what they do.
Fairness ==
    /\ WF_vars(StartProduct) /\ WF_vars(StartupThrows) /\ WF_vars(Serve)
    /\ WF_vars(WorkerStarts) /\ WF_vars(\E f \in File : CreateFile(f)) /\ WF_vars(FillFile)
    /\ WF_vars(ReadFiles) /\ WF_vars(OpenWorker)
    /\ \A a \in Agent : WF_vars(StartupStep(a)) /\ WF_vars(WorkerStep(a))

Spec == Init /\ [][Next]_vars /\ Fairness

----------------------------------------------------------------------------
(* Properties *)

Tree == {"none", "empty", "partial", "birth", "foreign"}
Step == {"idle", "check", "stage", "copy", "prepare", "finish", "place", "capture", "complete",
         "answer"}

TypeOK ==
    /\ mode \in {"in-process", "worker"} /\ product \in {"down", "starting", "ready"}
    /\ rows \in [Agent -> {"none", "legacy", "worker"}]
    /\ call \in [Agent -> {"new", "filling", "asked", "answered", "failed", "over"}]
    /\ visited \subseteq Agent /\ asked \subseteq Agent /\ recovered \subseteq Agent
    /\ late \in [Agent -> Nat] /\ worker \in {"down", "starting", "recovering", "up"}
    /\ control \in [File -> {"none", "torn", "whole"}] /\ creating \in File \cup {None}
    /\ op \in [Agent -> [step : Step, heard : BOOLEAN, saw : Tree \cup {"unread"}]]
    /\ {old, staging, workspace, snapshot, target} \subseteq [Agent -> Tree]
    /\ log \in [Agent -> {"none", "prepared", "done"}] /\ drifts \in Nat

\* Once the product serves over the Worker, every Agent it lists has a head
\* there: initializeWorkerAuthorityProjection leaves none in process and lists
\* none on a mere intent.
ServedHasAuthority ==
    /\ product = "ready" /\ mode = "worker"
        => \A a \in Agent : rows[a] # "none" => rows[a] = "worker" /\ log[a] = "done"
    /\ mode = "in-process" => visited = {} /\ product # "starting"
    /\ \A a \in Agent :
        /\ a \in visited => rows[a] = "worker"
        /\ rows[a] = "worker" \/ (call[a] = "answered" /\ mode = "worker") => log[a] = "done"

\* What the operation in an Agent's queue relies on when it goes on.
StepFits(a) ==
    /\ op[a].step \in {"check", "stage", "copy", "prepare"} => log[a] = "none"
    /\ op[a].step \in {"finish", "place", "capture", "complete"} => log[a] = "prepared"
    /\ op[a].step = "answer" => log[a] = "done"
    /\ op[a].step = "prepare" => staging[a] = "birth"
    /\ op[a].step = "place" => staging[a] = target[a] /\ Vacant(op[a].saw)
    /\ op[a].step = "complete" => snapshot[a] = target[a]
    /\ drifts = 0 /\ op[a].step \in {"capture", "complete"} => workspace[a] = target[a]

\* However often a call is repeated, given up or cut short, the log binds the
\* tree the row names, and its head can be restored; while nobody else writes,
\* an intent in the log always has its tree, staged or in place, so that
\* finishInitialAuthorityIntent can finish it.
LogBinds(a) ==
    /\ log[a] # "none" => target[a] = "birth"
    /\ log[a] = "done" => snapshot[a] = target[a]
    /\ drifts = 0 /\ log[a] = "prepared" => target[a] \in {staging[a], workspace[a]}
    /\ drifts = 0 /\ log[a] = "done" => workspace[a] = target[a]

\* Creation, adoption and recovery keep the log, the trees and the product's
\* rows in step (agent-service.ts createAgent, worker.ts
\* finishInitialAuthorityIntent): the inductive invariant.
OriginInv == TypeOK /\ ServedHasAuthority /\ \A a \in Agent : StepFits(a) /\ LogBinds(a)

\* A workspace is replaced only if it held nothing when the Worker looked: what
\* a restored or mistaken volume holds survives creation, adoption and recovery
\* ("would overwrite an unrelated authoritative tree").
NothingOverwritten ==
    [][\A a \in Agent :
           workspace'[a] # workspace[a] /\ workspace[a] = "foreign"
               => Vacant(op[a].saw)]_vars

\* If nobody else writes, deaths, failed steps and calls given up only delay
\* the adoption of an Agent (initializeWorkerAuthorityProjection): the product
\* comes to serve for good.  The exception is a first start of the Worker that
\* is killed between creating a control file and filling it.
AdoptionCompletes == <>[](drifts > 0 \/ Torn \/ product = "ready")
=============================================================================
