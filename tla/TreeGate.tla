------------------------------ MODULE TreeGate ------------------------------
(***************************************************************************)
(* What happens to the files of an Agent's workspace between the copy an   *)
(* Agent is given and the swap of its proposal, in the in-process gate     *)
(* (coordinator.ts, sealed-proposal-store.ts, workspace-transaction.ts,    *)
(* version-store.ts) and in the Worker (worker.ts, filesystem.ts): every   *)
(* scan, copy and comparison of trees, with an Agent whose processes       *)
(* outlive it and others who write to the directories the gate owns.       *)
(*                                                                         *)
(* One action per scan, comparison or rename, and per copy with the scan   *)
(* of what it copied: others may write between any two.  Operations come   *)
(* one at a time.  Their durable records, deaths and recovery are modelled *)
(* in CommitGate and TransitionWorker.                                     *)
(***************************************************************************)
EXTENDS ManifestPolicy

CONSTANTS
    Gates,      \* the gates of the instance, "local" or "worker"
    Workspace,  \* the first workspace
    Writable,   \* the nodes anybody may write
    Required,   \* ids of the required checks
    CheckLists, \* what a verifier may answer
    None,
    MaxRuns, MaxWrites, MaxDrifts \* bounds: operations, writes, of others among them

ASSUME TreeGateAssumption ==
    /\ Gates \subseteq {"local", "worker"} /\ Writable \subseteq Node
    /\ DOMAIN Workspace \subseteq Path
    /\ {MaxRuns, MaxWrites, MaxDrifts} \subseteq Nat

VARIABLES
    gate,       \* which gate this is
    ws,         \* the persistent workspace
    live,       \* the manifest the last transition left, what Views bind
    rendered,   \* the platform's files as they are configured
    candidate,  \* the candidate's tree, None when there is none
    payload,    \* the sealed payload, None before the copy
    staging,    \* the tree to be swapped in
    backup,     \* the tree that gave up the workspace's name, None before the swap
    job,        \* the operation in progress
    checks,     \* what the verifier answered
    versions,   \* the versions' manifests, oldest first
    snapshots,  \* the snapshot of each manifest
    runs, edits, drifts

treeVars == <<ws, live, rendered, candidate, payload, staging, backup>>
storeVars == <<versions, snapshots>>
boundVars == <<runs, edits, drifts>>
vars == <<gate, treeVars, job, checks, storeVars, boundVars>>

\* An operation: what it is, what it was asked for (a version, the platform's
\* files), the manifests it goes by - of the workspace it replaces, of the one
\* its proposal is held against, of the tree it installs, of the workspace after
\* the swap - and what others did: whether the Agent wrote after its end, in
\* which windows somebody wrote to the workspace.
Idle == [step |-> "idle", kind |-> None, target |-> None, base |-> None, diffBase |-> None,
         scan |-> None, final |-> None, late |-> FALSE, struck |-> {}]

Worker == gate = "worker"

\* What a version keeps: the in-process gate's leaves the platform's files out.
Kept(g, t) == IF g = "worker" THEN ClosedCopy(t) ELSE Part(t, {"versioned"})

Init ==
    /\ gate \in Gates
    /\ ws = Workspace /\ live = Manifest(Workspace) /\ rendered = Restrict(Workspace, Managed)
    /\ candidate = None /\ payload = None /\ staging = None /\ backup = None
    /\ job = Idle /\ checks = None
    /\ versions = <<Kept(gate, Workspace)>>
    /\ snapshots = (Kept(gate, Workspace) :> Kept(gate, Workspace))
    /\ runs = 0 /\ edits = 0 /\ drifts = 0

----------------------------------------------------------------------------
(* Writes to a tree that are not the gate's. *)

WritableAt(t, p) ==
    Len(p) = 1 \/ (NodeAt(t, Front(p)).kind = "dir" /\ NodeAt(t, Front(p)).writable)

\* A node is made or replaced, removed with all below it, or its mode changes.
Writes(t) ==
    LET places == {p \in Path : WritableAt(t, p)} IN
    {(p :> n) @@ t : p \in {q \in places : Children(t, q) = {}}, n \in Writable}
      \cup {Restrict(t, DOMAIN t \ ({p} \cup Children(t, p))) : p \in places \cap DOMAIN t}
      \cup {[t EXCEPT ![p].writable = ~@] : p \in {q \in DOMAIN t : t[q].kind \in {"file", "dir"}}}

----------------------------------------------------------------------------
(* What the two gates have of their own. *)

\* Mutant: the hash of a manifest leaves the modes out.
ReadsAs_Mutant(t, m) ==
    /\ IF Worker THEN ~WorkerRefuses(t) ELSE ~ManifestRefuses(t)
    /\ Readonly(Manifest(t)) = Readonly(m)

\* The tree can be scanned, and its manifest is m.
ReadsAs(t, m) ==
    /\ IF Worker THEN ~WorkerRefuses(t) ELSE ~ManifestRefuses(t)
    /\ Manifest(t) = m

Scans(t) == ReadsAs(t, Manifest(t)) /\ (Worker \/ ~AuditRefuses(t))

\* The sealed payload is still what was sealed.
Intact == IF Worker THEN ReadsAs(payload, job.scan) ELSE SealIntact(payload, job.scan)

PolicyPermits ==
    IF Worker THEN WorkerStaticPasses(job.diffBase, job.scan)
    ELSE StaticPasses(job.diffBase, job.scan)

\* normalizeCheckResult: a status it does not know is an error.
StatusOf(c) == IF c.status \in {"PASS", "FAIL", "SKIPPED"} THEN c.status ELSE "ERROR"
CleanPass(c) == StatusOf(c) = "PASS" /\ c.exit = 0 /\ ~c.timedOut

\* assessTrustedChecks has no evidence failure.
EvidenceComplete(list) ==
    /\ \A i \in DOMAIN list :
          /\ list[i].id \in Required /\ \A j \in 1..(i - 1) : list[j].id # list[i].id
          /\ \/ CleanPass(list[i])
             \/ StatusOf(list[i]) = "FAIL" /\ list[i].exit \notin {0, None} /\ ~list[i].timedOut
    /\ Required \subseteq {list[i].id : i \in DOMAIN list}

LocalVerdict(list) ==
    IF ~EvidenceComplete(list) THEN "ABORTED"
    ELSE IF \E i \in DOMAIN list : StatusOf(list[i]) = "FAIL" THEN "QUARANTINED" ELSE "PASS"

\* validateWorkerEvidenceContract, from the coverage on.
WorkerContract(list) ==
    /\ Len(list) = Cardinality(Required) /\ IsInjective([i \in DOMAIN list |-> list[i].id])
    /\ Required \subseteq {list[i].id : i \in DOMAIN list}
    /\ \A i \in DOMAIN list : CleanPass(list[i])

ChecksPass == IF Worker THEN WorkerContract(checks) ELSE LocalVerdict(checks) = "PASS"

----------------------------------------------------------------------------
(* A run. *)

At(step) == job.step = step
Goto(step) == job' = [job EXCEPT !.step = step]

Ends(end) ==
    /\ job' = end
    /\ candidate' = None /\ payload' = None /\ staging' = None /\ backup' = None /\ checks' = None

\* A refused operation leaves nothing: reject, disposeRun.
Refuse ==
    /\ Ends(Idle)
    /\ UNCHANGED <<gate, ws, live, rendered, storeVars, boundVars>>

\* Where an operation ends whose workspace nobody may put right but an operator:
\* recoveryReservations, RECOVERY_REQUIRED.
Locked == [Idle EXCEPT !.step = "locked"]

\* prepare, prepareRun: the workspace the admitted View binds is copied.
Prepare ==
    /\ At("idle") /\ runs < MaxRuns /\ runs' = runs + 1
    /\ ReadsAs(ws, live)
    /\ candidate' = IF Worker THEN WithMountpoints(ClosedCopy(ws))
                    ELSE CopyInto(EmptyTree, ws, Authoritative)
    /\ job' = [Idle EXCEPT !.step = "agent", !.kind = "run", !.base = live]
    /\ UNCHANGED <<gate, ws, live, rendered, payload, staging, backup, checks, storeVars, edits, drifts>>

\* The Agent, or what it has left running, writes to its candidate.
AgentWrites ==
    /\ candidate # None /\ edits + drifts < MaxWrites /\ edits' = edits + 1
    /\ candidate' \in Writes(candidate)
    /\ job' = [job EXCEPT !.late = @ \/ ~At("agent")]
    /\ UNCHANGED <<gate, ws, live, rendered, payload, staging, backup, checks, storeVars, runs, drifts>>

\* verifyAndFinalize and sealProposal scan the candidate.  The Worker takes the
\* manifest it compares with from the workspace as it is now.
Scan ==
    /\ At("agent") /\ Scans(candidate)
    /\ Worker => ReadsAs(ws, Manifest(ws))
    /\ job' = [job EXCEPT !.step = "scanned", !.scan = Manifest(candidate),
                          !.diffBase = IF Worker THEN Manifest(ws) ELSE job.base]
    /\ UNCHANGED <<gate, treeVars, checks, storeVars, boundVars>>

ScanRefuses ==
    /\ At("agent") /\ (~Scans(candidate) \/ (Worker /\ ~ReadsAs(ws, Manifest(ws))))
    /\ Refuse

\* The candidate is copied, if it is still what was scanned ...
CopyCandidate ==
    /\ At("scanned") /\ ReadsAs(candidate, job.scan)
    /\ payload' = IF Worker THEN ClosedCopy(candidate)
                  ELSE CopyInto(EmptyTree, candidate, Authoritative)
    /\ Goto("copied")
    /\ UNCHANGED <<gate, ws, live, rendered, candidate, staging, backup, checks, storeVars, boundVars>>

\* ... and sealed if the copy and, after it, the candidate are too.  The
\* in-process gate takes the write bits and removes the candidate.
Seal ==
    /\ At("copied") /\ ReadsAs(candidate, job.scan) /\ ReadsAs(payload, job.scan)
    /\ Worker \/ Removable(candidate)
    /\ payload' = IF Worker THEN payload ELSE Readonly(payload)
    /\ candidate' = None
    /\ Goto("sealed")
    /\ UNCHANGED <<gate, ws, live, rendered, staging, backup, checks, storeVars, boundVars>>

SealRefuses ==
    /\ \/ At("scanned") /\ ~ReadsAs(candidate, job.scan)
       \/ At("copied") /\ ~(ReadsAs(candidate, job.scan) /\ ReadsAs(payload, job.scan))
       \/ At("copied") /\ ~Worker /\ ~Removable(candidate)
    /\ Refuse

\* The sealed proposal is held against the policy, then verified.
RunChecks ==
    /\ At("sealed") /\ PolicyPermits /\ Intact
    /\ checks' \in CheckLists
    /\ Goto("checked")
    /\ UNCHANGED <<gate, treeVars, storeVars, boundVars>>

PolicyRefuses == At("sealed") /\ ~(PolicyPermits /\ Intact) /\ Refuse

\* The permit: the checks, the seal and the View once more.
Authorize ==
    /\ At("checked") /\ ChecksPass /\ Intact /\ ReadsAs(ws, job.base)
    /\ Goto("authorized")
    /\ UNCHANGED <<gate, treeVars, checks, storeVars, boundVars>>

AuthorizeRefuses == At("checked") /\ ~(ChecksPass /\ Intact /\ ReadsAs(ws, job.base)) /\ Refuse

----------------------------------------------------------------------------
(* The transition of the workspace. *)

\* Mutant: the modes the seal took are not given back.
PromotionTree_Mutant ==
    IF Worker THEN ClosedCopy(payload)
    ELSE CopyInto(CopyInto(EmptyTree, payload, {"versioned"}), ws, {"managed"})

\* promote: the proposal's versioned files, the platform's own files of now,
\* and the modes of the manifest.  The Worker copies the proposal.
PromotionTree ==
    IF Worker THEN ClosedCopy(payload)
    ELSE ApplyModes(CopyInto(CopyInto(EmptyTree, payload, {"versioned"}), ws, {"managed"}), job.scan)

Stage ==
    /\ At("authorized") /\ Intact
    /\ DOMAIN job.scan \subseteq DOMAIN PromotionTree /\ ReadsAs(PromotionTree, job.scan)
    /\ staging' = PromotionTree
    /\ Goto("staged")
    /\ UNCHANGED <<gate, ws, live, rendered, candidate, payload, backup, checks, storeVars, boundVars>>

\* The Worker has begun to consume the permit: it goes back to the base or needs
\* repair.
GivesUp ==
    /\ Ends(IF Worker /\ ~ReadsAs(ws, job.base) THEN Locked ELSE Idle)
    /\ UNCHANGED <<gate, ws, live, rendered, storeVars, boundVars>>

StageRefuses ==
    /\ At("authorized")
    /\ ~(Intact /\ DOMAIN job.scan \subseteq DOMAIN PromotionTree /\ ReadsAs(PromotionTree, job.scan))
    /\ GivesUp

\* A file is renamed over what has its name, unless that is a directory.
Renders(files) == \A p \in DOMAIN files : NodeAt(ws, p).kind # "dir"

\* A rollback (rollbackAgent, applyRollback).  The in-process gate renders the
\* platform's files first, the Worker compares its workspace with the View.
BeginRollback(k) ==
    /\ At("idle") /\ runs < MaxRuns /\ runs' = runs + 1
    /\ IF Worker
       THEN ReadsAs(ws, live) /\ ReadsAs(snapshots[versions[k]], versions[k]) /\ UNCHANGED ws
       ELSE Renders(rendered) /\ ws' = rendered @@ ws
    /\ job' = [Idle EXCEPT !.step = IF Worker THEN "based" ELSE "rendered", !.kind = "rollback",
                          !.target = k, !.base = IF Worker THEN live ELSE None]
    /\ UNCHANGED <<gate, live, rendered, candidate, payload, staging, backup, checks, storeVars, edits, drifts>>

\* The platform's files are configured anew (updateAgent).  The Worker makes them
\* in a staging copy, the in-process gate in the workspace.
Configure(p, n) ==
    LET files == [rendered EXCEPT ![p] = n] IN
    /\ At("idle") /\ runs < MaxRuns /\ runs' = runs + 1
    /\ n.kind = "file" /\ files # rendered
    /\ IF Worker THEN ReadsAs(ws, live) /\ UNCHANGED ws ELSE Renders(files) /\ ws' = files @@ ws
    /\ job' = [Idle EXCEPT !.step = IF Worker THEN "based" ELSE "rendered", !.kind = "configuration",
                          !.target = files, !.base = IF Worker THEN live ELSE None]
    /\ UNCHANGED <<gate, live, rendered, candidate, payload, staging, backup, checks, storeVars, edits, drifts>>

\* stageRollback: whatever the workspace is now is what is rolled back from ...
ReadBase ==
    /\ At("rendered") /\ job.kind = "rollback" /\ ReadsAs(ws, Manifest(ws))
    /\ job' = [job EXCEPT !.step = "based", !.base = Manifest(ws)]
    /\ UNCHANGED <<gate, treeVars, checks, storeVars, boundVars>>

ReadBaseRefuses ==
    /\ At("rendered") /\ job.kind = "rollback" /\ ~ReadsAs(ws, Manifest(ws))
    /\ Refuse

\* ... and updateAgent takes it as the new View, or puts the files back.
Adopt ==
    /\ At("rendered") /\ job.kind = "configuration" /\ ReadsAs(ws, Manifest(ws))
    /\ live' = Manifest(ws) /\ rendered' = job.target
    /\ Ends(Idle)
    /\ UNCHANGED <<gate, ws, storeVars, boundVars>>

AdoptRefuses ==
    /\ At("rendered") /\ job.kind = "configuration" /\ ~ReadsAs(ws, Manifest(ws))
    /\ ws' = IF Renders(rendered) THEN rendered @@ ws ELSE ws
    /\ Ends(Idle)
    /\ UNCHANGED <<gate, live, rendered, storeVars, boundVars>>

\* The tree of a rollback is its version's and, in-process, the platform's files
\* as they are in the workspace when they are copied; that of a configuration is
\* the workspace's with the new files.
OtherTree ==
    IF job.kind = "configuration" THEN job.target @@ ClosedCopy(ws)
    ELSE IF Worker THEN ClosedCopy(snapshots[versions[job.target]])
    ELSE CopyInto(CopyInto(EmptyTree, snapshots[versions[job.target]], {"versioned"}), ws, {"managed"})

\* The snapshot is what its version was; a configuration touches nothing else.
OtherPermitted ==
    IF job.kind = "configuration"
    THEN ReadsAs(ws, Manifest(ws)) /\ Part(OtherTree, {"versioned"}) = Part(live, {"versioned"})
    ELSE LET m == versions[job.target] IN
         IF Worker THEN ReadsAs(snapshots[m], m)
         ELSE ~ManifestRefuses(snapshots[m]) /\ Part(snapshots[m], {"versioned"}) = m

StageOther ==
    /\ At("based") /\ OtherPermitted /\ ReadsAs(OtherTree, Manifest(OtherTree))
    /\ staging' = OtherTree
    /\ job' = [job EXCEPT !.step = "staged", !.scan = Manifest(OtherTree)]
    /\ UNCHANGED <<gate, ws, live, rendered, candidate, payload, backup, checks, storeVars, boundVars>>

StageOtherRefuses ==
    /\ At("based") /\ ~(OtherPermitted /\ ReadsAs(OtherTree, Manifest(OtherTree)))
    /\ IF job.kind = "configuration" THEN Refuse ELSE GivesUp

\* Mutant: nobody compares the workspace with the base.
CompareBase_Mutant ==
    /\ At("staged")
    /\ Goto("compared")
    /\ UNCHANGED <<gate, treeVars, checks, storeVars, boundVars>>

\* The base is still there: the permit is consumed ...
CompareBase ==
    /\ At("staged") /\ ReadsAs(ws, job.base)
    /\ Goto("compared")
    /\ UNCHANGED <<gate, treeVars, checks, storeVars, boundVars>>

\* (The Worker finds a configuration made that somebody else has made.)
AlreadyThere ==
    /\ At("staged") /\ Worker /\ job.kind = "configuration"
    /\ ~ReadsAs(ws, job.base) /\ ReadsAs(ws, job.scan)
    /\ Goto("confirmed")
    /\ UNCHANGED <<gate, treeVars, checks, storeVars, boundVars>>

CompareRefuses ==
    /\ At("staged") /\ ~ReadsAs(ws, job.base)
    /\ Worker /\ job.kind = "configuration" => ~ReadsAs(ws, job.scan)
    /\ GivesUp

\* ... and the trees change names, whatever the workspace is by then.  Nobody
\* writes to a workspace that has no name: the two renames are one action.
Exchange ==
    /\ At("compared")
    /\ backup' = ws /\ ws' = staging /\ staging' = None
    /\ Goto("exchanged")
    /\ UNCHANGED <<gate, live, rendered, candidate, payload, checks, storeVars, boundVars>>

\* What is in place is what was staged.
Confirm ==
    /\ At("exchanged") /\ ReadsAs(ws, job.scan)
    /\ Goto("confirmed")
    /\ UNCHANGED <<gate, treeVars, checks, storeVars, boundVars>>

\* A version is recorded with its snapshot, unless there is one.
Record(m) ==
    /\ versions' = Append(versions, m)
    /\ snapshots' = IF m \in DOMAIN snapshots THEN snapshots ELSE (m :> m) @@ snapshots

\* finishAppliedTransition: the Worker binds what it meant to install, with the
\* snapshot it has or makes of the workspace.
Recordable ==
    job.kind = "configuration" \/
    ReadsAs(IF job.scan \in DOMAIN snapshots THEN snapshots[job.scan] ELSE ws, job.scan)

RecordTarget ==
    /\ At("confirmed") /\ Worker /\ Recordable
    /\ IF job.kind = "configuration" THEN rendered' = job.target /\ UNCHANGED storeVars
       ELSE Record(job.scan) /\ UNCHANGED rendered
    /\ live' = job.scan
    /\ Ends(Idle)
    /\ UNCHANGED <<gate, ws, boundVars>>

\* The in-process gate takes the new View from the workspace: in a promotion
\* before the version is recorded, from the sealed payload (stageAcknowledge) ...
ReadFinal ==
    /\ At("confirmed") /\ ~Worker /\ job.kind = "run" /\ ReadsAs(ws, Manifest(ws))
    /\ job' = [job EXCEPT !.step = "final", !.final = Manifest(ws)]
    /\ UNCHANGED <<gate, treeVars, checks, storeVars, boundVars>>

RecordCommit ==
    /\ At("final") /\ Intact
    /\ Record(Kept(gate, job.scan)) /\ live' = job.final
    /\ Ends(Idle)
    /\ UNCHANGED <<gate, ws, rendered, boundVars>>

\* ... in a rollback after it is, from the workspace.
RecordRollback ==
    /\ At("confirmed") /\ ~Worker /\ job.kind = "rollback" /\ ReadsAs(ws, Manifest(ws))
    /\ Record(Kept(gate, ws))
    /\ Goto("recorded")
    /\ UNCHANGED <<gate, treeVars, checks, boundVars>>

Publish ==
    /\ At("recorded") /\ ReadsAs(ws, Manifest(ws)) /\ live' = Manifest(ws)
    /\ Ends(Idle)
    /\ UNCHANGED <<gate, ws, rendered, storeVars, boundVars>>

\* restoreBackup, rollbackJournal: a step after the exchange failed.  The Worker
\* looks at the backup before it restores it, the in-process gate after, and a
\* configuration of the Worker's has no way back.
Undo ==
    LET intact == ReadsAs(backup, job.base)
        forward == Worker /\ (job.kind = "configuration" \/ ~intact)
    IN  /\ \/ At("exchanged") /\ ~ReadsAs(ws, job.scan)
           \/ At("confirmed") /\ ~(IF Worker THEN Recordable ELSE ReadsAs(ws, Manifest(ws)))
           \/ At("final") /\ ~Intact
           \/ At("recorded") /\ ~ReadsAs(ws, Manifest(ws))
        /\ ws' = IF forward THEN ws ELSE backup
        /\ versions' = IF At("recorded") THEN Front(versions) ELSE versions
        /\ Ends(IF forward \/ ~intact THEN Locked ELSE Idle)
        /\ UNCHANGED <<gate, live, rendered, snapshots, boundVars>>

----------------------------------------------------------------------------
(* Others. *)

\* The steps after which the workspace is not what the gate last looked at, with
\* nobody to notice or only one to.
Windows == {"rendered", "based", "staged", "compared", "confirmed", "final", "recorded"}

\* Somebody else writes to the workspace, a sealed payload or a snapshot.
Drift ==
    /\ drifts < MaxDrifts /\ edits + drifts < MaxWrites /\ drifts' = drifts + 1
    /\ \/ /\ ws' \in Writes(ws)
          /\ job' = [job EXCEPT !.struck = @ \cup ({job.step} \cap Windows)]
          /\ UNCHANGED <<payload, snapshots>>
       \/ payload # None /\ payload' \in Writes(payload) /\ UNCHANGED <<ws, snapshots, job>>
       \/ \E m \in DOMAIN snapshots :
             /\ \E t \in Writes(snapshots[m]) : snapshots' = [snapshots EXCEPT ![m] = t]
             /\ UNCHANGED <<ws, payload, job>>
    /\ UNCHANGED <<gate, live, rendered, candidate, staging, backup, checks, versions, runs, edits>>

Refusing ==
    \/ ScanRefuses \/ SealRefuses \/ PolicyRefuses \/ AuthorizeRefuses \/ StageRefuses
    \/ ReadBaseRefuses \/ AdoptRefuses \/ StageOtherRefuses \/ CompareRefuses \/ Undo

Next ==
    \/ Prepare \/ AgentWrites \/ Scan \/ CopyCandidate \/ Seal \/ RunChecks \/ Authorize \/ Stage
    \/ \E k \in DOMAIN versions : BeginRollback(k)
    \/ \E p \in Managed, n \in Writable : Configure(p, n)
    \/ ReadBase \/ Adopt \/ StageOther
    \/ CompareBase \/ AlreadyThere \/ Exchange \/ Confirm
    \/ RecordTarget \/ ReadFinal \/ RecordCommit \/ RecordRollback \/ Publish
    \/ Refusing
    \/ Drift

Spec == Init /\ [][Next]_vars
=============================================================================
