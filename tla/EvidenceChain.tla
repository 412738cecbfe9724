--------------------------- MODULE EvidenceChain ---------------------------
(***************************************************************************)
(* What a promotion permit rests on: the store of trusted check bundles    *)
(* (trusted-check-bundle.ts), the verifier that runs them on an exported   *)
(* proposal (verifier-runner.ts, runtime-broker/server.ts), the Worker's   *)
(* blobs of evidence (evidence-blob-store.ts) and its own contract         *)
(* (worker-gate-policy.ts).  The administrator edits the checks at any     *)
(* time, Broker and Worker die between any two of their steps, and others  *)
(* may write to a payload, an exported proposal or a blob.                 *)
(*                                                                         *)
(* A digest is its content: a bundle or an artifact is a value.  What the  *)
(* runner over the Worker passes on is signed by the Broker, so it is read *)
(* from the attestation here.                                              *)
(***************************************************************************)
EXTENDS Naturals

CONSTANTS
    Run,
    Bundle,     \* contents of the administrator's directory of checks
    Pinned,     \* expectedCheckBundleHash
    Artifact,   \* contents of a proposal
    Verdict,    \* what the checks of a bundle say of an artifact
    None,
    MaxEdits, MaxDeaths, MaxDrifts \* bounds: the administrator's writes, deaths, others' writes

\* With a second foreign write, away and back, no pair of hashes tells.
ASSUME EvidenceAssumption ==
    /\ Pinned \in Bundle /\ None \notin Bundle \cup Artifact
    /\ Verdict \in [Bundle -> [Artifact -> {"PASS", "FAIL"}]]
    /\ {MaxEdits, MaxDeaths} \subseteq Nat /\ MaxDrifts \in 0..1

VARIABLES
    source,     \* the administrator's directory
    payloads,   \* the store: under each digest a directory, open until its mode is set
    bindings,   \* the runs with a binding in the Broker's memory
    volumes,    \* the proposals exported for verification
    job,        \* the verification of each run
    attested,   \* what the Broker signed
    proposal,   \* the artifact sealed for each run, as the Worker's log has it
    blobs, temporaries, \* the Worker's evidence blobs and unfinished copies
    record,     \* where recordEvidence and issuePermit are with a run
    recorded,   \* runs with EVIDENCE_RECORDED in the log
    edits, deaths, drifts

jobVars == <<bindings, job, attested>>
workerVars == <<blobs, temporaries, record, recorded>>
boundVars == <<edits, deaths, drifts>>
vars == <<source, payloads, jobVars, volumes, proposal, workerVars, boundVars>>

\* A job was described with "before", is bound to "env", and its containers
\* have read "bundle" and "artifact" and answered "status".
NoJob == [step |-> "idle", before |-> None, env |-> None, bundle |-> None, artifact |-> None,
          status |-> "none"]
NoPayload == [state |-> "absent", content |-> None]
NoResult == [bundle |-> None, artifact |-> None, status |-> "none"]

Init ==
    /\ source \in Bundle /\ proposal \in [Run -> Artifact] /\ volumes = proposal
    /\ payloads = [b \in Bundle |-> NoPayload]
    /\ bindings = {} /\ job = [r \in Run |-> NoJob] /\ attested = [r \in Run |-> NoResult]
    /\ blobs = [r \in Run |-> "absent"] /\ temporaries = {} /\ recorded = {}
    /\ record = [r \in Run |-> "sealed"]
    /\ edits = 0 /\ deaths = 0 /\ drifts = 0

----------------------------------------------------------------------------
(* The store of bundles: TrustedCheckBundleStore.seal. *)

At(r, step) == job[r].step = step
Goto(r, step) == job' = [job EXCEPT ![r].step = step]
Proceed(r, holds, step) == Goto(r, IF holds THEN step ELSE "failed")

\* The first description of the source.
Describe(r) == job' = [job EXCEPT ![r].step = "described", ![r].before = source]

\* describeExecutionEnvironment, first thing of runVerifier.
RunVerifier(r) ==
    /\ At(r, "idle") /\ Describe(r)
    /\ UNCHANGED <<source, payloads, bindings, attested, volumes, proposal, workerVars, boundVars>>

\* copyBundleFromDescriptor: each file has the digest of the description.
Copy(r) ==
    /\ At(r, "described") /\ Proceed(r, source = job[r].before, "copied")
    /\ UNCHANGED <<source, payloads, bindings, attested, volumes, proposal, workerVars, boundVars>>

\* resolve: a read-only directory with the content its name says.
Resolves(b) == payloads[b] = [state |-> "closed", content |-> b]

\* The source is described again; then the copy is moved in place, or what is
\* there already is resolved, also when it came first by a hair.
Publish(r) ==
    /\ At(r, "copied")
    /\ LET b == job[r].before IN
       IF source = b /\ payloads[b] = NoPayload
       THEN /\ payloads' = [payloads EXCEPT ![b] = [state |-> "open", content |-> b]]
            /\ Goto(r, "moved")
       ELSE Proceed(r, source = b /\ Resolves(b), "published") /\ UNCHANGED payloads
    /\ UNCHANGED <<source, bindings, attested, volumes, proposal, workerVars, boundVars>>

\* chmod, after the move and in a step of its own.
Close(r) ==
    /\ At(r, "moved") /\ Goto(r, "published")
    /\ payloads' = [payloads EXCEPT ![job[r].before].state = "closed"]
    /\ UNCHANGED <<source, bindings, attested, volumes, proposal, workerVars, boundVars>>

\* The binding is entered; a run that had lost it must find the bundle it was
\* described with.
Bind(r) ==
    /\ At(r, "published") /\ bindings' = bindings \cup {r}
    /\ IF job[r].env = None
       THEN job' = [job EXCEPT ![r].step = "bound", ![r].env = job[r].before]
       ELSE Proceed(r, job[r].before = job[r].env, "rebound")
    /\ UNCHANGED <<source, payloads, attested, volumes, proposal, workerVars, boundVars>>

----------------------------------------------------------------------------
(* The verification: DockerVerifierRunner.run within runVerifier. *)

BundleIs(r) == payloads[job[r].env].content = job[r].env
VolumeIs(r) == volumes[r] = proposal[r]

\* The exported proposal is hashed before anything is run on it.
Measure(r) ==
    /\ At(r, "bound") /\ Proceed(r, VolumeIs(r), "measured")
    /\ UNCHANGED <<source, payloads, bindings, attested, volumes, proposal, workerVars, boundVars>>

\* run: a binding pruned meanwhile is made again.
Rebind(r) ==
    /\ At(r, "measured") /\ r \notin bindings /\ Describe(r)
    /\ UNCHANGED <<source, payloads, bindings, attested, volumes, proposal, workerVars, boundVars>>

\* run: the bundle is hashed before the first container.
Begin(r) ==
    /\ (At(r, "measured") /\ r \in bindings) \/ At(r, "rebound")
    /\ Proceed(r, BundleIs(r), "begun")
    /\ UNCHANGED <<source, payloads, bindings, attested, volumes, proposal, workerVars, boundVars>>

\* runOne: the containers answer of what is mounted; a timeout, a signal, too
\* much output or an exhausted budget is an error.
Check(r) ==
    /\ At(r, "begun")
    /\ LET b == payloads[job[r].env].content IN
       \E status \in {Verdict[b][volumes[r]], "ERROR"} :
          job' = [job EXCEPT ![r].step = "checked", ![r].status = status,
                             ![r].bundle = b, ![r].artifact = volumes[r]]
    /\ UNCHANGED <<source, payloads, bindings, attested, volumes, proposal, workerVars, boundVars>>

\* Mutant: neither is hashed again after the containers are gone.
Unchanged_Mutant(r) == TRUE

Unchanged(r) == BundleIs(r) /\ VolumeIs(r)

\* Both are hashed again; then the result is signed with the environment.
Attest(r) ==
    /\ At(r, "checked") /\ Proceed(r, Unchanged(r), "answered")
    /\ attested' = IF Unchanged(r)
                   THEN [attested EXCEPT ![r] = [bundle |-> job[r].env, artifact |-> proposal[r],
                                                 status |-> job[r].status]]
                   ELSE attested
    /\ UNCHANGED <<source, payloads, bindings, volumes, proposal, workerVars, boundVars>>

\* pruneBindings: an hour has passed, or a thousand other runs.
Forget(r) ==
    /\ r \in bindings /\ bindings' = bindings \ {r}
    /\ UNCHANGED <<source, payloads, job, attested, volumes, proposal, workerVars, boundVars>>

\* A payload moved in place and not yet closed stays open for good.
BrokerDies ==
    /\ deaths < MaxDeaths /\ deaths' = deaths + 1 /\ bindings' = {}
    /\ job' = [r \in Run |-> IF job[r].step \in {"idle", "answered"} THEN job[r]
                             ELSE [NoJob EXCEPT !.step = "failed"]]
    /\ UNCHANGED <<source, payloads, attested, volumes, proposal, workerVars, edits, drifts>>

----------------------------------------------------------------------------
(* The Worker: recordEvidence, issuePermit and the sweep at startup. *)

Reach(r, step) == record' = [record EXCEPT ![r] = step]

\* readVerifiedBytes
Readable(r) == blobs[r] = "whole"

\* The runner over the Worker sends on what the verifier answered.
Sent(r) == At(r, "answered")

\* recordEvidence takes what the Broker signed for the sealed artifact; put
\* writes a temporary copy.
PutBlob(r) ==
    /\ record[r] = "sealed" /\ Sent(r) /\ attested[r].artifact = proposal[r]
    /\ Reach(r, "copied") /\ temporaries' = temporaries \cup {r}
    /\ UNCHANGED <<source, payloads, jobVars, volumes, proposal, blobs, recorded, boundVars>>

\* The copy is moved in place and read back.
MoveBlob(r) ==
    /\ record[r] = "copied" /\ Reach(r, "moved")
    /\ temporaries' = temporaries \ {r} /\ blobs' = [blobs EXCEPT ![r] = "whole"]
    /\ UNCHANGED <<source, payloads, jobVars, volumes, proposal, recorded, boundVars>>

ReadBack(r) ==
    /\ record[r] = "moved" /\ Reach(r, IF Readable(r) THEN "put" ELSE "refused")
    /\ UNCHANGED <<source, payloads, jobVars, volumes, proposal, blobs, temporaries, recorded, boundVars>>

\* EVIDENCE_RECORDED, the fact that makes the blob one to keep.
AppendEvidence(r) ==
    /\ record[r] = "put" /\ Reach(r, "evidenced") /\ recorded' = recorded \cup {r}
    /\ UNCHANGED <<source, payloads, jobVars, volumes, proposal, blobs, temporaries, boundVars>>

\* The disk fails the handler: the copy goes, a blob in place stays.
RecordFails(r) ==
    /\ record[r] \in {"copied", "moved", "put"} /\ Reach(r, "refused")
    /\ temporaries' = temporaries \ {r}
    /\ UNCHANGED <<source, payloads, jobVars, volumes, proposal, blobs, recorded, boundVars>>

\* The runner asks for no permit when a check did not pass: the run is disposed of.
Dispose(r) ==
    /\ record[r] = "evidenced" /\ attested[r].status # "PASS" /\ Reach(r, "refused")
    /\ UNCHANGED <<source, payloads, jobVars, volumes, proposal, blobs, temporaries, recorded, boundVars>>

\* Mutant: the pins of the environment are left to the caller.
ContractHolds_Mutant(r) == attested[r].status = "PASS"

\* validateWorkerEvidenceContract
ContractHolds(r) == attested[r].bundle = Pinned /\ attested[r].status = "PASS"

\* Every reading of the projection loads the blob and compares its bindings;
\* the Worker does not rely on what the runner asks for.
IssuePermit(r) ==
    /\ record[r] = "evidenced"
    /\ Reach(r, IF Readable(r) /\ ContractHolds(r) THEN "permitted" ELSE "refused")
    /\ UNCHANGED <<source, payloads, jobVars, volumes, proposal, blobs, temporaries, recorded, boundVars>>

\* gcStartupOrphans keeps what the verified events refer to.
Referenced(r) == r \in recorded

\* A death and the startup after it: runs in progress are disposed of, then
\* temporaries and blobs without an event are removed.
WorkerRestarts ==
    /\ deaths < MaxDeaths /\ deaths' = deaths + 1
    /\ record' = [r \in Run |-> IF record[r] = "permitted" THEN record[r] ELSE "refused"]
    /\ temporaries' = {}
    /\ blobs' = [r \in Run |-> IF Referenced(r) THEN blobs[r] ELSE "absent"]
    /\ UNCHANGED <<source, payloads, jobVars, volumes, proposal, recorded, edits, drifts>>

----------------------------------------------------------------------------
(* The administrator, and others. *)

Edit(b) ==
    /\ edits < MaxEdits /\ b # source /\ source' = b /\ edits' = edits + 1
    /\ UNCHANGED <<payloads, jobVars, volumes, proposal, workerVars, deaths, drifts>>

DriftPayload(b, c) ==
    /\ payloads[b].state # "absent" /\ payloads[b].content # c
    /\ payloads' = [payloads EXCEPT ![b].content = c]
    /\ UNCHANGED <<volumes, blobs>>

DriftVolume(r, a) ==
    /\ volumes[r] # a /\ volumes' = [volumes EXCEPT ![r] = a]
    /\ UNCHANGED <<payloads, blobs>>

DriftBlob(r) ==
    /\ Readable(r) /\ blobs' = [blobs EXCEPT ![r] = "corrupt"]
    /\ UNCHANGED <<payloads, volumes>>

Drift ==
    /\ drifts < MaxDrifts /\ drifts' = drifts + 1
    /\ \/ \E b, c \in Bundle : DriftPayload(b, c)
       \/ \E r \in Run : DriftBlob(r)
       \/ \E r \in Run, a \in Artifact : DriftVolume(r, a)
    /\ UNCHANGED <<source, jobVars, proposal, temporaries, record, recorded, edits, deaths>>

----------------------------------------------------------------------------
Next ==
    \/ \E r \in Run : \/ RunVerifier(r) \/ Copy(r) \/ Publish(r) \/ Close(r) \/ Bind(r)
                      \/ Measure(r) \/ Rebind(r) \/ Begin(r) \/ Check(r) \/ Attest(r) \/ Forget(r)
                      \/ PutBlob(r) \/ MoveBlob(r) \/ ReadBack(r) \/ AppendEvidence(r)
                      \/ RecordFails(r) \/ Dispose(r) \/ IssuePermit(r)
    \/ BrokerDies \/ WorkerRestarts
    \/ \E b \in Bundle : Edit(b)
    \/ Drift

Spec == Init /\ [][Next]_vars

----------------------------------------------------------------------------
(* Properties *)

Step == {"idle", "described", "copied", "moved", "published", "bound", "measured", "rebound",
         "begun", "checked", "answered", "failed"}
Jobs == [step : Step, before : Bundle \cup {None}, env : Bundle \cup {None},
         bundle : Bundle \cup {None}, artifact : Artifact \cup {None},
         status : {"none", "PASS", "FAIL", "ERROR"}]

Results == [bundle : Bundle \cup {None}, artifact : Artifact \cup {None},
            status : {"none", "PASS", "FAIL", "ERROR"}]

StoreTypeOK ==
    /\ payloads \in [Bundle -> [state : {"absent", "open", "closed"}, content : Bundle \cup {None}]]
    /\ \A b \in Bundle : payloads[b].content = None <=> payloads[b].state = "absent"

WorkerTypeOK ==
    /\ blobs \in [Run -> {"absent", "whole", "corrupt"}]
    /\ temporaries \subseteq Run /\ recorded \subseteq Run
    /\ record \in [Run -> {"sealed", "copied", "moved", "put", "evidenced", "permitted", "refused"}]

TypeOK ==
    /\ source \in Bundle /\ proposal \in [Run -> Artifact] /\ volumes \in [Run -> Artifact]
    /\ StoreTypeOK /\ WorkerTypeOK
    /\ bindings \subseteq Run /\ job \in [Run -> Jobs] /\ attested \in [Run -> Results]
    /\ edits \in 0..MaxEdits /\ deaths \in 0..MaxDeaths /\ drifts \in 0..MaxDrifts

\* What the Broker signs is what the containers have read: the bundle of the
\* environment and the sealed proposal, whatever was edited, forgotten, sealed
\* again or written to in between.  (verifier-runner.ts:544-580,
\* runtime-broker/server.ts:197-228)
AttestedWasRead ==
    \A r \in Run : attested[r] # NoResult =>
        attested[r] = [bundle |-> job[r].bundle, artifact |-> job[r].artifact, status |-> job[r].status]
        /\ job[r].artifact = proposal[r]

Bounded(r) ==
    /\ job[r].step \notin {"idle", "failed"} => job[r].before \in Bundle
    /\ job[r].step = "moved" => payloads[job[r].before].state # "absent"
    /\ job[r].step = "published" => payloads[job[r].before].state = "closed"
    /\ job[r].step \in {"bound", "measured", "rebound", "begun", "checked", "answered"}
          => job[r].env \in Bundle
    /\ job[r].env # None => payloads[job[r].env].state = "closed"

\* A run is bound to a closed payload only: one that meets the payload of
\* another run between its move and its chmod does not come to mount it.
\* (trusted-check-bundle.ts:332-345, verifier-runner.ts:511-549)
BoundIsClosed == \A r \in Run : Bounded(r)

\* Until others write, every payload and every export is what its name says.
Unspoilt ==
    drifts = 0 => /\ \A b \in Bundle : payloads[b].state # "absent" => payloads[b].content = b
                  /\ volumes = proposal
                  /\ \A r \in Run : job[r].step = "checked" =>
                         job[r].bundle = job[r].env /\ job[r].artifact = proposal[r]

\* Containers that have read something else leave it behind for the hashes.
Detectable ==
    \A r \in Run : job[r].step = "checked" =>
        /\ job[r].bundle = job[r].env \/ ~BundleIs(r)
        /\ job[r].artifact = proposal[r] \/ ~VolumeIs(r)

\* An answer is the verdict on what was read, and the signature is on it.
AnswerIsVerdict ==
    \A r \in Run :
        /\ job[r].step \in {"checked", "answered"} =>
              /\ job[r].bundle \in Bundle /\ job[r].artifact \in Artifact
              /\ job[r].status \in {Verdict[job[r].bundle][job[r].artifact], "ERROR"}
        /\ attested[r] # NoResult => job[r].step = "answered"
        /\ record[r] = "permitted" => ContractHolds(r)

\* Evidence that the log refers to, or is about to, stays readable across every
\* death, unless others wrote to it: the sweep at startup removes none of it,
\* however the run ended.  (worker.ts:3074-3079, evidence-blob-store.ts:185-200)
EvidenceKept ==
    \A r \in Run : /\ r \in recorded \/ record[r] = "put" => blobs[r] # "absent"
                   /\ blobs[r] = "corrupt" => drifts > 0

\* The bundle a verification is bound to is closed before a container mounts
\* it, and what its containers have read beside it is still there to be seen
\* when both are hashed again: the inductive invariant of the chain.
\* (trusted-check-bundle.ts:326-345, verifier-runner.ts:544-580)
EvidenceInv ==
    /\ TypeOK /\ BoundIsClosed /\ Unspoilt /\ Detectable /\ AnswerIsVerdict
    /\ AttestedWasRead /\ EvidenceKept

\* A permitted run's sealed proposal passes the checks of the pinned bundle,
\* not of whatever the administrator's directory held when it ran.
\* (worker-gate-policy.ts:181-189, worker.ts:1924-1973)
PermitRests == \A r \in Run : record[r] = "permitted" => Verdict[Pinned][proposal[r]] = "PASS"
=============================================================================
