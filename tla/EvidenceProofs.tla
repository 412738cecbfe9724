--------------------------- MODULE EvidenceProofs ---------------------------
(***************************************************************************)
(* EvidenceInv is inductive, and a permit rests on what the pinned checks  *)
(* say of the sealed proposal: for any number of runs, any checks, edits   *)
(* and deaths, and at most one foreign write.                              *)
(***************************************************************************)
EXTENDS EvidenceChain, TLAPS

----------------------------------------------------------------------------
(* The initial state. *)

LEMMA InitHolds == Init => EvidenceInv
<1> SUFFICES ASSUME Init
             PROVE  EvidenceInv
  OBVIOUS
<1> USE EvidenceAssumption
<1>1. TypeOK
  BY DEF Init, TypeOK, StoreTypeOK, WorkerTypeOK, Jobs, Results, Step, NoJob, NoPayload,
         NoResult
<1>2. BoundIsClosed
  BY DEF Init, BoundIsClosed, Bounded, NoJob
<1>3. Unspoilt /\ Detectable
  BY DEF Init, Unspoilt, Detectable, NoJob, NoPayload
<1>4. AnswerIsVerdict /\ AttestedWasRead /\ EvidenceKept
  BY DEF Init, AnswerIsVerdict, AttestedWasRead, EvidenceKept, NoJob, NoResult
<1> QED
  BY <1>1, <1>2, <1>3, <1>4 DEF EvidenceInv

----------------------------------------------------------------------------
(* The steps of the Worker: the verifications stand still. *)

WorkerStep(r) ==
    \/ PutBlob(r) \/ MoveBlob(r) \/ ReadBack(r) \/ AppendEvidence(r)
    \/ RecordFails(r) \/ Dispose(r) \/ IssuePermit(r)

LEMMA WorkerFrame ==
    ASSUME NEW r \in Run, WorkerStep(r)
    PROVE  /\ UNCHANGED <<source, payloads, volumes, proposal>>
           /\ UNCHANGED <<bindings, job, attested>>
           /\ UNCHANGED <<edits, deaths, drifts>>
BY DEF WorkerStep, PutBlob, MoveBlob, ReadBack, AppendEvidence, RecordFails, Dispose,
       IssuePermit, jobVars, boundVars

\* A record of another run is what it was; a permit needs the contract, and an
\* event or a "put" needs a blob.
LEMMA WorkerMoves ==
    ASSUME WorkerTypeOK, NEW r \in Run, WorkerStep(r)
    PROVE  /\ \E s \in {"copied", "moved", "put", "evidenced", "permitted", "refused"} :
                 record' = [record EXCEPT ![r] = s]
           /\ blobs' = blobs \/ blobs' = [blobs EXCEPT ![r] = "whole"]
           /\ temporaries' \subseteq Run /\ recorded' \subseteq recorded \cup {r}
           /\ record'[r] = "permitted" => ContractHolds(r)
           /\ r \in recorded' => r \in recorded \/ record[r] = "put"
           /\ record'[r] = "put" => blobs[r] = "whole"
<1>1. CASE PutBlob(r)
  BY <1>1 DEF PutBlob, Reach, WorkerTypeOK
<1>2. CASE MoveBlob(r)
  BY <1>2 DEF MoveBlob, Reach, WorkerTypeOK
<1>3. CASE ReadBack(r)
  BY <1>3 DEF ReadBack, Reach, Readable, WorkerTypeOK
<1>4. CASE AppendEvidence(r)
  BY <1>4 DEF AppendEvidence, Reach, WorkerTypeOK
<1>5. CASE RecordFails(r)
  BY <1>5 DEF RecordFails, Reach, WorkerTypeOK
<1>6. CASE Dispose(r)
  BY <1>6 DEF Dispose, Reach, WorkerTypeOK
<1>7. CASE IssuePermit(r)
  BY <1>7 DEF IssuePermit, Reach, WorkerTypeOK
<1> QED
  BY <1>1, <1>2, <1>3, <1>4, <1>5, <1>6, <1>7 DEF WorkerStep

LEMMA WorkerKeeps ==
    ASSUME EvidenceInv, NEW r \in Run, WorkerStep(r)
    PROVE  EvidenceInv'
<1>0. TypeOK /\ WorkerTypeOK
  BY DEF EvidenceInv, TypeOK
<1>1. WorkerTypeOK'
  BY <1>0, WorkerMoves DEF WorkerTypeOK
<1>2. TypeOK'
  BY <1>0, <1>1, WorkerFrame DEF TypeOK, StoreTypeOK
<1>3. (BoundIsClosed /\ Unspoilt /\ Detectable /\ AttestedWasRead)'
  BY WorkerFrame DEF EvidenceInv, BoundIsClosed, Bounded, Unspoilt, Detectable,
                      AttestedWasRead, BundleIs, VolumeIs
<1>4. AnswerIsVerdict'
  BY <1>0, WorkerFrame, WorkerMoves DEF EvidenceInv, AnswerIsVerdict, ContractHolds, WorkerTypeOK
<1>5. EvidenceKept'
  BY <1>0, WorkerFrame, WorkerMoves DEF EvidenceInv, EvidenceKept, WorkerTypeOK
<1> QED
  BY <1>2, <1>3, <1>4, <1>5 DEF EvidenceInv

LEMMA WorkerRestartsKeeps ==
    ASSUME EvidenceInv, WorkerRestarts
    PROVE  EvidenceInv'
<1> USE DEF WorkerRestarts, EvidenceInv
<1>1. TypeOK'
  BY EvidenceAssumption DEF TypeOK, WorkerTypeOK, StoreTypeOK, jobVars
<1>2. (BoundIsClosed /\ Unspoilt /\ Detectable /\ AttestedWasRead)'
  BY DEF BoundIsClosed, Bounded, Unspoilt, Detectable, AttestedWasRead, BundleIs, VolumeIs,
         jobVars
<1>3. AnswerIsVerdict'
  BY DEF AnswerIsVerdict, ContractHolds, TypeOK, WorkerTypeOK, jobVars
<1>4. EvidenceKept'
  BY DEF EvidenceKept, TypeOK, WorkerTypeOK, Referenced
<1> QED
  BY <1>1, <1>2, <1>3, <1>4

----------------------------------------------------------------------------
(* The steps of a verification: the Worker stands still. *)

\* Up to the containers, and from then on.
SealStep(r) ==
    \/ RunVerifier(r) \/ Copy(r) \/ Publish(r) \/ Close(r) \/ Bind(r)
    \/ Measure(r) \/ Rebind(r) \/ Begin(r)

JobStep(r) == SealStep(r) \/ Check(r) \/ Attest(r)

LEMMA JobFrame ==
    ASSUME NEW r \in Run, JobStep(r)
    PROVE  /\ UNCHANGED <<source, volumes, proposal>>
           /\ UNCHANGED <<blobs, temporaries, record, recorded>>
           /\ UNCHANGED <<edits, deaths, drifts>>
<1> USE DEF workerVars, boundVars
<1>1. CASE RunVerifier(r) \/ Copy(r) \/ Publish(r) \/ Close(r) \/ Bind(r)
  BY <1>1 DEF RunVerifier, Copy, Publish, Close, Bind
<1>2. CASE Measure(r) \/ Rebind(r) \/ Begin(r) \/ Check(r) \/ Attest(r)
  BY <1>2 DEF Measure, Rebind, Begin, Check, Attest
<1> QED
  BY <1>1, <1>2 DEF JobStep, SealStep

\* Only one job moves, and a payload keeps its content and stays closed.
LEMMA OneJob ==
    ASSUME TypeOK, BoundIsClosed, NEW r \in Run, JobStep(r)
    PROVE  /\ \A q \in Run \ {r} : job'[q] = job[q] /\ attested'[q] = attested[q]
           /\ \A b \in Bundle :
                /\ payloads[b].state # "absent" =>
                     payloads'[b].content = payloads[b].content /\ payloads'[b].state # "absent"
                /\ payloads[b].state = "absent" =>
                     payloads'[b] = payloads[b] \/ payloads'[b].content = b
                /\ payloads[b].state = "closed" => payloads'[b].state = "closed"
<1> USE DEF TypeOK, StoreTypeOK, Goto, Proceed, At
<1>1. CASE RunVerifier(r) \/ Rebind(r)
  BY <1>1 DEF RunVerifier, Rebind, Describe
<1>2. CASE Copy(r) \/ Measure(r) \/ Begin(r)
  BY <1>2 DEF Copy, Measure, Begin
<1>3. CASE Publish(r)
  BY <1>3 DEF Publish, NoPayload
<1>4. CASE Close(r)
  BY <1>4 DEF Close, BoundIsClosed, Bounded
<1>5. CASE Bind(r)
  BY <1>5 DEF Bind
<1>6. CASE Check(r)
  BY <1>6 DEF Check
<1>7. CASE Attest(r)
  BY <1>7 DEF Attest
<1> QED
  BY <1>1, <1>2, <1>3, <1>4, <1>5, <1>6, <1>7 DEF JobStep, SealStep

\* A job keeps its type whatever field of it is set.
LEMMA JobFields ==
    ASSUME NEW j \in Jobs
    PROVE  /\ \A s \in Step : [j EXCEPT !.step = s] \in Jobs
           /\ \A s \in Step, b \in Bundle :
                /\ [j EXCEPT !.step = s, !.before = b] \in Jobs
                /\ [j EXCEPT !.step = s, !.env = b] \in Jobs
           /\ \A s \in Step, t \in {"PASS", "FAIL", "ERROR"}, b \in Bundle, a \in Artifact :
                [j EXCEPT !.step = s, !.status = t, !.bundle = b, !.artifact = a] \in Jobs
BY DEF Jobs

LEMMA JobSet ==
    ASSUME TypeOK, BoundIsClosed, NEW r \in Run, JobStep(r)
    PROVE  job' \in [Run -> Jobs]
<1>0. job \in [Run -> Jobs] /\ job[r] \in Jobs
  BY DEF TypeOK
<1> SUFFICES ASSUME job' # job
             PROVE  \E j \in Jobs : job' = [job EXCEPT ![r] = j]
  BY <1>0
<1> USE DEF Goto, Proceed, At
<1>1. CASE RunVerifier(r) \/ Rebind(r)
  <2>1. [job[r] EXCEPT !.step = "described", !.before = source] \in Jobs
    BY <1>0, JobFields DEF TypeOK, Step
  <2> QED
    BY <1>1, <2>1 DEF RunVerifier, Rebind, Describe
<1>2. ASSUME NEW s \in Step, Goto(r, s)
      PROVE  \E j \in Jobs : job' = [job EXCEPT ![r] = j]
  <2>1. [job[r] EXCEPT !.step = s] \in Jobs
    BY <1>0, JobFields
  <2> QED
    BY <1>2, <2>1
<1>3. CASE Copy(r) \/ Measure(r) \/ Begin(r) \/ Attest(r)
  BY <1>2, <1>3 DEF Copy, Measure, Begin, Attest, Step
<1>4. CASE Publish(r) \/ Close(r)
  BY <1>2, <1>4 DEF Publish, Close, Step
<1>5. CASE Bind(r)
  <2>1. CASE job[r].env = None
    <3>1. [job[r] EXCEPT !.step = "bound", !.env = job[r].before] \in Jobs
      BY <1>0, <1>5, JobFields DEF Bind, BoundIsClosed, Bounded, Step
    <3> QED
      BY <1>5, <2>1, <3>1 DEF Bind
  <2>2. CASE job[r].env # None
    BY <1>2, <1>5, <2>2 DEF Bind, Step
  <2> QED
    BY <2>1, <2>2
<1>6. CASE Check(r)
  <2>1. PICK t \in {Verdict[payloads[job[r].env].content][volumes[r]], "ERROR"} :
           job' = [job EXCEPT ![r].step = "checked", ![r].status = t,
                              ![r].bundle = payloads[job[r].env].content,
                              ![r].artifact = volumes[r]]
    BY <1>6 DEF Check
  <2>2. payloads[job[r].env].content \in Bundle /\ volumes[r] \in Artifact
    BY <1>6 DEF Check, BoundIsClosed, Bounded, TypeOK, StoreTypeOK
  <2>3. t \in {"PASS", "FAIL", "ERROR"}
    BY <2>2, EvidenceAssumption
  <2>4. [job[r] EXCEPT !.step = "checked", !.status = t,
                       !.bundle = payloads[job[r].env].content, !.artifact = volumes[r]] \in Jobs
    BY <1>0, <2>2, <2>3, JobFields DEF Step
  <2> QED
    BY <2>1, <2>4
<1> QED
  BY <1>1, <1>3, <1>4, <1>5, <1>6 DEF JobStep, SealStep

LEMMA JobTypes ==
    ASSUME TypeOK, BoundIsClosed, AnswerIsVerdict, NEW r \in Run, JobStep(r)
    PROVE  TypeOK'
<1>1. job' \in [Run -> Jobs]
  BY JobSet
<1>2. StoreTypeOK' /\ bindings' \subseteq Run /\ attested' \in [Run -> Results]
  <2>1. CASE RunVerifier(r) \/ Rebind(r) \/ Copy(r) \/ Measure(r) \/ Begin(r) \/ Check(r)
    BY <2>1 DEF RunVerifier, Rebind, Copy, Measure, Begin, Check, TypeOK, StoreTypeOK
  <2>2. CASE Publish(r)
    <3>1. job[r].before \in Bundle
      BY <2>2 DEF Publish, BoundIsClosed, Bounded, At
    <3>2. \/ payloads' = payloads
          \/ payloads' = [payloads EXCEPT ![job[r].before] =
                             [state |-> "open", content |-> job[r].before]]
      BY <2>2 DEF Publish
    <3>3. UNCHANGED <<bindings, attested>>
      BY <2>2 DEF Publish
    <3>4. StoreTypeOK'
      <4>1. CASE payloads' = payloads
        BY <4>1 DEF TypeOK, StoreTypeOK
      <4>2. CASE payloads' = [payloads EXCEPT ![job[r].before] =
                                [state |-> "open", content |-> job[r].before]]
        <5>1. \A b \in Bundle : payloads'[b] = IF b = job[r].before
                                 THEN [state |-> "open", content |-> b] ELSE payloads[b]
          BY <4>2 DEF TypeOK, StoreTypeOK
        <5>2. job[r].before # None
          BY <3>1, EvidenceAssumption
        <5> QED
          BY <3>1, <4>2, <5>1, <5>2 DEF TypeOK, StoreTypeOK
      <4> QED
        BY <3>2, <4>1, <4>2
    <3> QED
      BY <3>3, <3>4 DEF TypeOK
  <2>3. CASE Close(r)
    BY <2>3 DEF Close, TypeOK, StoreTypeOK, BoundIsClosed, Bounded, At
  <2>4. CASE Bind(r)
    BY <2>4 DEF Bind, TypeOK, StoreTypeOK
  <2>5. CASE Attest(r)
    <3>1. job[r].env \in Bundle /\ job[r].status \in {"PASS", "FAIL", "ERROR"}
      BY <2>5, EvidenceAssumption DEF Attest, At, AnswerIsVerdict, BoundIsClosed, Bounded
    <3> QED
      BY <2>5, <3>1 DEF Attest, TypeOK, StoreTypeOK, Results
  <2> QED
    BY <2>1, <2>2, <2>3, <2>4, <2>5 DEF JobStep, SealStep
<1> QED
  BY <1>1, <1>2, JobFrame DEF TypeOK, WorkerTypeOK

LEMMA JobBound ==
    ASSUME TypeOK, BoundIsClosed, NEW r \in Run, JobStep(r)
    PROVE  BoundIsClosed'
<1>0. ASSUME NEW q \in Run \ {r}
      PROVE  Bounded(q)'
  <2>1. job'[q] = job[q] /\ Bounded(q)
    BY OneJob DEF BoundIsClosed
  <2> QED
    BY <2>1, OneJob DEF Bounded, TypeOK, Jobs
<1> SUFFICES Bounded(r)'
  BY <1>0 DEF BoundIsClosed
<1> USE DEF Bounded, TypeOK, Jobs, Goto, Proceed, At
<1>a. Bounded(r)
  BY DEF BoundIsClosed
<1>1. CASE RunVerifier(r) \/ Rebind(r)
  BY <1>1, <1>a DEF RunVerifier, Rebind, Describe
<1>2. CASE Copy(r) \/ Measure(r) \/ Begin(r)
  BY <1>2, <1>a DEF Copy, Measure, Begin
<1>3. CASE Publish(r)
  <2>1. CASE source = job[r].before /\ payloads[job[r].before] = NoPayload
    <3>1. /\ job'[r] = [job[r] EXCEPT !.step = "moved"]
          /\ payloads'[job[r].before].state = "open"
      BY <1>3, <2>1 DEF Publish, StoreTypeOK
    <3>2. job[r].env # None => payloads'[job[r].env].state = "closed"
      BY <1>3, <1>a, <2>1 DEF Publish, NoPayload, StoreTypeOK
    <3> QED
      BY <1>3, <1>a, <3>1, <3>2 DEF Publish
  <2>2. CASE ~(source = job[r].before /\ payloads[job[r].before] = NoPayload)
    BY <1>3, <1>a, <2>2 DEF Publish, Resolves
  <2> QED
    BY <2>1, <2>2
<1>4. CASE Close(r)
  BY <1>4, <1>a DEF Close, StoreTypeOK
<1>5. CASE Bind(r)
  BY <1>5, <1>a DEF Bind
<1>6. CASE Check(r)
  BY <1>6, <1>a DEF Check
<1>7. CASE Attest(r)
  BY <1>7, <1>a DEF Attest
<1> QED
  BY <1>1, <1>2, <1>3, <1>4, <1>5, <1>6, <1>7 DEF JobStep, SealStep

\* What the containers have read and what was signed stay as they are until
\* the job gets there.
ReadInv == Unspoilt /\ Detectable /\ AnswerIsVerdict /\ AttestedWasRead

LEMMA SealKeeps ==
    ASSUME TypeOK, BoundIsClosed, ReadInv, NEW r \in Run, SealStep(r)
    PROVE  ReadInv'
<1> USE DEF ReadInv
<1>1. /\ job[r].step \notin {"checked", "answered"}
      /\ job'[r].step \notin {"checked", "answered"}
      /\ attested' = attested
  <2> USE DEF Goto, Proceed, At, TypeOK, Jobs
  <2>1. CASE RunVerifier(r) \/ Rebind(r)
    BY <2>1 DEF RunVerifier, Rebind, Describe
  <2>2. CASE Copy(r) \/ Measure(r) \/ Begin(r)
    BY <2>2 DEF Copy, Measure, Begin
  <2>3. CASE Publish(r)
    BY <2>3 DEF Publish
  <2>4. CASE Close(r) \/ Bind(r)
    BY <2>4 DEF Close, Bind
  <2> QED
    BY <2>1, <2>2, <2>3, <2>4 DEF SealStep
<1>2. ASSUME NEW q \in Run,
             {job[q].step, job'[q].step} \cap {"checked", "answered"} # {}
      PROVE  /\ job'[q] = job[q] /\ job[q].env \in Bundle
             /\ payloads'[job[q].env].content = payloads[job[q].env].content
  <2>1. q # r
    BY <1>1, <1>2
  <2>2. job'[q] = job[q]
    BY <2>1, OneJob DEF JobStep
  <2>3. job[q].env \in Bundle /\ job[q].env # None /\ payloads[job[q].env].state = "closed"
    BY <1>2, <2>2, EvidenceAssumption DEF BoundIsClosed, Bounded
  <2> QED
    BY <2>2, <2>3, OneJob DEF JobStep
<1>3. UNCHANGED <<volumes, proposal, record, drifts>>
  BY JobFrame DEF JobStep
<1>4. Unspoilt'
  <2>1. \A b \in Bundle : payloads'[b].state # "absent" =>
          \/ payloads'[b].content = payloads[b].content /\ payloads[b].state # "absent"
          \/ payloads'[b].content = b
    BY OneJob DEF JobStep
  <2> QED
    BY <1>2, <1>3, <2>1 DEF Unspoilt
<1>5. Detectable'
  BY <1>2, <1>3 DEF Detectable, BundleIs, VolumeIs
<1>6. AnswerIsVerdict'
  BY <1>1, <1>2, <1>3 DEF AnswerIsVerdict, ContractHolds
<1>7. AttestedWasRead'
  <2>1. ASSUME NEW q \in Run, attested[q] # NoResult
        PROVE  job'[q] = job[q]
    BY <1>2, <2>1 DEF AnswerIsVerdict
  <2> QED
    BY <1>1, <1>3, <2>1 DEF AttestedWasRead
<1> QED
  BY <1>4, <1>5, <1>6, <1>7

\* The containers read what is mounted: if that is not what the run is bound
\* to, it is still there to be seen.
LEMMA CheckKeeps ==
    ASSUME TypeOK, BoundIsClosed, ReadInv, NEW r \in Run, Check(r)
    PROVE  ReadInv'
<1> USE DEF ReadInv
<1>1. PICK t \in {Verdict[payloads[job[r].env].content][volumes[r]], "ERROR"} :
         job' = [job EXCEPT ![r].step = "checked", ![r].status = t,
                            ![r].bundle = payloads[job[r].env].content,
                            ![r].artifact = volumes[r]]
  BY DEF Check
<1>2. /\ job'[r].step = "checked" /\ job'[r].status = t /\ job'[r].env = job[r].env
      /\ job'[r].bundle = payloads[job[r].env].content /\ job'[r].artifact = volumes[r]
      /\ \A q \in Run \ {r} : job'[q] = job[q]
  BY <1>1 DEF TypeOK, Jobs
<1>3. UNCHANGED <<payloads, attested, volumes, proposal, record, drifts>>
  BY DEF Check, workerVars, boundVars
<1>4. /\ job[r].step = "begun" /\ job[r].env \in Bundle /\ volumes[r] \in Artifact
      /\ payloads[job[r].env].content \in Bundle
  BY DEF Check, At, BoundIsClosed, Bounded, TypeOK, StoreTypeOK
<1>5. payloads[job[r].env].state = "closed"
  BY <1>4, EvidenceAssumption DEF BoundIsClosed, Bounded
<1>6. Unspoilt'
  BY <1>2, <1>3, <1>4, <1>5 DEF Unspoilt, TypeOK
<1>7. Detectable'
  BY <1>2, <1>3 DEF Detectable, BundleIs, VolumeIs
<1>8. attested[r] = NoResult
  BY <1>4 DEF AnswerIsVerdict
<1>9. AnswerIsVerdict' /\ AttestedWasRead'
  BY <1>2, <1>3, <1>4, <1>8 DEF AnswerIsVerdict, AttestedWasRead, ContractHolds
<1> QED
  BY <1>6, <1>7, <1>9

\* Both hashes still hold, so what was read is what is signed.
LEMMA AttestKeeps ==
    ASSUME TypeOK, BoundIsClosed, ReadInv, NEW r \in Run, Attest(r)
    PROVE  ReadInv'
<1> USE DEF ReadInv
<1>1. /\ job[r].step = "checked" /\ attested[r] = NoResult
      /\ job[r].env \in Bundle
  BY DEF Attest, At, AnswerIsVerdict, BoundIsClosed, Bounded
<1>2. /\ job'[r].step = IF Unchanged(r) THEN "answered" ELSE "failed"
      /\ job'[r].bundle = job[r].bundle /\ job'[r].artifact = job[r].artifact
      /\ job'[r].status = job[r].status
      /\ \A q \in Run \ {r} : job'[q] = job[q]
  BY DEF Attest, Proceed, Goto, TypeOK, Jobs
<1>3. UNCHANGED <<payloads, volumes, proposal, record, drifts>>
  BY DEF Attest, workerVars, boundVars
<1>4. /\ \A q \in Run \ {r} : attested'[q] = attested[q]
      /\ Unchanged(r) => attested'[r] = [bundle |-> job[r].env, artifact |-> proposal[r],
                                         status |-> job[r].status]
      /\ ~Unchanged(r) => attested'[r] = NoResult
  BY <1>1 DEF Attest, TypeOK
<1>5. Unchanged(r) => job[r].bundle = job[r].env /\ job[r].artifact = proposal[r]
  BY <1>1 DEF Unchanged, Detectable
<1>6. record[r] # "permitted"
  BY <1>1, EvidenceAssumption DEF AnswerIsVerdict, ContractHolds, NoResult
<1>7. Unspoilt' /\ Detectable'
  BY <1>2, <1>3 DEF Unspoilt, Detectable, BundleIs, VolumeIs
<1>8. AnswerIsVerdict'
  BY <1>1, <1>2, <1>3, <1>4, <1>6 DEF AnswerIsVerdict, ContractHolds
<1>9. AttestedWasRead'
  BY <1>2, <1>3, <1>4, <1>5 DEF AttestedWasRead
<1> QED
  BY <1>7, <1>8, <1>9

LEMMA JobKeeps ==
    ASSUME EvidenceInv, NEW r \in Run, JobStep(r)
    PROVE  EvidenceInv'
<1>1. TypeOK /\ BoundIsClosed /\ AnswerIsVerdict /\ ReadInv /\ EvidenceKept
  BY DEF EvidenceInv, ReadInv
<1>2. TypeOK' /\ BoundIsClosed'
  BY <1>1, JobTypes, JobBound
<1>3. ReadInv'
  BY <1>1, SealKeeps, CheckKeeps, AttestKeeps DEF JobStep
<1>4. EvidenceKept'
  BY <1>1, JobFrame DEF EvidenceKept
<1> QED
  BY <1>2, <1>3, <1>4 DEF EvidenceInv, ReadInv

----------------------------------------------------------------------------
(* Forgotten bindings, deaths, the administrator and foreign writes. *)

LEMMA ForgetKeeps ==
    ASSUME EvidenceInv, NEW r \in Run, Forget(r)
    PROVE  EvidenceInv'
<1>1. /\ UNCHANGED <<source, payloads, job, attested, volumes, proposal>>
      /\ UNCHANGED <<blobs, temporaries, record, recorded>>
      /\ UNCHANGED <<edits, deaths, drifts>> /\ bindings' \subseteq bindings
  BY DEF Forget, workerVars, boundVars
<1>2. TypeOK'
  BY <1>1 DEF EvidenceInv, TypeOK, StoreTypeOK, WorkerTypeOK
<1>3. BoundIsClosed' /\ Unspoilt' /\ Detectable'
  BY <1>1 DEF EvidenceInv, BoundIsClosed, Bounded, Unspoilt, Detectable, BundleIs, VolumeIs
<1>4. AnswerIsVerdict' /\ AttestedWasRead' /\ EvidenceKept'
  BY <1>1 DEF EvidenceInv, AnswerIsVerdict, ContractHolds, AttestedWasRead, EvidenceKept
<1> QED
  BY <1>2, <1>3, <1>4 DEF EvidenceInv

LEMMA BrokerDiesKeeps ==
    ASSUME EvidenceInv, BrokerDies
    PROVE  EvidenceInv'
<1>1. /\ UNCHANGED <<source, payloads, attested, volumes, proposal>>
      /\ UNCHANGED <<blobs, temporaries, record, recorded>>
      /\ UNCHANGED <<edits, drifts>> /\ bindings' = {} /\ deaths' \in 0..MaxDeaths
  BY EvidenceAssumption DEF BrokerDies, EvidenceInv, TypeOK, workerVars
<1>2. ASSUME NEW r \in Run
      PROVE  \/ job'[r] = job[r] /\ job[r].step \in {"idle", "answered"}
             \/ /\ job[r].step \notin {"idle", "answered"}
                /\ job'[r] = [NoJob EXCEPT !.step = "failed"]
  BY DEF BrokerDies
<1>3. [NoJob EXCEPT !.step = "failed"] \in Jobs
  BY DEF NoJob, Jobs, Step
<1>4. job' \in [Run -> Jobs]
  BY <1>2, <1>3 DEF BrokerDies, EvidenceInv, TypeOK
<1>5. TypeOK'
  BY <1>1, <1>4 DEF EvidenceInv, TypeOK, StoreTypeOK, WorkerTypeOK
<1>6. BoundIsClosed' /\ Unspoilt' /\ Detectable'
  BY <1>1, <1>2 DEF EvidenceInv, BoundIsClosed, Bounded, Unspoilt, Detectable, BundleIs,
                    VolumeIs, NoJob
<1>7. AnswerIsVerdict' /\ AttestedWasRead' /\ EvidenceKept'
  BY <1>1, <1>2 DEF EvidenceInv, AnswerIsVerdict, ContractHolds, AttestedWasRead, EvidenceKept,
                    NoJob
<1> QED
  BY <1>5, <1>6, <1>7 DEF EvidenceInv

LEMMA EditKeeps ==
    ASSUME EvidenceInv, NEW b \in Bundle, Edit(b)
    PROVE  EvidenceInv'
<1>1. /\ UNCHANGED <<payloads, job, bindings, attested, volumes, proposal>>
      /\ UNCHANGED <<blobs, temporaries, record, recorded>>
      /\ UNCHANGED <<deaths, drifts>> /\ source' = b /\ edits' \in 0..MaxEdits
  BY EvidenceAssumption DEF Edit, EvidenceInv, TypeOK, workerVars, jobVars
<1>2. TypeOK'
  BY <1>1 DEF EvidenceInv, TypeOK, StoreTypeOK, WorkerTypeOK
<1>3. BoundIsClosed' /\ Unspoilt' /\ Detectable'
  BY <1>1 DEF EvidenceInv, BoundIsClosed, Bounded, Unspoilt, Detectable, BundleIs, VolumeIs
<1>4. AnswerIsVerdict' /\ AttestedWasRead' /\ EvidenceKept'
  BY <1>1 DEF EvidenceInv, AnswerIsVerdict, ContractHolds, AttestedWasRead, EvidenceKept
<1> QED
  BY <1>2, <1>3, <1>4 DEF EvidenceInv

\* There is one foreign write at most, and what was read before it was right.
LEMMA DriftKeeps ==
    ASSUME EvidenceInv, Drift
    PROVE  EvidenceInv'
<1>1. /\ UNCHANGED <<source, bindings, job, attested, proposal>>
      /\ UNCHANGED <<temporaries, record, recorded, edits, deaths>>
  BY DEF Drift, jobVars
<1>2. drifts = 0 /\ drifts' = 1 /\ drifts' \in 0..MaxDrifts
  BY EvidenceAssumption DEF Drift, EvidenceInv, TypeOK
<1>3. /\ StoreTypeOK' /\ \A b \in Bundle : payloads'[b].state = payloads[b].state
      /\ volumes' \in [Run -> Artifact] /\ blobs' \in [Run -> {"absent", "whole", "corrupt"}]
      /\ \A r \in Run : blobs'[r] = "absent" <=> blobs[r] = "absent"
  <2> DEFINE Typed ==
        /\ StoreTypeOK' /\ \A b \in Bundle : payloads'[b].state = payloads[b].state
        /\ volumes' \in [Run -> Artifact] /\ blobs' \in [Run -> {"absent", "whole", "corrupt"}]
        /\ \A r \in Run : blobs'[r] = "absent" <=> blobs[r] = "absent"
  <2>0. TypeOK /\ StoreTypeOK /\ WorkerTypeOK
    BY DEF EvidenceInv, TypeOK
  <2>1. ASSUME NEW b \in Bundle, NEW c \in Bundle, DriftPayload(b, c)
        PROVE  Typed
    <3>1. /\ payloads' = [payloads EXCEPT ![b] = [payloads[b] EXCEPT !.content = c]]
          /\ payloads[b].state # "absent" /\ c # None
      BY <2>1, EvidenceAssumption DEF DriftPayload
    <3>2. StoreTypeOK' /\ \A d \in Bundle : payloads'[d].state = payloads[d].state
      BY <2>0, <3>1 DEF StoreTypeOK
    <3> QED
      BY <2>0, <2>1, <3>2 DEF DriftPayload, TypeOK, WorkerTypeOK
  <2>2. ASSUME NEW r \in Run, NEW a \in Artifact, DriftVolume(r, a)
        PROVE  Typed
    BY <2>0, <2>2 DEF DriftVolume, TypeOK, StoreTypeOK, WorkerTypeOK
  <2>3. ASSUME NEW r \in Run, DriftBlob(r)
        PROVE  Typed
    BY <2>0, <2>3 DEF DriftBlob, Readable, TypeOK, StoreTypeOK, WorkerTypeOK
  <2> QED
    BY <2>1, <2>2, <2>3 DEF Drift
<1>4. TypeOK'
  BY <1>1, <1>2, <1>3 DEF EvidenceInv, TypeOK, WorkerTypeOK
<1>5. BoundIsClosed'
  BY <1>1, <1>3, EvidenceAssumption DEF EvidenceInv, BoundIsClosed, Bounded, TypeOK, Jobs
<1>6. Unspoilt'
  BY <1>2 DEF Unspoilt
<1>7. Detectable'
  BY <1>1, <1>2 DEF EvidenceInv, Unspoilt, Detectable, BundleIs, VolumeIs
<1>8. AnswerIsVerdict' /\ AttestedWasRead'
  BY <1>1 DEF EvidenceInv, AnswerIsVerdict, ContractHolds, AttestedWasRead
<1>9. EvidenceKept'
  BY <1>1, <1>2, <1>3 DEF EvidenceInv, EvidenceKept
<1> QED
  BY <1>4, <1>5, <1>6, <1>7, <1>8, <1>9 DEF EvidenceInv

LEMMA StandsStill ==
    ASSUME EvidenceInv, UNCHANGED vars
    PROVE  EvidenceInv'
<1>1. /\ UNCHANGED <<source, payloads, bindings, job, attested, volumes, proposal>>
      /\ UNCHANGED <<blobs, temporaries, record, recorded, edits, deaths, drifts>>
  BY DEF vars, jobVars, workerVars, boundVars
<1>2. TypeOK'
  BY <1>1 DEF EvidenceInv, TypeOK, StoreTypeOK, WorkerTypeOK
<1>3. BoundIsClosed' /\ Unspoilt' /\ Detectable'
  BY <1>1 DEF EvidenceInv, BoundIsClosed, Bounded, Unspoilt, Detectable, BundleIs, VolumeIs
<1>4. AnswerIsVerdict' /\ AttestedWasRead' /\ EvidenceKept'
  BY <1>1 DEF EvidenceInv, AnswerIsVerdict, ContractHolds, AttestedWasRead, EvidenceKept
<1> QED
  BY <1>2, <1>3, <1>4 DEF EvidenceInv

----------------------------------------------------------------------------
(* The theorems. *)

\* Payloads that a verification is bound to are closed, what its containers
\* have read is what was signed, and evidence the log refers to stays: for any
\* number of runs, bundles, edits and deaths of Broker and Worker.
THEOREM ChainHolds == Spec => []EvidenceInv
<1>1. ASSUME EvidenceInv, Next
      PROVE  EvidenceInv'
  BY <1>1, JobKeeps, ForgetKeeps, WorkerKeeps, BrokerDiesKeeps, WorkerRestartsKeeps, EditKeeps,
     DriftKeeps DEF Next, JobStep, SealStep, WorkerStep
<1>2. EvidenceInv /\ [Next]_vars => EvidenceInv'
  BY <1>1, StandsStill
<1> QED
  BY InitHolds, <1>2, PTL DEF Spec

\* A permit rests on what the pinned checks say of the sealed proposal, whatever
\* the administrator's directory held and whoever wrote to a payload, an export
\* or a blob in between.
THEOREM PermitsRest == Spec => []PermitRests
<1>1. EvidenceInv => PermitRests
  <2> SUFFICES ASSUME EvidenceInv, NEW r \in Run, record[r] = "permitted"
               PROVE  Verdict[Pinned][proposal[r]] = "PASS"
    BY DEF PermitRests
  <2>1. attested[r].bundle = Pinned /\ attested[r].status = "PASS" /\ attested[r] # NoResult
    BY EvidenceAssumption DEF EvidenceInv, AnswerIsVerdict, ContractHolds, NoResult
  <2>2. /\ attested[r] = [bundle |-> job[r].bundle, artifact |-> job[r].artifact,
                          status |-> job[r].status]
        /\ job[r].artifact = proposal[r] /\ job[r].step = "answered"
    BY <2>1 DEF EvidenceInv, AttestedWasRead, AnswerIsVerdict
  <2>3. job[r].bundle = Pinned /\ job[r].status = "PASS"
    BY <2>1, <2>2
  <2> QED
    BY <2>2, <2>3 DEF EvidenceInv, AnswerIsVerdict
<1> QED
  BY ChainHolds, <1>1, PTL
=============================================================================
