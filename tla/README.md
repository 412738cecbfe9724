# A specification of CommitGate

CommitGate lets an AI agent edit a copy of a workspace and decides, after
independent verification, whether that copy becomes the authoritative one. In
production the decision and the switch are made by one process, the Transition
Authority Worker, over an append-only event log and a handful of directories it
renames; another, the Runtime Broker, runs the containers and attests that they
are gone; the product's API process keeps a database of what it has told its
users. In development the API process is the gate as well.

This directory holds a TLA+ specification of the Worker, the Broker, the product
over them, the in-process gate, the trees both gates copy and compare, the
capability under which an Agent calls its model, the evidence a permit rests on
and the way an Agent comes to be; the TLC runs that check small instances, and
the TLAPS proofs of what holds for every instance.

## 1. Inventory

| Component | State it keeps | Operations | Talks to |
|---|---|---|---|
| Worker log and projection (`transition-log.ts`, `transition-worker/projection.ts`) | one immutable file per event, hash-chained; projection = fold of the events | `append`, `read`, `rebuildWorkerProjection` | the Worker only |
| **Transition Authority Worker** (`transition-worker/worker.ts`) | the authoritative workspace, backups, snapshots, sealed proposals, exchange inbox, archive; one promise queue per Agent | 20 RPCs, startup recovery, orphan collection | log; gate runner and Agent service over a Unix socket |
| Worker RPC transport (`transition-worker/rpc.ts`) | sockets in use | request, answer, timeout | Worker, gate runner, Agent service |
| Worker filesystem (`transition-worker/filesystem.ts`) | none | manifest, tree copy, proposal diff | the disk |
| Evidence blobs, signing keys, receipt proofs | content-addressed files, key files | put/get, sweep, sign, verify | Worker |
| Gate runner (`worker-commitgate-runner.ts`) | in-memory active runs and reservations | `run`, `cancel`, recovery of authority | Worker RPC, Broker, verifier |
| Runtime Broker (`runtime-broker/`) | lifecycle ledger file per run, active maps | run agent, run verifier, cancel, reconcile, attest teardown | Docker, gate runner |
| Containers, verifier, store of trusted checks (`container-codex-runner.ts`, `verifier-runner.ts`, `trusted-check-bundle.ts`) | container processes, bindings of runs to bundles, read-only copies of bundles | start, wait, remove, seal a bundle | Broker |
| Agent service (`agent-service.ts`, `store.ts`) | product database (one JSON file), reservation maps | create, message, stop, update, rollback, delete, reconcile at startup | gate runner, Worker RPC |
| In-process CommitGate (`commitgate/`) | journals, permits, receipts, sealed proposals, versions and snapshots | the development-mode equivalent of the Worker | Agent service |
| Policy and manifests (`commitgate/policy.ts`, `manifest.ts`, `validators.ts`, `file-ops.ts`, `resource-budget.ts`) | none | classify, list, compare, judge, copy | both gates |
| Model relay (`model-relay-server.ts`, `model-provider.ts`) | in-memory capabilities and identities | activate, forward, revoke | containers, provider |
| Effect outbox, intent evidence (`research/`) | one file per effect intent | prepare, dispatch, compensate | nothing in the product |
| Web client, configuration, evaluation scripts, deployment | - | - | - |

### What is hard

* **Crashes.** A promotion is a rename, an event, a rename, a copy and two events; in process it is some twenty durable writes over six stores. Each process can be killed between any two of them, and killed again during recovery.
* **Partial failure.** Every step can fail while the process lives; the handler then undoes what it did, and the undoing is itself made of steps.
* **Lost answers.** A timeout gives up the caller, never the handler: what was asked for happens later, or happens although its caller has asked for the opposite.
* **Interleaving.** The queue serialises requests, not runs: between the requests of one run come those of another, of a cancellation, of an operator. At the Broker nothing serialises anything.
* **Stale state.** A run names the View it was admitted on. HEAD may have moved by the time it promotes, or while it is being recovered; the product's copy of HEAD may be older still.
* **Writers that are not the gate.** The Agent's processes may outlive its answer, the administrator edits the checks while they run, and nothing stops others from writing to a directory between two hashes.
* **Log poisoning.** An event is durable before it is folded. One that the fold rejects makes the Agent unreadable.
* **Truthful receipts.** A receipt claims that bytes are gone; the claim and the bytes live in different places.

PROJECT.json lists each hazard at its line, with the properties that watch it.

### What makes each component correct

* *Worker*: decisions form one chain, each against the View the one before it left; a commit installs exactly what was sealed and verified; one receipt per transition; a cancelled run is never promoted; the directory is HEAD's whenever nothing is crossing; the log can always be folded; recovery always decides; a negative receipt tells the truth about the disk.
* *Broker*: an attestation that all containers of a run are gone is true and stays true; every launched run ends recorded.
* *Agent service over the Worker*: the database is behind the Worker or level with it, never ahead; what a user was told is not taken back; a startup that gets through leaves the two in agreement.
* *In-process CommitGate*: stores, workspace and database tell one story whenever an operation may begin; the base can be put back until the database has moved; recovery decides; decisions are final.
* *Trees*: what is installed differs from what it replaces only by what the policy permits, and is what was verified; nothing is refused without a cause.
* *Model relay*: a revoked bearer stays revoked; the identity reported is the one every answer has given.
* *Evidence*: what the Broker signs is what its containers have read, and a permit rests on the pinned checks.
* *Origin*: a log binds only the tree the product's row names, and nothing that was there is overwritten.

## 2. The modules

```
TransitionLog            the log of one Agent, as its projection
  TransitionWorker       the Worker: requests, steps, recovery, crashes, faults
    WorkerProperties     what must hold        ---- INSTANCE ---> StateAuthority
      WorkerInvariant    the inductive strengthening              (what is promised)
        RecoveryInvariant what each step finds in the log and on disk
          MCTransitionWorker     instance for TLC, one .cfg per run
          AuthorityInvariant     where the chain of decisions stands
            WorkerProofs         I   every event, step and request keeps WorkerInvariant
                                 II  snapshots, replay, destruction through every kill
                                 III one chain of decisions; StateAuthority refined

RuntimeBroker            the Broker: handlers, ledger, containers, kills
  GateCalls              + the gate runner's calls, lost answers; what must hold
    BrokerInvariant      the inductive strengthening
      MCGateCalls                instance for TLC
      BrokerProofs               types, ledger; what is attested and recorded is true

AgentService             the product over the Worker   -- INSTANCE --> StateAuthority
  ProductProperties      what a user may believe       (the Worker, as it promises)
    MCAgentService               instance for TLC, one .cfg per run
    ProductInvariant     the inductive strengthening
      ProductProofs              no claim is false, no outcome is taken back

CommitGate               the in-process gate, its stores, recovery and database
  GateProperties         what must hold        ---- INSTANCE ---> GateContract
    GateInvariant        the inductive strengthening       (the promise, atomic)
      MCCommitGate               instance for TLC
      GateSteps                  what each step does; operation, journal, receipt
        GateProofs               trees, row, snapshots; the promises; GateContract refined

ManifestPolicy           trees, manifests, policy: the pure functions of both gates
  TreeGate               every scan, copy and comparison, with other writers
    TreeProperties       what must hold
      MCTreeGate                 instance for TLC

ModelRelay               capabilities, requests, the runner and the gate
  MCModelRelay                   instance for TLC
  ModelRelayProofs               a revocation is final

EvidenceChain            bundles, verifications, evidence blobs, permits
  MCEvidenceChain                instance for TLC
  EvidenceProofs                 permits rest on the pinned checks

AgentOrigin              creation in either mode, adoption, the Worker's first start
  MCAgentOrigin                  instance for TLC
  OriginProofs                   the log binds the row's tree, nothing is overwritten
```

How they fit together:

* The Worker's `recordRuntimeTeardown` takes the Broker's signed attestation for the truth. `TransitionWorker` lets that request come in any order its guards allow; `GateCalls` says when it is the truth.
* `AgentService` runs over `StateAuthority` instead of the Worker; `TransitionWorker` refines `StateAuthority` (run `rollback`, theorem `WorkerImplementsAuthority`). What the one assumes the other provides.
* A tree is one value in `TransitionWorker` and `CommitGate`; `TreeGate` opens it. A check's verdict is a Boolean there; `EvidenceChain` says what it is the verdict on.
* The first version is there when `TransitionWorker`, `CommitGate` and `AgentService` begin; `AgentOrigin` is how it got there.

Agents share nothing the gates order (`serial` keeps one queue per Agent), so
one Agent is enough except in `AgentOrigin`, where one startup goes through all.

Operators ending in `_Mutant` state a plausible bug of the definition that
follows them. They are used by no specification: put in the place of their
namesakes, they show which property notices.

### TransitionLog

The code stores events and folds them on every read. The fold is deterministic
and incremental, so the module keeps the folded facts (`head`, `tx`, `order`,
`receipts`, `pending`, `archived`) and has one operator per event type, named
after it. `Fold(accepts, effect)` is what an append amounts to: if the fold's
case for the event throws, the event is durable all the same and `corrupt` stays
TRUE for ever. A *tree* is what a manifest hash identifies: a versioned and a
platform-managed part. A *View* is the tuple of fields its `viewId` hashes.

### TransitionWorker

A request is one action. It evaluates the handler's guards in the Agent's queue
and leaves in `op.plan` the durable steps still to be taken, in the order of the
code: one rename, one recursive delete or one append each. A step is an action
(`importProposal` and `remove` are one action per directory), so `Crash` can strike
between any two, and `Fault` makes the next one fail.

| Code | Here |
|---|---|
| `serial` | `Ready`: a request starts only when `op = Idle` |
| `prepareRun`, `sealProposal`, `exportProposal`, `recordEvidence`, `issuePermit`, `applyPromotion`, `cancelRun`, `disposeRun`, `recordRuntimeTeardown` | the request actions of those names |
| the import of `sealProposal` | `ImportProposalStep` (delete an older copy; copy and rename), then `LogSealStep` (PROPOSAL_SEAL_PREPARED, `logFlawed` if the diff touches a platform-managed path) |
| the conflict branch of `applyPromotion` | `PromotionCasConflict` |
| `prepare` + `applyRollback` | `Prepare`, `ApplyRollback`, four `authorize` steps |
| `replaceWorkspace`, `finishAppliedTransition` | steps `backup`, `logBackup`, `swap`, `snapshot`, `apply`, `ack` |
| catch block of `applyTreeAndAcknowledge` | `Fail` -> `Undo`: `evict`, `reinstate`, `remove`, `logDestroyed`, `restore` |
| `destroyRunArtifacts` | `remove` (`RemoveStep`: candidate, export, sealed copy), then `logDestroyed` |
| `appendNonCommitDisposition` | `reject` (against HEAD), `restore` (against the restored base) |
| `restoreBackup` | `evict`, `reinstate` |
| `recoverPendingWorkerIntents`, `finish*Intent` | `FinishIntentStep`, one durable effect at a time |
| `regeneratePlatformState`, `archiveAgent` | their PREPARED intent, then `finishIntent` |
| `repair` | `RepairRollback`, `RepairForward`, step `logRepair` |
| `recoverAgent`, `recoverIncompleteTransition` | `BeginRecovery`, `ExamineStep` (one transition each), `SettleStep` |
| `initialize` after a start | `Start`; `Throw` says which errors stop it; `Sweep` is `gcStartupOrphans`, after which requests are served; `InitializeThrows` is another Agent's recovery, or the sweep, throwing |
| `currentWorkspaceHash` creating a missing directory | `Materialized` |
| `requireRuntimeTeardownHandshake` | constant `Handshake` |

Abstractions, all on data or on what nothing else observes:

* Identifiers bound to a run (proposal, permit, exchange volume) are the transition itself; requests that name others are refused by the code and are not actions. A refused request changes nothing, except that its compare-and-set may create a missing workspace (`ProbeWorkspace`).
* A permit that expires only disables the promotion, which the model need not take.
* The verifier's verdict is the Boolean `passed`; a platform-managed change found by the static inspection is `~clean`.
* At most one teardown attestation per scope; a second only supersedes the digest.
* The completion event of a platform regeneration and the removal of its backup are one step; `FinishIntentStep` repeats the removal anyway.
* A sealed copy is made under a staging name and renamed; `proposal` stands for either name, for nobody reads the first. The staging copy of a platform regeneration precedes its intent: until then it is an orphan nobody reads, removed by the next startup.
* `BackupStep` compares the workspace with the base and renames it in one action. Nothing that is checked or proved with foreign writes speaks of what the workspace or its backup holds; `TreeGate`, where it matters, has the two apart.
* `Fault` strikes before the effect of a step. A failed second rename undoes the first, as the code does; that the undoing fails as well is two faults in one step and left out.
* The model starts after `initializeAgent` (`AgentOrigin`). Legacy events, exchange-ref bindings and receipt proofs are left out, and so are the orphans of `gcStartupOrphans` other than sealed copies (`EvidenceChain` has the blobs).

### StateAuthority

The promise, with no process, disk or crash: a View, and per transition at most
one decision taken atomically against the View of that instant.
`ImplementsAuthority` is the refinement of the Worker; `AgentService` uses the
same actions as its Worker. The View the Worker maps to it is `AcknowledgedHead`: HEAD as
moved by WORKSPACE_APPLIED is not final before the transition is acknowledged,
since a failure in between takes it back.

### RuntimeBroker

Every request has a handler of its own and nothing serialises them but the
ledger's file, so an action is what one handler does between two awaits that
others can observe. What a run's two launch handlers do is `handler`; teardown
and reconcile are the records in `closers`, of which a run may have several.

| Code | Here |
|---|---|
| `BrokerLifecycleLedger`, a file per run | `stage`, kept by `Kill`; `beginAgent`, `beginVerifier`, `markAgentClosed`, `markAllClosed` are the guards and effects of `BeginAgent`, `BeginVerifier`, `MarkClosed` |
| `runAgent`, `ContainerCodexRunner.run` | `BeginAgent`; the awaits before the spawn (`AgentNeverStarts`); `SpawnAgent`; `SettleAgent` is the `finally` |
| `runVerifier`, `DockerVerifierRunner.run` | `BeginVerifier`, `VerifierNeverStarts`, `SpawnVerifier`, `SettleVerifier` |
| `docker run --rm` | `Attach` (the container exists), `ContainerEnds`, `CliCloses` (the CLI returns, or is killed and leaves its container) |
| `active`, `activeVerifiers`, the abort signal, `completedTeardowns` | `active`, `verifying`, `aborted`, `record`; all lost by `Kill` |
| `teardown` | `Begin`, `TeardownStep` (`Complete` is its case analysis), `CloseStep`, `CloserFails` |
| `reconcile` | `Begin` (with its `Abort`), `CancelStep`, `RemoveStep`, `QueryStep`, `CloseStep`, `CloserFails` |
| the answer to a caller who may have gone | `Answer`, `Ends` |

Abstractions: a verifier run is one check, since `runComplete` makes the record
count only when the last one has ended; a binding is its run, for a request with
another lease or epoch is refused; the twenty queries of `reconcile` are one
that succeeds or fails; equal closers of one run are one element of the set,
which loses only repetitions. `completedTeardowns` keeps 1,024 records, which the
model does not bound: no run waits for 1,024 later ones. A CLI killed while it
launches has created its container or never will.

### GateCalls

The gate runner's part in that: it launches the Agent, tears it down, launches
the verifier, tears everything down and has the Worker record it; on any error,
cancellation or restart it reconciles until the Worker has it recorded
(`Recover`, `RetryReconcile`). `LoseReply` is an API restart or an RPC timeout:
the caller is gone, the handler is not.

### AgentService

The API process runs one execution and one mutation per Agent at a time, each a
record with a program counter; an action is what runs between two awaits, one
call to the Worker, the Broker or the database file. A request is `Served`
(answered or, with `Lost`, not) or left to `late`, which `LateRequest` serves
after its caller has gone.

| Code | Here |
|---|---|
| `sendMessage`, `executeRun` | `SendMessage` (the admission row), `StartExecution`, `Bind` |
| `WorkerCommitGateRunner.run` | `PrepareRun`, `PrepareAgain` (the retry that adopts a lost admission), `Launch`, `Work`, `ApplyPromotion`, `RecoverAcknowledgedCommit` (an ambiguous promotion is looked up), `CloseRuntime`; `Throws` and `Refused` are its catch clauses |
| `finalizeDisposition` | `FinalizeDisposition`, `DisposeRun` |
| `persistWorkerCommittedRun`, `persistWorkerNonCommitRun`, `persistRunFailure` | `ReadCommit` and `PublishCommit`, `ConfirmDisposition` and `PublishRejection`, `PersistFailure` |
| `cancelExecution`, `WorkerCommitGateRunner.cancel` | `StopAgent`, `CancelRun`, `CancelAnswered`, `ExecutionOver` |
| `deleteAgent` | `ArchiveAgent`, `RemoveAgent` |
| `performWorkerRollback` | `BeginRollback`, `RollbackCall`, `RecordRollback` |
| `updateAgent` | `BeginUpdate`, `RegeneratePlatformState`, `ReplaceAgent` |
| `initializeWorkerAuthorityProjection` | `Startup`: `RecoverWorkerAdmissionGap`, `RecoverAuthority`, `ApplyProjection` (`ProjectionGaps` are the rows it repairs) |
| `JsonStore.mutate`, the death of the process | one write of `db`, `rows`, `said`; `Crash` and `Load` |
| the Worker's own restart | `RecoveredReason`, `Recoverable`: what it may decide by itself |

Abstractions: one conversation, so thread identifiers and users' messages are
left out; version rows follow the View; the retirement of session homes and the
TOO_LATE answer of a cancellation change nothing that is modelled. Where several
rows of a startup repair have the same time stamp, which of them names the
Agent's status is left open.

### CommitGate

The in-process gate has no log but six stores, each a file per operation,
replaced atomically. An operation walks through them; an action ends with one
durable write. Startup recovery is made of the same steps.

| Code | Here |
|---|---|
| `CommitGateCoordinator.prepare`, `recordAdmissionFailure` | `Prepare`, `PrepareConflict`, `RecordAdmissionFailure` |
| `CommitGateRunner.run` | `RunAgent`, `AgentEnds` |
| `verifyAndFinalize` | `Seal` (`SealRefuses`, `Rejects`), `Verify`, `Issue`, `RecordPromotion`, `RecordFinal` |
| `PromotionPermitStore` | `Issue`, `Claim`, `Consume`, `SetPermit` |
| `WorkspaceTransaction.promote` | `Stage`, `CompareBase` or `CompareConflict`, `Promoting`, `Vacate`, `Fill`, `PendingDatabase` |
| `stageAcknowledge`, `persistCompletedRun`, `acknowledge` | `AppendVersion`, `Project`, `DropBackup`, `AcknowledgeJournal`, `ReleaseRetention`, `DestroyProposal`, `TerminalReceipt`, `Release` |
| `reject`, `persistRejectedRun`, `finalizeDisposition` | `Reject`, `RejectReceipt`, `Outcome`, `Publish`, `Dispose` |
| `rollbackPending`, `rollbackJournal`, the catch of `promote` | `UndoSwap`, `UndoJournal`, `CloseJournal`, `RevertVersion`, `AbortReceipt`, `Lock` |
| `performRollback`, `regeneratePlatformState`, `updateAgent` | `StartRollback`, `Withdraw`, `Regenerate`, `Configure`, `ConfigureRow` |
| `recoverCommitGate` | `Start`, `DatabaseCommitted`, `Recover`, `RecoverAgain`, `Examine`, `ScanReceipt`, `Manual` |
| `AgentService.initialize` in process | `Report`, `Reproject`, `Settle`, `DisposeAtStartup`, `Serve` |
| `VersionStore.prune`, retention | `Retention` marks a record as pruned, `Available`, `Restorable` |
| `VersionStore.recordUnlocked` | `Import`, `Without` (a pruned record is replaced) |
| a write that fails, the catch clauses | `Fault`, `FaultAtStartup`; `Continuation`, by the step that failed: `AdmissionFails`, `PreparationFails`, `SwapFails`, `AcknowledgementFails`, `RefusalFails`, `OperationEnds` |

Abstractions: a hash is the tree it is the hash of; candidate, staging and
"failed" directories belong to one operation; a rejection's reason is its
decision. `GateContract` is the promise without a process: each run and rollback
is decided once, and only a commit adds to the history.

### ManifestPolicy and TreeGate

A tree is a function from paths to nodes (kind, mode, content). The pure part has
`buildManifest` with its refusals, `diffManifests`, `validateCandidate` and
`inspectProposalDiff`, the budgets, the copies and what each does to modes.
`TreeGate` walks an operation of either gate through them.

| Code | Here |
|---|---|
| `verifyAndFinalize`, `sealProposal` | `Scan`, `ScanRefuses` |
| `SealedProposalStore.seal`, `resolve` | `CopyCandidate`, `Seal`, `SealRefuses`, `Intact` |
| `assessTrustedChecks`, `normalizeCheckResult`; `validateWorkerEvidenceContract` | `EvidenceComplete`, `StatusOf`, `LocalVerdict`; `WorkerContract` |
| `applyPromotion`, `PromotionPermitStore` | `Authorize`, `AuthorizeRefuses` |
| `performRollback`, `stageRollback`; `applyRollback` | `BeginRollback` (in-process it renders the platform's files), `ReadBase`, `StageOther` (`OtherTree`) |
| `updateAgent`; `regeneratePlatformState` | `Configure`, in-process then `Adopt` or `AdoptRefuses`, in the Worker `StageOther` (`OtherPermitted`) |
| `promote`; `replaceWorkspace`, `finishPlatformRegenerationIntent` | `Stage` (`PromotionTree`), `CompareBase` or `AlreadyThere`, `Exchange`, `Confirm` |
| `stageAcknowledge`, `performRollback`; `finishAppliedTransition` | `ReadFinal` and `RecordCommit`, `RecordRollback` and `Publish`; `RecordTarget` (`Record`, `Recordable`) |
| their errors: before the swap, after it | `StageRefuses`, `StageOtherRefuses`, `CompareRefuses` (`GivesUp`); `Undo` (`rollbackJournal`, `restoreBackup`) |
| RECOVERY_REQUIRED, the recovery reservation | `Locked`: the instance does no more |
| the Agent's processes, before and after its answer | `AgentWrites` to the candidate, at any time |
| anybody else's | `Drift`: the workspace, a payload or a snapshot |

`Drift` can strike between any two of these actions. `job.struck` remembers in
which of the `Windows` it struck the workspace: after a look at the tree that is
not repeated (between the last comparison and the rename, between the rendering
of the platform's files and the base, after the installed tree is confirmed), or
between two looks that would both have to be deceived. The properties name the
windows they except, so that every other one is checked.

Abstractions: the two renames of `Exchange` are one action, since nobody writes to a
workspace that has no name; a copy is one action with the scan of what was copied
(a write between the two is refused, as one before the first is); the View an
operation publishes is read once, where the code reads its parts one after the
other; operations come one at a time, and deaths are the other modules';
owners, devices, extended attributes, sparse files and the time a scan takes
only refuse, as the kinds "hardlink" and "special" do.

### ModelRelay

| Code | Here |
|---|---|
| `activate`, `revoke`, `prune` of the registry | `ServeActivate` (`ActivationRefused`), `ServeRevoke`, `Pruned` |
| `forwardModelRelayRequest` | `Forward` (`Admitted`), `Respond`, `Finish` |
| `captureResolvedModel`, `trackResolvedModel`, `awaitResolvedModel` | `Capture`, `NoIdentity`, `Pending`, `Awaited`, `AnswerRevoke` |
| `activateModelRelayCapability`, `revokeModelRelayCapability` | `Activate`, `Call`, `Answers`, `Unheard` |
| `ContainerCodexRunner.run` around the container | `Spawn`, `NotSpawned`, `Exit`, `Revoked` |
| `recordRuntimeTeardown`, `attestCommitGateTeardown` | `Passes`, `Judge` |
| deaths | `RelayRestarts` (the registry is in memory), `RunnerDies`, `Expire` |

`Gate` says which gate looks at the teardown: the in-process one requires the
revocation, the Broker's attestation does not mention it.

### EvidenceChain

| Code | Here |
|---|---|
| `TrustedCheckBundleStore.seal`, `resolve` | `Describe`, `Copy`, `Publish`, `Close`, `Resolves` |
| `describeExecutionEnvironment`, `pruneBindings` | `RunVerifier`, `Bind`, `Rebind`, `Forget` |
| `DockerVerifierRunner.run`, the Broker's `runVerifier` | `Measure`, `Begin`, `Check`, `Unchanged`, `Attest` |
| `recordEvidence`, `EvidenceBlobStore.put` | `PutBlob`, `MoveBlob`, `ReadBack`, `AppendEvidence`, `RecordFails` |
| `readVerifiedBytes`, `validateWorkerEvidenceContract`, `issuePermit` | `Readable`, `ContractHolds`, `IssuePermit` |
| `gcStartupOrphans`, `pruneUnreferenced` | `WorkerRestarts` (`Referenced`) |
| the administrator, anybody else | `Edit`; `DriftPayload`, `DriftVolume`, `DriftBlob` |

A digest is its content. What the runner over the Worker passes on is signed by
the Broker, so it is read from the attestation.

### AgentOrigin

| Code | Here |
|---|---|
| `createAgent`, `WorkspaceManager.create` | `CreateInProcess`, `FillWorkspace`, `CreateUnderWorker`, `PushRow`, `CreateFails` |
| `initializeWorkerAuthorityProjection` | `FindHead`, `Adopt`, `ProjectAdopted`, `Project`, `StartupThrows`, `Serve` |
| `initializeAgent`, `adoptLegacyState` | `Begin`, `Check`, `Stage`, `Copy`, `CopyHolds`, `Prepare` |
| `finishInitialAuthorityIntent`, `captureSnapshot` | `Look`, `Place`, `Capture`, `Complete`, `Answer` |
| `TransitionWorker.initialize` | `WorkerStarts`, `CreateFile` and `FillFile` (marker and key), `ReadFiles`, `ResumeIntent`, `CheckHead`, `OpenWorker` |
| the RPC timeout; the two processes' deaths | `TimesOut`; `ProductDies`, `WorkerDies` |
| a step that fails | `Fault`, `StepFails` |

A tree is "none", "empty", "partial" while it is written, "birth" (what the row
names) or "foreign"; the later versions of an adopted Agent are part of "birth".

## 3. The runs

Model values `a`, `b` are runs, `r` and `x` rollbacks; trees have two versioned
contents and, where configuration matters, two platform contents.

| Run | Instance | Question |
|---|---|---|
| `concurrent` | 2 runs, overlapping, cancel, quarantine, archive, 1 configuration, 1 fault | do decisions stay one chain, are commits what was sealed, is the directory HEAD's whatever failed? |
| `rollback` | run + rollback, 1 configuration, 1 drift and its repair, 1 kill | does the Worker refine `StateAuthority`; are versions restorable? |
| `lifecycle` | 1 run, cancel, abort, export, archive, configuration, 2 kills, fair | the invariants of the proofs, one receipt, a log that folds, a decision at every restart, truthful receipts once the startup has swept; does the Worker come back and finish? |
| `broker` | 2 runs through the Broker, 2 kills or lost answers, fair | are attestations true, and is every launched run closed and recorded? |
| `commit_gate` | 2 operations of 2 runs, a rollback and a configuration change; 2 deaths, failed writes or foreign writes, fair | do the stores agree again after anything; is the base never lost; does it refine `GateContract`? |
| `agent_service` | 2 messages, 1 request (stop, deletion, rollback or configuration change), 2 lost answers or failures, 1 death of the API, fair | is what the user sees true, and does every execution end? |
| `tree_gate` | 8 paths, both gates, 2 operations, 2 writes, 1 of them by others, between any two scans, copies, comparisons and renames | is what is swapped in permitted and verified, what is recorded installed; is nothing refused without a cause? |
| `relay` | 1 run, 3 requests, 2 identities, 2 deaths | is a revocation final and the identity unanimous? |
| `evidence` | 2 runs, 2 bundles, 2 artifacts, 2 edits, 2 deaths, 1 foreign write | does a permit rest on the pinned checks of the sealed bytes? |
| `origin` | 2 Agents, 2 deaths or failures, 1 foreign write, 1 call given up | is only the row's tree bound and nothing overwritten; does adoption complete? |
| `stranded` | run + rollback, overlapping, 1 kill | counterexample, see below |
| `startup` | 1 message, 1 death of the API | counterexample, see below |

`Overlap = FALSE` is the product's rule that an Agent has one mutation at a time
(`assertNoActiveMutation`); the Worker itself does not ask for it, and a failed
mutation can leave its transition open, which is what `Overlap = TRUE` allows.
Deadlock is an error in `concurrent` and `lifecycle`. In `rollback`, an event
that the fold rejects stops the Agent for good; everywhere else the number of
operations is bounded, and when all is over nothing is left to do.

**Bounds.** Constants named `Max...` bound operations, writes, edits, deaths,
faults and foreign writes, each in a guard, and nothing else is cut. Two kills
cover a kill during the recovery from a kill; two lost answers let a handler
that was given up disturb the next one. Two transitions are enough for every
conflict a gate can see, because a transition is compared with HEAD and the
workspace, never with two others at once. Two versioned contents tell "base" from
"changed"; where two transitions change the same way, their generations and
versions still differ. In `tree_gate` the paths are chosen so that each rule has
one: a managed file, a protected one, an ignored directory, two names that fold
together, a nested file; the budgets are small enough for two writes to exceed
them. `RetainedAtStartup` is 4 in `commit_gate`, so that the retention of the
recovery keeps what two operations make (see the observations); `NothingLost` is
proved for every value under the same condition, `RecoveryKeepsAll`, and
`HeadKept` for every value without a kill. `agent_service`
was also checked with two requests, with three faults and with two deaths of the
API, one at a time, and `relay` with two runs. Symmetry is over runs (and, in
`relay`, requests and models), which occur only in quantifiers, and only where no
liveness is checked.

**Fairness.** `WF(Step)`, `WF(Execution \/ Mutation \/ Startup)`, the steps of a
handler: a handler that has started runs on, since nothing but the process's
death stops an awaited promise chain, and that is a separate, bounded action.
`WF(Start)`, `WF(Recovery)`: the supervisor restarts a process (`restart:
unless-stopped` of the deployment). `WF(Sweep)`: once this Agent is recovered the
startup goes through the others and sweeps; one of them may throw
(`InitializeThrows`), which is not assumed to happen always, for then the Worker
never serves anybody (see the observations). `WF(LateRequest)`: a request the Worker has
received is served. No user is assumed fair: no message, stop or creation has to
come.

At the Broker, a caller whose API was restarted reconciles again at startup
(`recoverAuthority`) or when the run is finalized. `WF(CliCloses)` is the timeout
after which the CLI is killed. `SF` of the removal, of the query and of the
Worker's record is what a retry is worth: the engine and the Worker may fail any
call, but not for ever one that is made again and again.

### What the repository says and the code does not do

Two runs end in a counterexample; PROJECT.json quotes the line each refutes.

* `stranded`: a rollback whose apply was never reached stays PREPARED; a later run is killed between the renames of its swap. Startup examines the older transition first, creates the missing workspace as an empty directory, and can then not restore the base (worker.ts:3234, 1465).
* `startup`: the API dies after it has accepted a message and before the run is launched. The startup asks the Broker to reconcile a run it never began, which the Broker refuses (lifecycle-ledger.ts:136-141); the startup throws, at every restart, for all Agents. The same holds for any run the Worker has admitted and the Broker has not launched.

These were met while modelling. Each is avoided in the runs by the constant named,
or excepted in a property by the condition named, so that the runs show where the
promise does hold:

* A transition recovered while HEAD has moved (worker.ts:1476, against ARCHITECTURE.md:312-313): `Overlap = FALSE` or no kill.
* "Deletes all run-owned bytes" (worker.ts:3155-3159, 1280-1282): `destroyRunArtifacts` deletes the sealed copy of a proposal the log knows of. A kill between the rename of the copy (1705) and PROPOSAL_SEAL_PREPARED (1706) leaves one it does not know; the recovery then appends RUN_ARTIFACTS_DESTROYED and the receipt with the copy on disk, and `gcStartupOrphans` (455) removes it before the first request, provided no other Agent's recovery throws first. `DestroyedLeavesNothing` says so. The copy stays until the next startup when an I/O error strikes there (`MaxFaults = 0` in `lifecycle`), or, without the handshake, when the candidate changes under its import (ARTIFACT_HASH_MISMATCH, 1702, leaves the staging copy).
* A repair that goes forward appends an event the fold rejects (worker.ts:2261, against 1395-1396): `LogReplayable` is checked without drift.
* A reconciliation attests the absence of a container which a handler, admitted before and abandoned by its caller, starts afterwards (runtime-broker/server.ts:378, against ARCHITECTURE.md:203-204). `RecordsHold` says when a reconciliation is to be trusted all the same: when at the moment the caller was lost the container existed or `cancel` would have waited for it (`BeforeContainer`). A late handler of one run also overwrites or deletes the `active` entry of the next (container-codex-runner.ts:418, 527, 639).
* Over the Worker, a run passes although its relay capability was not revoked (runtime-broker/server.ts:313, against LIMITATIONS.md:102-103): `Gate = "container"`.
* A request that compares an archived Agent's workspace, such as the prepareRun of a message sent after the answer to the archiving was lost, creates that directory again, empty (worker.ts:3825-3831). From then on cleanupCompletedIntent refuses the Agent (worker.ts:3038-3046) at every recovery, so that the Worker does not start again, for any Agent (authority-intent-recovery.test.ts:187-255 shows a restart without such a request): `lifecycle` has no "probe", `concurrent` has it and checks that the archive itself stays HEAD.
* HEAD's generation goes back when an error after WORKSPACE_APPLIED restores the base (worker.ts:2338-2349, against ARCHITECTURE.md:119, "monotonic"): the Worker is mapped to `AcknowledgedHead`.
* applyRollback restores the whole snapshot, configuration included (worker.ts:2116, against ARCHITECTURE.md:323-325); the in-process gate does not. `RestoresVersion` states both.
* After PROPOSAL_SEAL_PREPARED fails to complete, disposeRun ends the transition and leaves the intent, which finishProposalSealIntent then refuses for good (worker.ts:2859-2866): `MaxFaults = 0` in `lifecycle`.

### Observations on the product over the Worker

* A committed run whose projection cannot be read afterwards, or whose promotion is served after `RecoverAcknowledgedCommit` has looked, is published as failed and repaired at the next restart; `OutcomesStay` therefore does not count "failed".
* A cancellation before the admission advances the database's epoch without the Worker; the next run then fails its compare-and-set and locks the Agent (against the comment at agent-service.ts:2676). `NeverAhead` excepts the epoch.
* `updateAgent` writes back the row it has read, over what was accepted meanwhile; a lost answer to an archive leaves an archived Agent visible, one to a rollback or regeneration leaves the database behind, unlocked. All three end at a restart (`Reconciled`).

### Observations on the in-process gate

* A kill at PREPARING leaves the receipt PENDING_PROMOTION until the second restart (recovery.ts:144-149, against ARCHITECTURE.md:370); one after the database was projected and before the release leaves the run's row as it was (agent-service.ts:269-277).
* A rolled-back journal turns a cancelled run into a failed one; a database failure in `releaseCommittedAgent` publishes a committed run as failed.
* A foreign write between the comparison of the base and the rename is replaced without notice (workspace-transaction.ts:253, 276): `StoresAgree` and `BaseRecoverable` are stated for `drifts = 0`.
* `markReceiptRolledBack` says the artifact was destroyed, while the proposal stays (against LIMITATIONS.md:253).
* Recovery retains with its own limit, not the configured one (recovery.ts:45, config.ts:100), and may release retention while the head is staged (recovery.ts:108), which with `RetainedAtStartup = 2` leaves a head without a snapshot; hence 4.
* A kill in `updateAgent` leaves AGENTS.md new and the row old: `StoresAgree` says so.

### Observations on trees, evidence and origin

* In both gates one foreign write between the last comparison and the rename (workspace-transaction.ts:253 and 276, worker.ts:3429 and 3435) is replaced without notice: `OnlyPermitted` then speaks of the base that was compared. Its backup differs from the base, so that an undone swap ends in RECOVERY_REQUIRED (`Undo`, `Locked`).
* In-process, one foreign write between the rendering of AGENTS.md and the reading of the base (agent-service.ts:1731, version-store.ts:178) becomes the base of a rollback and is installed with it, and one after the swap's last comparison is recorded and published (coordinator.ts:776, version-store.ts:217, agent-service.ts:1741); between rendering and hashing, `updateAgent` publishes it as well (agent-service.ts:1049-1053). `RestoresVersion` and `RecordsInstalled` except these. The Worker binds what it meant to install, so that such a write is a workspace that is not HEAD.
* A hash is deceived by two foreign writes, away and back. The diff base of the Worker is the workspace as it is when it seals (worker.ts:1689-1690), so that two defeat `OnlyPermitted`, one before and one after; two defeat the platform-files clause of `RestoresVersion`, which is excepted.
* The canary inspection looks only at the first changes up to the limit, directories included (validators.ts:53); a candidate with a read-only directory that is not empty cannot be removed in process (`Cause`).
* A seal of a bundle killed between its rename and its chmod leaves the payload open, and every later seal of that bundle fails; one that comes in between only fails its own run. Two foreign writes, away and back, are invisible to the hashes before and after (`MaxDrifts` is at most 1).
* An evidence blob that does not read back is never replaced and makes every reading of the projection fail. `EvidenceInv` says that nothing but a foreign write brings that about.
* A first start of the Worker that is killed between creating the policy marker or the signing key and filling it is refused for ever (worker.ts:458-493, signing-key-store.ts:36-56): `AdoptionCompletes` excepts `Torn`.
* One Agent whose workspace is not its HEAD, or whose intent cannot be finished, keeps the Worker from starting for all (worker.ts:442-453); so does one adopted tree that has changed for the product. A lost answer to `createAgent` leaves an Agent without a row.
* The relay's record of conflicting identities is pruned with the capability; one that expires while a revocation waits is excepted in `IdentityUnanimous`.

## 4. The proofs

### The Worker

`WorkerProofs` has three parts. Part I proves, for every set of transitions, every set of contents, any
number of crashes, faults, drifts and configurations, with and without the
handshake:

| Theorem | Says |
|---|---|
| `Invariance` | `Spec => []Inductive` |
| `TypeCorrect` | `Spec => []TypeOK` |
| `OneShotAuthority` | `Spec => []OneShot` |
| `CommitsBindSeals` | `Spec => []CommitBindsSeal` |
| `CancellationIsFinal` | `Spec => CancelIsFinal` |

Part II proves of the same specification what depends on the directories
and on the order of the steps:

| Theorem | Says |
|---|---|
| `VersionsStayRestorable` | `Spec => []VersionsRestorable` |
| `LogStaysReplayable` | `RepairFree => (Spec => []LogReplayable)` |
| `DestroyedStaysDestroyed` | `MaxFaults = 0 => (Spec => []DestroyedLeavesNothing)` |
| `RecoveryInvariance` | `Spec => []RecoveryInv`, the invariants behind the three |

Part III proves what the decisions have to do with each other:

| Theorem | Says |
|---|---|
| `HistoryIsSerial` | `~Overlap => (Spec => []SerialHistory)` |
| `WorkerImplementsAuthority` | `~Overlap /\ (Rollbacks = {} \/ Requests \cap {"platform", "archive"} = {}) => (Spec => ImplementsAuthority)` |

The conditions of `LogStaysReplayable` and `DestroyedStaysDestroyed` are the ones
under which the code keeps the promise, and no more. `RepairFree` is `"repair" \notin Requests`: a forward repair of a drifted
workspace appends a BACKUP_CREATED the fold rejects (see the observations).
`MaxFaults = 0`: when an I/O error strikes between the copy of a seal and its
intent, or between the intent and its completion, the Worker goes on serving with
the copy on disk, and a disposition then claims that everything is destroyed; TLC
shows it with one fault. What `DestroyedLeavesNothing` itself leaves open, a copy no
event names before the startup's sweep or without the handshake, is what the code
leaves open without any I/O error (see above). Kills, drifts, overlapping transitions and requests of
every other family are as many as one likes in all of them.

Part III takes any number of kills, I/O errors, drifts and repairs, and
asks for `~Overlap`, which is the product's `assertNoActiveMutation`; that the
receipts stay one chain while transitions overlap is checked by `concurrent`, and
the refinement does not hold then (a transition recovered while HEAD has moved,
see above). The second condition of the refinement was found by its proof: without
it the step that consumes a rollback's permit cannot be shown to find HEAD at
rest, and TLC has the counterexample. A platform regeneration whose step fails
with an I/O error leaves its intent pending, and the Worker serves on; `prepare`
and `applyRollback` (worker.ts:1564, 2071) do not finish pending intents first, as
the other handlers do; a kill after PERMIT_CONSUMING lets the restart finish the
regeneration, which moves HEAD, before it recovers the rollback, and if both lead to
the same tree the rollback is carried forward onto a HEAD it was not admitted on.
With rollbacks and configurations together but no I/O error the refinement is
checked by `rollback`.

They assume `LogAssumption`, `NoneIsNoView` and `WorkerAssumption` only: the
absent value is not a transition, a tree or a View, rollbacks are transitions,
and the bounds are numbers. Here a drift is an arbitrary write to the
authoritative directory and a repair can go either way, so nothing in these
theorems depends on the directory being intact.

**Why an invariant.** None of the four is inductive. `OneShot` needs to know that
a receipt and a terminal state always come together (`ReceiptsFitState`) and that
the permit follows the state (`PermitFits`). `CommitBindsSeal` needs what was
true when the permit was issued to be still recorded when the acknowledgement is
appended, possibly two crashes later (`FactsFit`). And since a handler's guards
are evaluated long before its last step, each step needs to know what the
handler established: that is `PlanFits`, which reads off the remaining plan what
the plan relies on. For instance, while steps that install the next View remain,
the transition has one; while a rollback is still authorizing itself, HEAD is
the View it was prepared on.

What survives a kill needs more. A step's plan is what the code would do next, so
that the step about to be taken tells what was done before it, if the plans are
the ones the handlers write: that is `OrderFits`, which lists for each kind of
operation which step may follow which, and holds always. `SnapshotsFit` adds to
it that a commit about to be acknowledged has its snapshot, both in a handler and
in a recovery, which captures it in another order. `Replayable` says for each kind
and step in which state the transition is, so that no event meets a state its
case in the fold rejects; a recovery rederives it from the log alone.
`DestructionFits` says that what is recorded as destroyed, or about to be, is gone,
but for a copy no event names (`ClaimsHold`, `RemovalFits`); that while requests are
served under the handshake there is no such copy but the one being sealed
(`CopiesFit`), which a kill ends and the sweep restores; and that an intent to seal
is finished before anything else is begun (`SealingFits`).

**The argument** has two layers, both in part I. Below, each event, whether the fold
accepts or rejects it, keeps `LogInv`, never takes back a terminal state and
leaves a cancelled run cancelled or rolled back (`Kept`); each step keeps `LogInv`
by the lemma of its event, and `PlanFits` because the rest of a plan relies on no
more than the plan did (`Skipped`) or because the new plan is justified by what
the step established (`Planned`). Above, the same for every request, for
crash, drift and fault; then the induction, and each property from the invariant.
Part II writes the plans out (`SwapWritten`, `ForwardWritten`, ...), shows
that every step, request, kill and start keeps the order (`OrderKept`), and on top
of it each of the three parts, under its condition (`SnapshotsKept`, `ReplayKept`,
`DestructionKept`). For `DestructionKept`, a startup that reaches the sweep has recovered the Agent, so
that no seal is pending; what the sweep has left when it ends is sealed; and an
import under the handshake finds the candidate its request has read, since only the
Agent writes there and it is attested to be gone. TLC checks `RecoveryInv` on the
run `lifecycle`.

**The chain and the refinement.** A decision is against the View the one before it
left only if nothing in between moved HEAD for good. `ViewsFit` says where HEAD
stands in each state the one live transition (`OneLive`) can be in: at the end of
the chain, or, once WORKSPACE_APPLIED has moved it, one View ahead of its base.
`DecidingFits` says that a handler about to decide still has a transition to
decide on, across a failed swap, a repair or a restart, and `AdmittingFits` that
nothing is live while a run is admitted. Each event keeps the chain if it finds
what these say (`OpenChains`, `ConsumingChains`, `DispositionedChains`, ...), and
each step finds it. Once the log cannot be folded no more steps are taken
(`CorruptStays`).

The refinement needs what a commit installs and when the rest of the world may
move: `PromiseFits`. The crossing transition installs one generation above HEAD
what was sealed (`CrossingFits`); there is one intent at a time, and none that
moves the workspace while a transition is past its admission (`Apart`), nor a
crossing on an archived Agent; a rollback has no sealed copy, so no promotion is
one (`DiskPromise`); and the operation that moves directories back is about the
transition on the crossing (`QueuePromise`). `Happens` reduces every step to the one event it appends, `Going`
to where the queue goes, so that the invariant and the simulation are proved per
event: an acknowledgement is `Commit`, a disposition `Reject`, a regeneration
`Configure`, an archival `Retire`, and every other event leaves `AcknowledgedHead`
and the decisions alone (`HappeningSimulates`). TLC checked `HistoryFits` and
`PromiseFits` first, on instances with and without rollbacks, with kills, I/O
errors, a drift and a repair.

### The Broker

`BrokerProofs` proves, for every set of runs and any
number of kills and lost answers, from `BrokerAssumption` (the absent run is not
a run, the bound is a number):

| Theorem | Says |
|---|---|
| `BrokerTypeCorrect` | `Spec => []TypeOK` |
| `TombstonesStay` | `Spec => LedgerAdvances` |
| `BrokerInvariance` | `Spec => []Inductive`, which is `TypeOK /\ BrokerInv /\ RecordInv` |
| `TeardownsHold` | `Spec => []TeardownHolds` |
| `RecordsAreTrue` | `Spec => []RecordsHold`: what the Worker destroys artifacts on was attested and is true |
| `VerifierAlone` | `Spec => []Exclusive`: no Agent container beside a verifier |

**Why an invariant.** A teardown looks at in-memory records and at the engine
once, and its word is kept for ever. It stays true because nothing that was seen
to be gone can be launched again, and that rests on what the gate runner has
asked for so far: `Unlaunched` (nothing exists before it was asked for),
`RecordsFollow` (a record is written by the end of the handler), `AgentFirst`
(once a verifier was asked for, the Agent is gone and stays so), `VerifierAnswered`
and `CloserFits` (what a teardown in progress was asked after and has found),
`ReplyFits` (an answer is that of the call which the phase is about).

What a reconciliation found absent can be launched again, by a handler its caller
has given up. `RecordsHold` says which runs are safe from that, and `RecordInv`
why: as long as the container is not confirmed absent, `ReconcilerFits` has no
handler of the run still before the creation of a container, and
`ReconciliationFits` keeps that until the attestation is used. The other half,
that whatever was recorded was attested, is `LiveFits` for an answer on its way
and `AnswerFits` for one the gate has (`RecordFits` when it was recorded).

**The argument.** `BrokerInv` speaks of one run at a time. Most steps leave what
it says of a run alone or only remove a container (the `Quiet` lemmas); each of
the others has a lemma for the run it is about and leaves the others quiet.

### The product

`ProductProofs`, for every set of runs and rollbacks, any number of lost answers,
deaths of the API, fired time limits and user requests, from `ProductAssumption`
(null is not a transition, rollbacks are transitions, the bounds are numbers) and
`ViewAssumption` (null is not a View):

| Theorem | Says |
|---|---|
| `InductiveAlways` | `Spec => []Inductive` |
| `ProductSound` | `Spec => []ProductInv`: no claim is false, the database is never ahead |
| `OutcomesNeverRevoked` | `Spec => OutcomesStay` |
| `StartupAgrees` | `Spec => Reconciled` |

**Why an invariant.** A claim is written on what an execution was told some steps
before, so that each program counter needs what has been learnt by then
(`GateFits`), and it stays true only if no request still under way can undo it.
That is the point of `Doomed`: a run shown as cancelled is aborted, or open and
cancelled at the Worker with no request left that could close it otherwise
(`LateHarmless`), or the Worker has never heard of it and will not (`Unknown`).
`StopFits` says that a stop is only told once its run is doomed. `NeverAhead`
needs every View on its way to the database to be behind HEAD (`ViewsFit`), the
one `updateAgent` computes itself included; that one also needs each
configuration, written or under way, to be one that was asked for
(`ConfigurationsAsked`). `Reconciled` rests on `StartupFits`: by the time the
projection is applied, no request is left over from before and every active row's
run is decided.

**The argument** goes by the parts of `Inductive`, not by action: lemmas say what
the Worker's serving of a request does to a decision, to `Doomed` and to HEAD,
then each part is shown to survive every action. TLC checked `Inductive` on the
run `agent_service` first.

### The in-process gate

`GateSteps` and `GateProofs` prove, for every set of runs, rollbacks and contents,
both limits of the retention, and any number of kills, failed writes and foreign
writes:

| Theorem | Says |
|---|---|
| `Invariant` | `Spec => []GateIInv` |
| `Types` | `Spec => []TypeOK` |
| `StoresFit` | `Spec => []GateInv`: workspace, index, row and receipts agree whenever a run may be admitted, a published completion is an acknowledged one |
| `BaseKept` | `Spec => []BaseRecoverable`: until the row has the new head, the old bytes are there |
| `HeadKept` | `Spec => [](crashes = 0 => HeadRestorable)` |
| `NothingLost` | `RecoveryKeepsAll => (Spec => []Recoverable)` |
| `RecoveryDecides` | `Spec => []DecidesUnlessEdited`: a recovery is never left without an outcome |
| `Authorized` | `Spec => SwapAuthorized` |
| `KeepsContract` | `Spec => ImplementsContract` |

They assume `GateAssumption` (runs and rollbacks are disjoint, the initial and the
edited content are none of them, the bounds are numbers, retention keeps two
snapshots at least) and `NoneAssumption` (null is not a tree, a journal or a
receipt). `RecoveryKeepsAll` says that the limit a recovery prunes with is not
below the number of contents there can be. Without it the promise is not kept:
with `RetainedAtStartup = 2` TLC has a head without a snapshot after a kill (see
the observations).

**Why an invariant.** Six stores are written one after the other, without a log
that orders them, and a kill or a failed write may strike after each. What holds of
all of them together depends on how far the one open transition has come.

* `PcFits`, `StateFits`, `PermitFits`: whose operation it is, and what its journal and permit say at each step, in a request, in a catch clause and in a recovery.
* `OpenFits`: at most one transition is open; it belongs to the operation in progress or waits for the recovery, and then the row is locked or the API is not serving. All that is said of the trees and the row of an open transition rests on this.
* `VersionsFit`, `HeadFits`, `ShownFits`: the index has one version ahead of the acknowledged ones at most; the row shows its last or last but one, or a version that was taken back and that the recovery is about to withdraw from the row as well.
* `ReceiptsFit`, `PublishedFits`: which phase of a receipt goes with which state of a journal, and what may be published on it.
* `BackupFits`, `TreesFit`, `OpTrees`, `AnnouncedFits`, `RowFits`: a tree is in the workspace or in the backup of the open swap, and it is the base or the target of that swap (`Places`), but for somebody else's edits. This is why a recovery can always tell by the hashes which way to go.
* `SnapshotsFit`, `ResultFits`: what retention has to leave, and which contents a version may have.

**The argument** has two layers. `GateSteps` says what each of the steps does to
the operation, the journals and the row (`Moves`, `Becomes`, `JournalSet`,
`HeadStays`), and proves the parts about operation, journal, permit, index and
receipts. `GateProofs` adds what is shown, the trees, the configuration and the
snapshots, puts the parts together (`Invariant`), and reads the properties off. For
the contract it needs one more fact, `PermitsSpent`. The acknowledgement of a
journal is the contract's commit; a refusing receipt, a revoked permit or a journal
rolled back is its refusal. A version whose journal is still open is not yet
history (`Accepted`), so that appending it and taking it back are both stutters.
TLC checked each part of `GateIInv` first, on two operations with up to three kills,
failures and foreign writes.

### The relay

`ModelRelayProofs`, for every set of runs, requests and identities and any number
of deaths, for either gate, from `ModelRelayAssumption` (there are two gates, the
absent identity is not an identity, the bound is a number):

| Theorem | Says |
|---|---|
| `RelayCorrect` | `Spec => []RelayInv` |
| `RevocationIsFinal` | `Spec => RevokedStays` |
| `PassedRevoked` | `Spec => [](Gate = "container" => PassedIsRevoked)` |

**Why an invariant.** That a revoked bearer is refused would be obvious if the
registry remembered its revocations. It is in memory: a restart forgets them, and
pruning does too. `Dead` says what stands instead: the nonce is inactive, and
either it is refused (remembered or expired) or no activation is on its way
which could make it active. A restart loses the memory and the requests on their
way at once, which is why it keeps `Dead`; and the runner activates once, before
it revokes, so no later activation comes. `PassedRevoked` needs one thing more,
`Acknowledged`: a runner that counts its capability as revoked was told so by the
Relay.

### The evidence

`EvidenceProofs`, for every set of runs, bundles and artifacts, any number of
edits and deaths, from `EvidenceAssumption` (the pinned bundle is a bundle, the
verdict a function of bundle and artifact, and at most one foreign write):

| Theorem | Says |
|---|---|
| `ChainHolds` | `Spec => []EvidenceInv` |
| `PermitsRest` | `Spec => []PermitRests` |

**Why an invariant.** The Broker hashes before and after, the containers read in
between. What they have read is what both hashes say only because a write that
made them read something else is still there for the second hash (`Detectable`),
and that needs two things: nothing was spoilt before the one write (`Unspoilt`),
and no later seal changes a payload a run is bound to (`BoundIsClosed`), which
holds because a bundle is bound only after the chmod. With the signature on the
verdict of what was read (`AnswerIsVerdict`, `AttestedWasRead`) and the Worker's
own comparison with its pins, a permit rests on the pinned checks. The assumption
on foreign writes is necessary: two of them, away and back, refute it.

### The origin of Agents

`OriginProofs`, for every set of Agents and any number of deaths, failed steps,
calls given up and foreign writes:

| Theorem | Says |
|---|---|
| `OriginCorrect` | `Spec => []OriginInv` |
| `OriginOverwritesNothing` | `Spec => NothingOverwritten` |

**Why an invariant.** `OriginInv` is inductive as it is run. An intent is finished
by whoever comes next: the operation that wrote it, a later call, or the Worker
when it starts. What each may rely on is `StepFits`: an operation before its
intent finds none in the log, one that places has the bound tree staged and saw
a workspace with nothing in it. `LogBinds` is what they leave behind, and the
product's side is `ServedHasAuthority`: a row says "worker", and a call is
answered, only once there is a head, and a head stays. What is said of the
workspace holds while nobody else has written (`drifts = 0`); what is said of the
log and the snapshot holds always.

### Only model-checked

* Of the Worker: `WorkspaceIsHead` and `RecoveryDecides`. They are false of some instances (see above), so they hold under conditions an inductive proof would have to carry; and `SerialHistory`, the refinement, `DestroyedLeavesNothing` and `LogReplayable` beyond the conditions of their theorems.
* `IdentityUnanimous` of the relay.
* Of the in-process gate: `HeadRestorable` after a kill with a recovery that prunes (it is false then, see the observations).
* Everything of `tree_gate`. `TreeInv` compares verdicts that rest on sums over the files of a tree (`TotalSize`), whose properties for every tree need induction over data.
* `Concludes`, `LaunchedRunsClose`, the two `Quiesces`, `AdoptionCompletes`: liveness under fairness is out of the prover's reach.

## 5. Plan

Done: the log, the Worker, its invariants, eleven theorems and the refinement of
`StateAuthority` among them; the Broker, the gate
runner's calls, six theorems; the product over the Worker, four; the in-process
gate, nine, the refinement of `GateContract` among them; the trees of both gates;
the relay with three theorems, the evidence chain and the origin of Agents with
two each.

Left, in this order:

1. `WorkspaceIsHead` and `RecoveryDecides` of the Worker while one transition is open and nothing but kills goes wrong.
2. Of `tree_gate`, what does not depend on the sums: that trees stay well formed (`TypeOK`) and that what is installed is what was verified (`InstallsVerified`).
3. In `TransitionWorker`, a fault after the effect of an append (transition-log.ts:102: the event is in place and its chmod fails).
4. `TransitionWorker` under `AgentService` in one module, should a property come up that the common interface `StateAuthority` cannot tell.

## 6. Not modelled

* **Effect outbox, intent evidence** (`research/`): nothing in the product constructs them.
* **HTTP routing, web client, configuration, entry points**: they decide nothing of what is modelled. The order of reconciliation and listening in `index.ts` is `Serve` of `AgentOrigin`.
* **Signatures, canonical encoding, hash chains, request validation**: pure, and a digest is its content here. What they refuse changes no state.
* **Docker and the model provider**: external; modelled by what the code may see of them.
* **Power loss**: the code claims to survive a kill and a restart only.
* **Owners, devices, extended attributes, sparse files, scan timeouts; glob patterns of the policy file**: they only refuse, or only name more paths.
* **The host-process runner** of the development mode, **session homes, orphaned directories, receipt proofs, eviction of the oldest of 1,024 teardown records**: nothing modelled depends on them.
* **Fault injection, benchmark, evaluation scripts, deployment**: tests of the system and descriptions of its deployment.
