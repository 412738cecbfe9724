--------------------------- MODULE TreeProperties ---------------------------
(***************************************************************************)
(* What the gates promise about files, whoever writes to the trees in      *)
(* between.                                                                *)
(***************************************************************************)
EXTENDS TreeGate

\* Trees have parents, manifests nothing ignored.
IsTree(t) ==
    /\ DOMAIN t \subseteq Path /\ \A p \in DOMAIN t : t[p] \in Node
    /\ \A p \in DOMAIN t : Len(p) = 1 \/ NodeAt(t, Front(p)).kind = "dir"
IsManifest(t) == IsTree(t) /\ \A p \in DOMAIN t : Class(p) # "ignored" /\ t[p].kind \in {"file", "dir"}

TypeOK ==
    /\ gate \in Gates
    /\ \A t \in {ws, candidate, payload, staging, backup} : t = None \/ IsTree(t)
    /\ job.kind \in {"run", "rollback", "configuration", None}
    /\ job.struck \subseteq Windows
    /\ job.step \in Windows \cup {"idle", "agent", "scanned", "copied", "sealed", "checked", "authorized",
                                  "exchanged", "locked"}
    /\ \A m \in {live, job.base, job.diffBase, job.scan, job.final} \cup ToSet(versions) :
          m = None \/ IsManifest(m)
    /\ checks \in CheckLists \cup {None}
    /\ ToSet(versions) \subseteq DOMAIN snapshots
    /\ \A t \in Range(snapshots) : IsTree(t)

\* Two trees are the same to the gate: in what it is authoritative for.
Same(t, u, classes) == \A p \in Path : Class(p) \in classes => NodeAt(t, p) = NodeAt(u, p)

Struck(steps) == job.struck \cap steps # {}
Installs(kind) == job.kind = kind /\ backup = None /\ backup' # None
Records == Len(versions') > Len(versions)
Publishes == job.kind \in {"run", "rollback"} /\ job'.kind = None /\ live' # live

\* A promotion turns the very workspace it replaces into one that differs from
\* it by what the policy permits, path by path, and holds nothing but files and
\* directories the manifest lists (docs/ARCHITECTURE.md, promotion boundary;
\* validators.ts and inspectProposalDiff), whatever was written meanwhile - save
\* by somebody between the last comparison and the rename: then it turns the
\* base into it, and what he wrote is gone.
OnlyPermitted ==
    [][Installs("run") =>
        LET from == IF Struck({"compared"}) THEN job.base ELSE ws
            changed == {p \in Path : NodeAt(from, p) # NodeAt(ws', p) /\ Class(p) # "ignored"}
            files == {p \in changed : \E t \in {from, ws'} : NodeAt(t, p).kind = "file"}
        IN /\ Same(from, job.base, Authoritative)
           /\ \A p \in changed :
                 /\ \A r \in Managed \cup Protected : ~IsPrefix(r, p)
                 /\ SizeAt(ws', p) <= Limit["single"]
           /\ Cardinality(files) <= Limit["files"]
           /\ \A S \in SUBSET files :
                 TotalSize(from, S) + TotalSize(ws', files \ S) <= Limit["bytes"]
           /\ IsManifest(ws')]_vars

\* What is installed is what the policy was held against and the verifier saw,
\* and every check that was asked for passed (coordinator.ts).
PromotesVerified ==
    [][Installs("run") =>
        /\ Same(ws', job.scan, Authoritative)
        /\ \A c \in Required : \E i \in DOMAIN checks : checks[i].id = c
        /\ \A i \in DOMAIN checks : checks[i].status = "PASS" /\ checks[i].id \in Required]_vars

\* A rollback restores its version, modes included (version-store.ts, worker.ts
\* applyRollback).  The Worker brings the version's platform files back.  The
\* in-process gate leaves those of the base it compares with, unless somebody
\* wrote while it staged, and they are the configured ones unless somebody wrote
\* after they were rendered: then what he wrote is the base.
RestoresVersion ==
    [][Installs("rollback") =>
        /\ Same(ws', versions[job.target], IF Worker THEN Authoritative ELSE {"versioned"})
        /\ ~Worker =>
              /\ {"based", "staged"} \subseteq job.struck \/ Same(ws', job.base, {"managed"})
              /\ Struck({"rendered"}) \/ Same(job.base, rendered, {"managed"})]_vars

\* The version that is recorded and the View that is published are the installed
\* tree's.  In-process, where a rollback records and every operation publishes
\* what the workspace is after the swap, unless somebody has written by then.
RecordsInstalled ==
    [][LET after == ~Worker /\ Struck({"confirmed", "final", "recorded"}) IN
       /\ Records => Last(versions') = Kept(gate, job.scan) \/ (job.kind = "rollback" /\ after)
       /\ Publishes => live' = job.scan \/ after]_vars

\* What a gate installs and records, forward or back, is what it was asked to,
\* whoever writes to the trees it copies from (coordinator.ts, version-store.ts,
\* worker.ts).
InstallsVerified == PromotesVerified /\ RestoresVersion /\ RecordsInstalled

\* Why a run may be refused: somebody wrote where he should not, the Agent
\* wrote after its end, its proposal or a check does not pass - or, in-process,
\* its candidate cannot be removed.
Cause ==
    \/ drifts > 0 \/ job.late
    \/ At("agent") /\ (WorkerRefuses(candidate) \/ ManifestRefuses(candidate) \/ AuditRefuses(candidate))
    \/ At("copied") /\ ~Worker /\ ~Removable(candidate)
    \/ At("sealed") /\ ~(StaticPasses(live, job.scan) /\ WorkerStaticPasses(live, job.scan))
    \/ At("checked") /\ \E i \in 1..(Len(checks) + 1) :
          i \in DOMAIN checks => checks[i].status # "PASS" \/ \E j \in 1..(i - 1) : checks[j].id = checks[i].id

\* ... and without one it is not.
RefusedForCause == [][~Cause => ~Refusing]_vars

\* The Worker is the stricter gate: the proposals it takes are the ones the
\* in-process gate takes, canaries aside, with the same manifest, and their
\* verdicts on the checks agree.  A deployment can change its gate.
GatesAgree ==
    /\ At("agent") /\ ~WorkerRefuses(candidate) => ~ManifestRefuses(candidate) /\ ~AuditRefuses(candidate)
    /\ At("scanned") /\ WorkerStaticPasses(job.diffBase, job.scan) /\ Canaries = {} =>
          StaticPasses(job.diffBase, job.scan)
    /\ At("checked") => (WorkerContract(checks) <=> LocalVerdict(checks) = "PASS")

\* Trees and manifests are well formed, and the verdicts of the gates compare
\* (manifest.ts, worker-gate-policy.ts).
TreeInv == TypeOK /\ GatesAgree
=============================================================================
