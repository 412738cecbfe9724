--------------------------- MODULE ManifestPolicy ---------------------------
(***************************************************************************)
(* Directory trees, the manifests that stand for them and the policy they  *)
(* are judged by: commitgate/policy.ts, manifest.ts, validators.ts,        *)
(* resource-budget.ts and file-ops.ts for the in-process gate,             *)
(* transition-worker/filesystem.ts and inspectProposalDiff for the Worker. *)
(*                                                                         *)
(* A path is a sequence of names.  A tree is a function from the paths it  *)
(* has, parents included, to their nodes; its root is not in it.  A hash   *)
(* is the tree it is the hash of.  Owners, devices, extended attributes,   *)
(* sparse files and the time a scan takes are not modelled: each of them   *)
(* only rejects, like the kinds "hardlink" and "special" do.               *)
(***************************************************************************)
EXTENDS Integers, Sequences, FiniteSets, SequencesExt, TLC

CONSTANTS
    Path,           \* the paths of the instance
    Datum,          \* contents of files
    Size,           \* their sizes, and that of no content
    NoData,
    FoldName,       \* what a name is after NFC and lower case
    Ephemeral,      \* ignoredEphemeralNames
    Managed,        \* platformManagedPaths
    Protected,      \* protectedPaths, literal ones
    Canaries,       \* contents with a canary or a sensitive value
    PathOrder,      \* the paths as diffManifests sorts them
    Limit           \* the budgets, by name

Kinds == {"file", "dir", "symlink", "hardlink", "special"}
Budgets == {"files", "bytes", "single", "ignored", "ignoredBytes", "ignoredSingle", "scanned",
            "scannedBytes"}

ASSUME PolicyAssumption ==
    /\ Path \subseteq Seq(STRING) \ {<<>>}
    /\ Size \in [Datum \cup {NoData} -> Nat] /\ NoData \notin Datum /\ Size[NoData] = 0
    /\ Limit \in [Budgets -> Nat \ {0}]
    /\ ToSet(PathOrder) = Path /\ Len(PathOrder) = Cardinality(Path)

Node == [kind : Kinds, writable : BOOLEAN, data : Datum \cup {NoData}]
Directory == [kind |-> "dir", writable |-> TRUE, data |-> NoData]
Absent == [kind |-> "none", writable |-> FALSE, data |-> NoData]
EmptyTree == <<>>

NodeAt(t, p) == IF p \in DOMAIN t THEN t[p] ELSE Absent
SizeAt(t, p) == Size[NodeAt(t, p).data]
Below(p, roots) == \E r \in roots : IsPrefix(r, p)
Children(t, p) == {q \in DOMAIN t : IsStrictPrefix(p, q)}
TotalSize(t, paths) == MapThenSumSet(LAMBDA p : SizeAt(t, p), paths)

----------------------------------------------------------------------------
(* Classes of paths and the manifest. *)

\* classifyPath
Class(p) ==
    IF \E i \in DOMAIN p : p[i] \in Ephemeral THEN "ignored"
    ELSE IF Below(p, Managed) THEN "managed" ELSE "versioned"

Authoritative == {"versioned", "managed"}
Part(t, classes) == RestrictDomain(t, LAMBDA p : Class(p) \in classes)
Ignored(t) == DOMAIN Part(t, {"ignored"})

\* buildManifest: what it lists and hashes.  Ignored directories are not read.
Manifest(t) == Part(t, Authoritative)

Collides(paths) ==
    \E p, q \in paths : p # q /\ [i \in DOMAIN p |-> FoldName[p[i]]] = [i \in DOMAIN q |-> FoldName[q[i]]]

\* ... and what it refuses: links, and names one file system would not tell
\* apart, among what it lists; special files wherever it comes.
ManifestRefuses(t) ==
    \/ \E p \in DOMAIN Manifest(t) : t[p].kind \in {"symlink", "hardlink"}
    \/ \E p \in DOMAIN t : t[p].kind = "special" /\ (Len(p) = 1 \/ Class(Front(p)) # "ignored")
    \/ Collides(DOMAIN Manifest(t))

\* auditCandidateResourceUsage: what is ignored has budgets of its own.
AuditRefuses(t) ==
    \/ Cardinality(Ignored(t)) > Limit["ignored"]
    \/ TotalSize(t, Ignored(t)) > Limit["ignoredBytes"]
    \/ \E p \in Ignored(t) : SizeAt(t, p) > Limit["ignoredSingle"]
    \/ \E p \in DOMAIN t : t[p].kind = "special"

\* buildWorkerManifest walks the whole tree, lists what Manifest does, and
\* refuses more.
WorkerRefuses(t) ==
    \/ \E p \in DOMAIN t : t[p].kind \notin {"file", "dir"}
    \/ Collides(DOMAIN t)
    \/ Cardinality(DOMAIN t) > Limit["scanned"] \/ TotalSize(t, DOMAIN t) > Limit["scannedBytes"]
    \/ Cardinality(Ignored(t)) > Limit["ignored"]
    \/ TotalSize(t, Ignored(t)) > Limit["ignoredBytes"]
    \/ \E p \in Ignored(t) : SizeAt(t, p) > Limit["ignoredSingle"]

----------------------------------------------------------------------------
(* The difference of two manifests, and whether the policy permits it. *)

\* diffManifests
Changes(before, after) ==
    {p \in DOMAIN before \cup DOMAIN after : NodeAt(before, p) # NodeAt(after, p)}

\* changedByteCount: the larger of the two sizes, a deletion is not free.
ChangedBytes(before, after, changes) ==
    MapThenSumSet(LAMBDA p : Max({SizeAt(before, p), SizeAt(after, p)}), changes)

ChangedFiles(before, after, changes) ==
    {p \in changes : \E t \in {before, after} : NodeAt(t, p).kind \notin {"none", "dir"}}

\* readChangedFileBuffers of the first changes, directories included: the files
\* whose contents are looked into.
Inspected(after, changes) ==
    LET listed == SelectSeq(PathOrder, LAMBDA p : p \in changes)
    IN {p \in ToSet(SubSeq(listed, 1, Min({Len(listed), Limit["files"] + 1}))) :
           NodeAt(after, p).kind = "file" /\ SizeAt(after, p) <= Limit["single"]}

\* validateCandidate finds no failure.
StaticPasses(before, after) ==
    LET changes == Changes(before, after) IN
    /\ Cardinality(ChangedFiles(before, after, changes)) <= Limit["files"]
    /\ ChangedBytes(before, after, changes) <= Limit["bytes"]
    /\ \A p \in changes :
          /\ Class(p) # "managed" /\ ~Below(p, Protected)
          /\ "symlink" \notin {NodeAt(before, p).kind, NodeAt(after, p).kind}
          /\ NodeAt(after, p).kind = "file" => SizeAt(after, p) <= Limit["single"]
    /\ \A p \in Inspected(after, changes) : after[p].data \notin Canaries

\* Mutant: shrinking and deleting a file costs nothing.
WorkerStaticPasses_Mutant(before, after) ==
    LET changes == Changes(before, after) IN
    /\ Cardinality(ChangedFiles(before, after, changes)) <= Limit["files"]
    /\ TotalSize(after, changes) <= Limit["bytes"]
    /\ \A p \in changes :
          /\ ~Below(p, Managed) /\ ~Below(p, Protected)
          /\ SizeAt(after, p) <= Limit["single"]

\* inspectProposalDiff: no content is looked into, a deleted file counts as a
\* single one too.
WorkerStaticPasses(before, after) ==
    LET changes == Changes(before, after) IN
    /\ Cardinality(ChangedFiles(before, after, changes)) <= Limit["files"]
    /\ ChangedBytes(before, after, changes) <= Limit["bytes"]
    /\ \A p \in changes :
          /\ ~Below(p, Managed) /\ ~Below(p, Protected)
          /\ Max({SizeAt(before, p), SizeAt(after, p)}) <= Limit["single"]

----------------------------------------------------------------------------
(* Copies. *)

\* copyWorkspace: what the classes name, and missing parents.
CopyInto(target, source, classes) ==
    LET copied == Part(source, classes)
        parents == {q \in Path : \E p \in DOMAIN copied : IsStrictPrefix(q, p)}
        missing == parents \ (DOMAIN copied \cup DOMAIN target)
    IN [p \in DOMAIN target \cup DOMAIN copied \cup missing |->
           IF p \in DOMAIN copied THEN copied[p]
           ELSE IF p \in DOMAIN target THEN target[p] ELSE Directory]

\* makeReadonly, and applyManifestModes over what it left.
Readonly(t) == [p \in DOMAIN t |-> [t[p] EXCEPT !.writable = FALSE]]
ApplyModes(t, manifest) ==
    [p \in DOMAIN t |-> IF p \in DOMAIN manifest THEN [t[p] EXCEPT !.writable = manifest[p].writable]
                        ELSE t[p]]

\* assertReadonlySealedPayload
SealIntact(payload, manifest) ==
    ~ManifestRefuses(payload) /\ Manifest(payload) = Readonly(manifest)

\* rm does not empty a directory it may not write to.
Removable(t) == \A p \in DOMAIN t : t[p].kind = "dir" /\ Children(t, p) # {} => t[p].writable

\* copyClosedTree, and prepareRuntimeIgnoredMountpoints over its copy.
ClosedCopy(t) == Manifest(t)
WithMountpoints(t) == [p \in {<<n>> : n \in Ephemeral} |-> Directory] @@ t
=============================================================================
