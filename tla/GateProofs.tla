----------------------------- MODULE GateProofs -----------------------------
(***************************************************************************)
(* The in-process CommitGate keeps its invariant: where the trees are, what *)
(* is shown of them, what can be restored; and what follows from it.  Each *)
(* run and rollback is decided once, as GateContract says.                 *)
(***************************************************************************)
EXTENDS GateSteps

----------------------------------------------------------------------------
(* The accepted head. *)

LEMMA FrontOf ==
    ASSUME NEW S, NEW s \in Seq(S), NEW n \in Nat, n = Len(s), n > 1
    PROVE  SubSeq(s, 1, n - 1)[Len(SubSeq(s, 1, n - 1))] = s[n - 1]
OBVIOUS

\* The head of the accepted history is the last version or the one before it.
LEMMA AcceptedHeadIs ==
    ASSUME TypeOK, VersionsFit
    PROVE  /\ Latest.id = Initial \/ State(Latest.id) = "ACKNOWLEDGED" => AcceptedHead = Latest
           /\ Latest.id # Initial => Len(versions) > 1
           /\ Latest.id # Initial /\ State(Latest.id) # "ACKNOWLEDGED" =>
                 AcceptedHead = versions[Len(versions) - 1]
<1>1. versions[1].id = Initial
  BY DEF VersionsFit
<1>2. Len(versions) \in Nat /\ Len(versions) >= 1 /\ versions \in Seq(Versions)
  BY IndexTyped DEF TypeOK
<1>3. Latest.id # Initial => Len(versions) > 1
  BY <1>1, <1>2 DEF Latest
<1>4. Settled(Latest.id) <=> State(Latest.id) = "ACKNOWLEDGED"
  BY SwapState
<1>5. CASE Latest.id = Initial \/ State(Latest.id) = "ACKNOWLEDGED"
  <2>1. Accepted = versions
    BY <1>4, <1>5 DEF Accepted
  <2> QED
    BY <1>3, <1>5, <2>1 DEF AcceptedHead, Latest
<1>6. CASE Latest.id # Initial /\ State(Latest.id) # "ACKNOWLEDGED"
  <2>1. Accepted = SubSeq(versions, 1, Len(versions) - 1)
    BY <1>4, <1>6 DEF Accepted
  <2>2. AcceptedHead = versions[Len(versions) - 1]
    BY <1>2, <1>3, <1>6, <2>1, FrontOf DEF AcceptedHead
  <2> QED
    BY <1>3, <1>6, <2>2
<1> QED
  BY <1>5, <1>6

LEMMA AcceptedHeadIsNext ==
    ASSUME TypeOK', VersionsFit'
    PROVE  /\ Latest'.id = Initial \/ StateAfter(Latest'.id) = "ACKNOWLEDGED" => AcceptedHead' = Latest'
           /\ Latest'.id # Initial /\ StateAfter(Latest'.id) # "ACKNOWLEDGED" =>
                 AcceptedHead' = versions'[Len(versions') - 1] /\ Len(versions') > 1
<1>1. versions'[1].id = Initial
  BY DEF VersionsFit
<1>2. Len(versions') \in Nat /\ Len(versions') >= 1 /\ versions' \in Seq(Versions)
  BY DEF TypeOK
<1>3. Latest'.id # Initial => Len(versions') > 1
  BY <1>1, <1>2 DEF Latest
<1>4. Settled(Latest.id)' <=> StateAfter(Latest'.id) = "ACKNOWLEDGED"
  BY DEF Settled, StateAfter
<1>5. CASE Latest'.id = Initial \/ StateAfter(Latest'.id) = "ACKNOWLEDGED"
  <2>1. Accepted' = versions'
    BY <1>4, <1>5 DEF Accepted
  <2> QED
    BY <1>3, <1>5, <2>1 DEF AcceptedHead, Latest
<1>6. CASE Latest'.id # Initial /\ StateAfter(Latest'.id) # "ACKNOWLEDGED"
  <2>1. Accepted' = SubSeq(versions', 1, Len(versions') - 1)
    BY <1>4, <1>6 DEF Accepted
  <2>2. AcceptedHead' = versions'[Len(versions') - 1]
    BY <1>2, <1>3, <1>6, <2>1, FrontOf DEF AcceptedHead
  <2> QED
    BY <1>3, <1>6, <2>2
<1> QED
  BY <1>5, <1>6

\* In the process that serves, nothing is open but the operation's own transition.
LEMMA OnlyOneOpen ==
    ASSUME TypeOK, PcFits, OpenFits, up = "up", op.id # None, NEW i \in Id, Open(i)
    PROVE  i = op.id
<1>1. op # Idle
  BY DEF Idle
<1> QED
  BY <1>1 DEF OpenFits, AwaitsRecovery

\* A version that is not acknowledged is open.
LEMMA PendingIsOpen ==
    ASSUME TypeOK, VersionsFit, NEW i \in Id, Committed(i), State(i) # "ACKNOWLEDGED"
    PROVE  Open(i)
<1>1. State(i) \in {"PROMOTED_PENDING_DB", "ROLLED_BACK"}
  BY DEF VersionsFit
<1> QED
  BY <1>1, SwapState DEF Open, Undecided

LEMMA LatestCommitted ==
    ASSUME TypeOK
    PROVE  Latest.id \in Id \cup {Initial} /\ Committed(Latest.id)
<1>1. Len(versions) \in 1..Len(versions) /\ Latest = versions[Len(versions)]
  BY IndexTyped DEF Latest
<1> QED
  BY <1>1, IndexTyped, CommittedMeans

LEMMA HeadTurns ==
    ASSUME TypeOK, OpTypes, Knows, PcFits, StateFits, PermitFits, ReceiptsFit, PublishedFits,
           VersionsFit, OpenFits, TypeOK', VersionsFit', Next
    PROVE  /\ \/ AcceptedHead' = AcceptedHead
              \/ /\ op.pc = "acknowledge" /\ op'.pc = "retention" /\ op'.id = op.id
                 /\ versions' = versions /\ Latest.id = op.id
                 /\ Latest' = Latest /\ AcceptedHead' = Latest /\ State(op.id) = "PROMOTED_PENDING_DB"
           /\ Appended => AcceptedHead = Latest
           /\ Reverted => AcceptedHead = Latest'
<1>0. /\ Len(versions) \in Nat /\ Len(versions) >= 1
      /\ Latest.id \in Id \cup {Initial} /\ Committed(Latest.id) /\ Initial \notin Id /\ None \notin Id
  BY IndexTyped, LatestCommitted, Someone
<1>1. CASE versions' = versions /\ Latest' = Latest /\ (\A i : Committed(i)' <=> Committed(i))
  <2>1. CASE Latest.id = Initial
    <3>1. Latest'.id = Initial
      BY <1>1, <2>1
    <3>2. AcceptedHead = Latest /\ AcceptedHead' = Latest'
      BY <2>1, <3>1, AcceptedHeadIs, AcceptedHeadIsNext
    <3> QED
      BY <1>0, <1>1, <3>2 DEF Appended, Reverted
  <2>2. CASE Latest.id # Initial
    <3> DEFINE i == Latest.id
    <3>0. i \in Id /\ Latest'.id = i
      BY <1>0, <1>1, <2>2
    <3>1. State(i)' = StateAfter(Latest'.id)
      BY <1>1 DEF State, StateAfter
    <3>2. \/ State(i)' = State(i)
          \/ op.pc = "acknowledge" /\ op.id = i /\ op'.pc = "retention" /\ op'.id = i
             /\ State(i) = "PROMOTED_PENDING_DB" /\ State(i)' = "ACKNOWLEDGED"
          \/ State(i) # "ACKNOWLEDGED" /\ State(i)' # "ACKNOWLEDGED"
      BY <3>0, StatesTurn, SwapState DEF StateTurns
    <3> HIDE DEF i
    <3>3. ~Appended /\ ~Reverted
      BY <1>0, <1>1 DEF Appended, Reverted
    <3>4. CASE State(i)' = "ACKNOWLEDGED"
      <4>1. AcceptedHead' = Latest
        BY <1>1, <3>1, <3>4, AcceptedHeadIsNext
      <4>2. State(i) = "ACKNOWLEDGED" => AcceptedHead = Latest
        BY AcceptedHeadIs DEF i
      <4> QED
        BY <1>1, <3>2, <3>3, <3>4, <4>1, <4>2 DEF i
    <3>5. CASE State(i)' # "ACKNOWLEDGED"
      <4>1. AcceptedHead' = versions[Len(versions) - 1]
        BY <1>1, <2>2, <3>1, <3>5, AcceptedHeadIsNext
      <4>2. State(i) # "ACKNOWLEDGED"
        BY <3>2, <3>5
      <4>3. AcceptedHead = versions[Len(versions) - 1]
        BY <2>2, <4>2, AcceptedHeadIs DEF i
      <4> QED
        BY <3>3, <4>1, <4>3
    <3> QED
      BY <3>4, <3>5
  <2> QED
    BY <2>1, <2>2
<1>2. CASE Appended
  <2>1. op.pc = "append" /\ op.id \in Id /\ op.id # None
    BY <1>0, <1>2 DEF Appended
  <2>2. up = "up" /\ ~Committed(op.id)
    BY <2>1, InRun DEF InRecovery, VersionsFit
  <2>3. Latest.id = Initial \/ State(Latest.id) = "ACKNOWLEDGED"
    <3>1. SUFFICES ASSUME Latest.id # Initial, State(Latest.id) # "ACKNOWLEDGED" PROVE FALSE
      OBVIOUS
    <3>2. Open(Latest.id)
      BY <1>0, <3>1, PendingIsOpen
    <3>3. Latest.id = op.id
      BY <1>0, <2>1, <2>2, <3>1, <3>2, OnlyOneOpen
    <3> QED
      BY <1>0, <2>2, <3>3
  <2>4. AcceptedHead = Latest
    BY <2>3, AcceptedHeadIs
  <2>5. State(op.id) = "PROMOTED_PENDING_DB" /\ journal' = journal
    BY <2>1, Quiet DEF StateFits, Projection
  <2>6. Latest'.id = op.id /\ Len(versions') = Len(versions) + 1 /\ versions'[Len(versions)] = Latest
        /\ Len(versions') - 1 = Len(versions)
    BY <1>0, <1>2 DEF Appended, Latest
  <2>7. StateAfter(Latest'.id) # "ACKNOWLEDGED"
    BY <2>5, <2>6 DEF State, StateAfter
  <2>8. AcceptedHead' = Latest
    BY <1>0, <2>1, <2>6, <2>7, AcceptedHeadIsNext
  <2>9. ~Reverted
    BY <2>1 DEF Reverted
  <2> QED
    BY <2>4, <2>8, <2>9
<1>3. CASE Reverted
  <2>1. op.pc = "revert" /\ op.id \in Id /\ Latest.id = op.id /\ op.id # None
    BY <1>0, <1>3 DEF Reverted
  <2>2. State(op.id) = "ROLLED_BACK"
    BY <2>1 DEF StateFits
  <2>3. AcceptedHead = versions[Len(versions) - 1]
    BY <1>0, <2>1, <2>2, AcceptedHeadIs
  <2>4. Len(versions') = Len(versions) - 1 /\ Len(versions) > 1
        /\ Latest' = versions[Len(versions) - 1]
    BY <1>0, <1>3 DEF Reverted, Latest
  <2> DEFINE k == Len(versions) - 1
  <2>5. k \in 1..Len(versions) /\ k \in DOMAIN versions /\ (k = 1 \/ k \in 2..(Len(versions) - 1))
    BY <1>0, <2>4, IndexTyped
  <2>6. Latest' = versions[k] /\ AcceptedHead = versions[k]
    BY <2>3, <2>4
  <2> HIDE DEF k
  <2>7. versions[k].id = Initial \/ (State(versions[k].id) = "ACKNOWLEDGED" /\ versions[k].id # Initial)
    BY <2>5, IndexTyped DEF VersionsFit
  <2>8. Latest'.id = Initial \/ StateAfter(Latest'.id) = "ACKNOWLEDGED"
    <3>1. CASE versions[k].id = Initial
      BY <2>6, <3>1
    <3>2. CASE State(versions[k].id) = "ACKNOWLEDGED" /\ versions[k].id # Initial
      <4>1. versions[k].id \in Id
        BY <2>5, <3>2, IndexTyped
      <4>2. journal' = journal
        BY <2>1, Quiet
      <4> QED
        BY <2>6, <3>2, <4>2 DEF State, StateAfter
    <3> QED
      BY <2>7, <3>1, <3>2
  <2>9. AcceptedHead' = Latest' /\ ~Appended
    BY <2>1, <2>8, AcceptedHeadIsNext DEF Appended
  <2> QED
    BY <2>6, <2>9
<1> QED
  BY <1>1, <1>2, <1>3, IndexTurns

----------------------------------------------------------------------------
(* Snapshots of the head. *)

\* The content that is in an index of snapshots.
Kept(index) == {index[k].v : k \in Available(index)}

\* Retention keeps the head's content, and at startup everything.
LEMMA RetentionKeeps ==
    ASSUME TypeOK, SnapshotsFit, NEW head
    PROVE  LET index == Retention(snapshots, head) IN
           /\ \A j, k \in DOMAIN index : index[j].v = index[k].v => j = k
           /\ head.v \in Restorable => head.v \in Kept(index)
           /\ Recovering /\ IsFiniteSet(Content) /\ Cardinality(Content) <= RetainedAtStartup =>
                 Restorable \subseteq Kept(index)
<1> DEFINE index == Retention(snapshots, head)
<1>0. snapshots \in Seq(Snapshots) /\ DOMAIN snapshots = 1..Len(snapshots)
      /\ \A j, k \in 1..Len(snapshots) : snapshots[j].v = snapshots[k].v => j = k
  BY DEF TypeOK, SnapshotsFit
<1>1. /\ index \in Seq(Snapshots) /\ Len(index) = Len(snapshots)
      /\ \A k \in 1..Len(snapshots) :
            /\ index[k].v = snapshots[k].v
            /\ snapshots[k].v = head.v => (index[k].pruned <=> snapshots[k].pruned)
  <2>1. \A k : snapshots[k].v = head.v => snapshots[k].v \in {Initial, head.v}
    OBVIOUS
  <2>2. /\ Retention(snapshots, head) \in Seq(Snapshots) /\ Len(Retention(snapshots, head)) = Len(snapshots)
        /\ \A k \in 1..Len(snapshots) :
            /\ Retention(snapshots, head)[k].v = snapshots[k].v
            /\ snapshots[k].v \in {Initial, head.v} =>
                  (Retention(snapshots, head)[k].pruned <=> snapshots[k].pruned)
    <3>1. snapshots \in Seq(Snapshots)
      BY <1>0
    <3> HIDE <1>0
    <3> HIDE DEF index
    <3> QED
      BY <3>1, RetentionIs
  <2> QED
    BY <2>1, <2>2
<1>2. Recovering /\ IsFiniteSet(Content) /\ Cardinality(Content) <= RetainedAtStartup =>
         \A k \in 1..Len(snapshots) : index[k].pruned <=> snapshots[k].pruned
  <2>1. RetainedAtStartup \in Nat
    BY GateAssumption
  <2> QED
    BY <1>0, <2>1, NothingPruned
<1> HIDE DEF index
<1>3. DOMAIN index = 1..Len(snapshots)
  BY <1>1
<1>4. \A v : v \in Restorable <=> \E k \in 1..Len(snapshots) : ~snapshots[k].pruned /\ snapshots[k].v = v
  BY <1>0 DEF Restorable, Available
<1>5. \A v : v \in Kept(index) <=> \E k \in 1..Len(snapshots) : ~index[k].pruned /\ index[k].v = v
  BY <1>3 DEF Kept, Available
<1>6. \A j, k \in DOMAIN index : index[j].v = index[k].v => j = k
  BY <1>0, <1>1, <1>3
<1>7. head.v \in Restorable => head.v \in Kept(index)
  BY <1>1, <1>4, <1>5
<1>8. Recovering /\ IsFiniteSet(Content) /\ Cardinality(Content) <= RetainedAtStartup =>
         Restorable \subseteq Kept(index)
  BY <1>1, <1>2, <1>4, <1>5
<1> QED
  BY <1>6, <1>7, <1>8 DEF index

LEMMA SnapshotsFitKept ==
    ASSUME TypeOK, OpTypes, Knows, PcFits, StateFits, PermitFits, ReceiptsFit, PublishedFits,
           VersionsFit, OpenFits, BackupFits, RowFits, SnapshotsFit, TypeOK', VersionsFit', Next
    PROVE  SnapshotsFit'
<1> DEFINE Enough == crashes = 0 \/ RecoveryKeepsAll
<1>0. /\ snapshots \in Seq(Snapshots) /\ DOMAIN snapshots = 1..Len(snapshots)
      /\ \A j, k \in DOMAIN snapshots : snapshots[j].v = snapshots[k].v => j = k
      /\ Enough => Latest.v \in Restorable /\ AcceptedHead.v \in Restorable
      /\ Restorable' = Kept(snapshots') /\ Restorable = Kept(snapshots)
  BY DEF TypeOK, SnapshotsFit, Restorable, Kept
<1>6. Enough' => Enough
  <2>1. crashes \in Nat /\ (crashes' = crashes \/ crashes' = crashes + 1)
    BY BoundsTurn DEF TypeOK
  <2> QED
    BY <2>1 DEF RecoveryKeepsAll
<1>7. up = "starting" /\ Enough => RecoveryKeepsAll
  BY DEF RowFits
<1> HIDE DEF Enough
<1> SUFFICES /\ \A j, k \in DOMAIN snapshots' : snapshots'[j].v = snapshots'[k].v => j = k
             /\ Enough => Latest'.v \in Restorable' /\ AcceptedHead'.v \in Restorable'
  BY <1>6 DEF SnapshotsFit, Enough, RecoveryKeepsAll
<1>1. CASE AppendVersion
  <2>1. op.pc = "append" /\ op.id \in Id
    BY <1>1, AppendVersionDoes, Owner
  <2>2. op.tree \in Tree /\ ws \in Tree
    BY <2>1, WorkspaceThere DEF Knows, OpTypes, Projection
  <2> DEFINE v == IF op.id \in Run THEN op.tree.v ELSE ws.v
  <2>3. v \in Content
    BY <2>2 DEF Tree
  <2>4. snapshots' = Import(v)
    BY <1>1, AppendVersionDoes
  <2>5. Appended
    BY <1>1, Appends
  <2>6. Latest'.v = v
    BY <2>5 DEF Appended
  <2> HIDE DEF v
  <2>7. AcceptedHead' = AcceptedHead
    BY <2>1, HeadTurns
  <2>8. /\ Import(v) \in Seq(Snapshots)
        /\ \A j, k \in 1..Len(Import(v)) : Import(v)[j].v = Import(v)[k].v => j = k
        /\ Kept(Import(v)) = Restorable \cup {v}
    BY <1>0, <2>3, ImportIs DEF Kept
  <2>9. DOMAIN Import(v) = 1..Len(Import(v))
    BY <2>8
  <2> QED
    BY <1>0, <2>4, <2>6, <2>7, <2>8, <2>9
<1>2. CASE RevertVersion /\ Reverted
  <2>1. op.pc = "revert" /\ Latest.id = op.id
    BY <1>2 DEF Reverted
  <2>2. snapshots' = Retention(snapshots, versions[Len(versions) - 1])
    BY <1>2, <2>1, RevertVersionDoes
  <2>3. AcceptedHead = Latest' /\ AcceptedHead' = AcceptedHead
    BY <1>2, <2>1, HeadTurns
  <2>4. Latest' = versions[Len(versions) - 1]
    BY <1>2, IndexTyped DEF Reverted, Latest
  <2>5. snapshots' = Retention(snapshots, Latest')
    BY <2>2, <2>4
  <2> DEFINE head == Latest'
  <2>6. /\ head.v \in Restorable => head.v \in Kept(snapshots')
        /\ \A j, k \in DOMAIN snapshots' : snapshots'[j].v = snapshots'[k].v => j = k
    <3> HIDE DEF head
    <3>1. snapshots' = Retention(snapshots, head)
      BY <2>5 DEF head
    <3> QED
      BY <3>1, RetentionKeeps
  <2> QED
    BY <1>0, <2>3, <2>6
<1>3. CASE versions' = versions /\ Latest' = Latest
  <2>1. AcceptedHead' = AcceptedHead \/ AcceptedHead' = Latest
    BY HeadTurns
  <2>2. CASE snapshots' = snapshots
    BY <1>0, <1>3, <2>1, <2>2
  <2>3. CASE ReleaseRetention /\ up = "up"
    <3>1. op.pc = "retention" /\ op.id \in Id /\ op.id # None /\ snapshots' = Retention(snapshots, Latest)
      BY <2>3, ReleaseRetentionDoes, Owner
    <3>2. State(op.id) = "ACKNOWLEDGED"
      BY <3>1 DEF StateFits, Cleanup
    <3>3. Latest.id = Initial \/ State(Latest.id) = "ACKNOWLEDGED"
      <4>1. SUFFICES ASSUME Latest.id # Initial, State(Latest.id) # "ACKNOWLEDGED" PROVE FALSE
        OBVIOUS
      <4>2. Latest.id \in Id /\ Open(Latest.id)
        BY <4>1, LatestCommitted, PendingIsOpen
      <4>3. Latest.id = op.id
        BY <2>3, <3>1, <4>2, OnlyOneOpen
      <4> QED
        BY <3>2, <4>1, <4>3
    <3>4. AcceptedHead = Latest
      BY <3>3, AcceptedHeadIs
    <3>5. /\ Latest.v \in Restorable => Latest.v \in Kept(snapshots')
          /\ \A j, k \in DOMAIN snapshots' : snapshots'[j].v = snapshots'[k].v => j = k
      BY <3>1, RetentionKeeps
    <3> QED
      BY <1>0, <1>3, <2>1, <3>4, <3>5
  <2>4. CASE snapshots' = Retention(snapshots, Latest) /\ up = "starting"
    <3>1. /\ Enough => Restorable \subseteq Kept(snapshots')
          /\ \A j, k \in DOMAIN snapshots' : snapshots'[j].v = snapshots'[k].v => j = k
      BY <1>7, <2>4, RetentionKeeps DEF Recovering, RecoveryKeepsAll
    <3> QED
      BY <1>0, <1>3, <2>1, <3>1
  <2>5. ReleaseRetention => snapshots' = Retention(snapshots, Latest) /\ up \in {"up", "starting"}
    BY ReleaseRetentionDoes, Alive DEF TypeOK
  <2>6. Acknowledged \/ RolledBack => snapshots' = snapshots \/ (snapshots' = Retention(snapshots, Latest) /\ up = "starting")
    BY AcknowledgedDoes, RolledBackDoes
  <2>7. AppendVersion => FALSE
    BY <1>3, IndexTyped, Appends DEF Appended
  <2>8. RevertVersion => snapshots' = snapshots
    <3>1. RevertVersion => Latest.id # op.id \/ Reverted
      BY Reverts
    <3>2. ~Reverted
      <4>1. Len(versions)' = Len(versions) /\ Len(versions) \in Nat
        BY <1>3, IndexTyped
      <4>2. Len(versions)' # Len(versions) - 1
        BY <4>1
      <4> QED
        BY <4>2 DEF Reverted
    <3> QED
      BY <3>1, <3>2, RevertVersionDoes
  <2> QED
    BY <2>2, <2>3, <2>4, <2>5, <2>6, <2>7, <2>8, Writers
<1>4. Appended => AppendVersion
  <2>1. Appended => versions' # versions /\ op.pc = "append"
    BY IndexTyped DEF Appended
  <2> QED
    BY <2>1, Writers, RevertVersionDoes
<1>5. Reverted => RevertVersion
  <2>1. Reverted => versions' # versions /\ op.pc = "revert"
    BY IndexTyped DEF Reverted
  <2> QED
    BY <2>1, Writers, AppendVersionDoes
<1> QED
  BY <1>1, <1>2, <1>3, <1>4, <1>5, IndexTurns

----------------------------------------------------------------------------
(* How what the database shows turns. *)

\* What the database shows of the history changes in three places: ...
Projects ==
    /\ op.pc = "project" /\ op'.pc = "dropBackup" /\ op'.id = op.id /\ op.id \in Id
    /\ spoken' = (IF op.id \in Run THEN spoken \cup {op.id} ELSE spoken) /\ db'.head = op.id
    /\ db'.thread = IF op.id \in Run THEN op.id ELSE None
    /\ db'.live = IF op.id \in Run THEN receipt[op.id].final ELSE ws
    /\ db'.headLive = db'.live

\* ... a version is projected, startup recovery projects the head again, ...
Reprojects ==
    /\ op.pc = "journals" /\ op'.pc = "settle" /\ op'.id = op.id
    /\ startup.manual = "no" /\ startup.todo = {} /\ Unaccounted = {} /\ startup'.manual = "no"
    /\ startup'.rolled = startup.rolled /\ ws # None
    /\ spoken' = spoken /\ db'.head = Latest.id /\ db'.thread = db.thread
    /\ db'.live = ws /\ db'.headLive = ws /\ db'.cfg = db.cfg

\* ... and it settles what was shown of runs that were taken back.
Settles ==
    /\ op.pc = "settle" /\ op'.pc = "dispositions" /\ op'.id = op.id
    /\ startup'.manual = startup.manual
    /\ spoken' = spoken \ startup.rolled /\ db'.head = db.head /\ db'.thread \in {db.thread, None}
    /\ startup.manual # "no" \/ AbortedAfterAll # {} => db'.thread = None
    /\ db'.live = db.live /\ db'.headLive = db.headLive /\ db'.cfg = db.cfg
    /\ db'.locked = (startup.manual # "no")

\* A change of the configuration is the only other one of the row's bytes.
Configures ==
    /\ op.pc = "configure" /\ op' = Idle /\ db'.cfg = db.cfg + 1 /\ db'.live = ws
    /\ db'.head = db.head /\ db'.headLive = db.headLive /\ db'.thread = None /\ spoken' = spoken

LEMMA ShowTurns ==
    ASSUME TypeOK, OpTypes, Knows, PcFits, StateFits, PermitFits, ReceiptsFit, PublishedFits, Next
    PROVE  \/ /\ spoken' = spoken /\ db'.head = db.head /\ db'.thread \in {db.thread, None}
              /\ db'.live = db.live /\ db'.headLive = db.headLive /\ db'.cfg = db.cfg
              /\ op'.pc = "settle" => (op.pc = "settle" /\ startup' = startup) \/ startup'.manual # "no"
              /\ op'.pc # "dropBackup" \/ op.pc # "project"
              /\ op'.pc # "dispositions" \/ op.pc = "dispositions"
           \/ Projects \/ Reprojects \/ Settles \/ Configures
<1>1. CASE Project
  BY <1>1, ProjectDoes, Owner DEF Projects, Moves, Becomes
<1>2. CASE Reproject /\ startup.manual = "no" /\ Unaccounted = {} /\ ws # None
  BY <1>2, ReprojectDoes DEF Reprojects, Moves, Becomes
<1>3. CASE Settle
  BY <1>3, SettleDoes DEF Settles, Moves, Becomes, HeadStays
<1>4. CASE ConfigureRow
  BY <1>4, ConfigureRowDoes DEF Configures
<1>5. CASE ~Project /\ ~Settle /\ ~ConfigureRow /\ ~(Reproject /\ startup.manual = "no" /\ Unaccounted = {} /\ ws # None)
  <2>1. spoken' = spoken
    BY <1>5, Writers
  <2>2. /\ db'.head = db.head /\ db'.thread \in {db.thread, None}
        /\ db'.live = db.live /\ db'.headLive = db.headLive /\ db'.cfg = db.cfg
    BY <1>5, Writers, PublishDoes, ReleaseDoes, LockDoes, WithdrawDoes,
       DisposeAtStartupDoes, ReprojectDoes, SubmitDoes, StartRollbackDoes, StartAgentDoes DEF HeadStays
  <2>3. op'.pc = "settle" => (op.pc = "settle" /\ startup' = startup) \/ startup'.manual # "no"
    <3>1. op.pc = "settle" /\ op'.pc = "settle" => startup' = startup
      BY ReportsTurn, Owner DEF ReportTurns, Idle, PcFits, OwnerFits, OfNobody, RestFits
    <3>2. Reproject => startup'.manual # "no"
      BY <1>5, ReprojectDoes
    <3> QED
      BY <3>1, <3>2, Arrivals DEF Stays
  <2>4. op'.pc # "dropBackup" \/ op.pc # "project"
    <3>1. op.pc = "project" => op.id # None
      BY Owner
    <3>2. op.pc = "project" /\ op'.pc = "dropBackup" => FALSE
      BY <1>5, <3>1, Arrivals, ExamineDoes, FaultDoes DEF Stays, FaultEarly, FaultInSwap, FaultLate, Becomes, Idle
    <3> QED
      BY <3>2
  <2>5. op'.pc # "dispositions" \/ op.pc = "dispositions"
    BY <1>5, Arrivals DEF Stays
  <2> QED
    BY <2>1, <2>2, <2>3, <2>4, <2>5
<1> QED
  BY <1>1, <1>2, <1>3, <1>4, <1>5

----------------------------------------------------------------------------
(* What was shown and is taken back. *)

\* Who was taken back stays so.
LEMMA OrphansStay ==
    ASSUME TypeOK, OpTypes, Knows, PcFits, StateFits, PermitFits, ReceiptsFit, PublishedFits,
           VersionsFit, OpenFits, Next, NEW i \in Id
    PROVE  /\ Orphaned(i) => Orphaned(i)'
           /\ Committed(i) /\ ~Committed(i)' => Reverted /\ i = op.id /\ Orphaned(i)'
           /\ Committed(i) => ~Orphaned(i)
           /\ ~Committed(i) /\ Committed(i)' => Appended /\ i = op.id /\ up = "up"
<1>0. i # None /\ op.pc = "revert" => State(op.id) = "ROLLED_BACK"
  BY Someone DEF StateFits
<1>1. Appended => State(op.id) = "PROMOTED_PENDING_DB" /\ up = "up"
  BY InRun DEF Appended, StateFits, Projection, InRecovery
<1>2. op.pc = "revert" \/ State(i) = "ROLLED_BACK" => State(i)' = State(i)
  BY StatesTurn, SwapState DEF StateTurns
<1>3. Reverted => op.pc = "revert"
  BY DEF Reverted
<1>4. Orphaned(i) => Orphaned(i)'
  BY <1>1, <1>2, IndexTurns DEF Orphaned
<1>5. Committed(i) /\ ~Committed(i)' => Reverted /\ i = op.id /\ Orphaned(i)'
  <2>1. SUFFICES ASSUME Committed(i), ~Committed(i)' PROVE Reverted /\ i = op.id /\ Orphaned(i)'
    OBVIOUS
  <2>2. Reverted /\ i = op.id
    BY <2>1, IndexTurns
  <2>3. State(i) = "ROLLED_BACK" /\ State(i)' = State(i)
    BY <1>0, <1>2, <1>3, <2>2, Someone
  <2> QED
    BY <2>1, <2>2, <2>3 DEF Orphaned
<1>6. ~Committed(i) /\ Committed(i)' => Appended /\ i = op.id /\ up = "up"
  BY <1>1, IndexTurns
<1> QED
  BY <1>4, <1>5, <1>6 DEF Orphaned

\* Startup recovery loses sight of nobody that it has to take back.
LEMMA OrphansWait ==
    ASSUME TypeOK, OpTypes, Knows, PcFits, StateFits, PermitFits, ReceiptsFit, PublishedFits,
           VersionsFit, OpenFits, Next, NEW i \in Id, Orphaned(i), up = "starting", up' = "starting",
           AwaitsRecovery(i) \/ (op.pc # "dispositions" /\ i \in startup.rolled),
           op.pc = "settle" /\ startup.manual = "no" => op'.pc # "dispositions"
    PROVE  AwaitsRecovery(i)' \/ (op'.pc # "dispositions" /\ i \in startup'.rolled)
<1>0. i # None /\ State(i) = "ROLLED_BACK"
  BY Someone DEF Orphaned
<1>1. /\ op.pc = "dispositions" => db.locked
      /\ op.pc # "dispositions" => i \in startup.todo \/ startup.manual # "no" \/ i \in startup.rolled
  BY DEF AwaitsRecovery
<1>2. op'.pc = "dispositions" => db'.locked
  <2>1. CASE op.pc = "dispositions"
    BY <1>1, <2>1, Writers, PublishDoes, ProjectDoes, ReleaseDoes, LockDoes, WithdrawDoes, ConfigureRowDoes,
       DisposeAtStartupDoes, ReprojectDoes, SettleDoes, SubmitDoes, StartRollbackDoes, StartAgentDoes
  <2>2. CASE Settle /\ op'.pc = "dispositions"
    <3>1. op.pc = "settle" /\ db'.locked = (startup.manual # "no")
      BY <2>2, SettleDoes
    <3> QED
      BY <2>2, <3>1
  <2> QED
    BY <2>1, <2>2, Arrivals DEF Stays
<1>3. op'.pc # "dispositions" => i \in startup'.todo \/ startup'.manual # "no" \/ i \in startup'.rolled
  <2>1. SUFFICES ASSUME op'.pc # "dispositions", startup' # startup
                 PROVE i \in startup'.todo \/ startup'.manual # "no" \/ i \in startup'.rolled
    <3>1. op.pc = "dispositions" => op'.pc = "dispositions"
      BY DispositionsLast, PcFitsKept
    <3> QED
      BY <1>1, <3>1
  <2>2. op.pc # "dispositions"
    BY <2>1, DispositionsLast, PcFitsKept
  <2>3. op.pc = "release" => State(op.id) = "ACKNOWLEDGED"
    BY DEF StateFits, Cleanup
  <2> QED
    BY <1>0, <1>1, <2>1, <2>2, <2>3, ReportsTurn DEF ReportTurns
<1> QED
  BY <1>2, <1>3 DEF AwaitsRecovery

\* What the database may come to show is in the index.
LEMMA Shows ==
    ASSUME TypeOK, OpTypes, Knows, PcFits, StateFits, PermitFits, ReceiptsFit, PublishedFits,
           VersionsFit, OpenFits, Next, NEW i \in Id, Shown(i)', ~Shown(i)
    PROVE  /\ Committed(i) /\ Committed(i)'
           /\ (Projects /\ i = op.id) \/ (Reprojects /\ i = Latest.id)
<1>0. op.pc = "project" => op.id # None
  BY Owner
<1>1. CASE Projects
  <2>1. i = op.id /\ op.pc = "project" /\ versions' = versions
    BY <1>1, Quiet DEF Shown, Projects
  <2>2. Committed(i)
    BY <1>0, <2>1 DEF VersionsFit
  <2> QED
    BY <1>1, <2>1, <2>2, IndexTurns DEF Appended, Reverted
<1>2. CASE Reprojects
  <2>1. i = Latest.id /\ versions' = versions
    BY <1>2, Quiet DEF Shown, Reprojects
  <2>2. Committed(i)
    BY <2>1, LatestCommitted
  <2> QED
    BY <1>2, <2>1, <2>2, IndexTurns DEF Reprojects, Appended, Reverted
<1> QED
  BY <1>1, <1>2, ShowTurns DEF Shown, Settles, Configures

----------------------------------------------------------------------------
(* Answers stand on the index. *)

\* An open transition at the end of a recovery that has decided everything is none.
LEMMA Decided ==
    ASSUME TypeOK, PcFits, OpenFits, up = "starting", startup.todo = {}, startup.manual = "no",
           op.pc \notin {"dispositions"}, NEW i \in Id, Open(i)
    PROVE  Announced(i) /\ op.pc # "settle"
BY DEF OpenFits, AwaitsRecovery

LEMMA LatestDecided ==
    ASSUME TypeOK, PcFits, VersionsFit, OpenFits, up = "starting", startup.todo = {},
           startup.manual = "no", op.pc # "dispositions"
    PROVE  Latest.id = Initial \/ State(Latest.id) = "ACKNOWLEDGED"
<1>1. SUFFICES ASSUME Latest.id # Initial, State(Latest.id) # "ACKNOWLEDGED" PROVE FALSE
  OBVIOUS
<1>2. Latest.id \in Id /\ Open(Latest.id) /\ Committed(Latest.id)
  BY <1>1, LatestCommitted, PendingIsOpen
<1>3. Announced(Latest.id)
  BY <1>2, Decided
<1> QED
  BY <1>2, <1>3 DEF Announced, VersionsFit

LEMMA ShownKnownKept ==
    ASSUME TypeOK, OpTypes, Knows, PcFits, StateFits, PermitFits, ReceiptsFit, PublishedFits,
           VersionsFit, OpenFits, ShownFits, Next, NEW i \in Id, Shown(i)'
    PROVE  Committed(i)' \/ Orphaned(i)'
<1>1. CASE Shown(i)
  <2>1. Committed(i) \/ Orphaned(i)
    BY <1>1 DEF ShownFits
  <2> QED
    BY <2>1, OrphansStay
<1> QED
  BY <1>1, Shows

LEMMA OrphansAwaited ==
    ASSUME TypeOK, OpTypes, Knows, PcFits, StateFits, PermitFits, ReceiptsFit, PublishedFits,
           VersionsFit, OpenFits, ShownFits, HeadFits, Next, NEW i \in Id, Shown(i)', Orphaned(i)'
    PROVE  AwaitsRecovery(i)' \/ (up' = "starting" /\ op'.pc # "dispositions" /\ i \in startup'.rolled)
<1>0. i # None /\ up \in {"up", "starting", "down"} /\ up' \in {"up", "starting", "down"}
  BY Someone, RunsTyped DEF TypeOK
<1>1. Shown(i)
  BY Shows DEF Orphaned
<1>2. CASE ~Orphaned(i)
  <2>1. Committed(i)
    BY <1>1, <1>2 DEF ShownFits
  <2>2. Reverted /\ i = op.id
    BY <2>1, OrphansStay DEF Orphaned
  <2>3. op.pc = "revert" /\ op'.pc \in {"abortReceipt", "rolled", "withdraw"} /\ op'.id = i
    BY <2>2 DEF Reverted
  <2>4. up # "up"
    BY <1>0, <1>1, <2>2, <2>3 DEF ShownFits, Acknowledgement, Cleanup
  <2>5. up = "starting" /\ i \in startup.todo
    BY <1>0, <2>2, <2>3, <2>4, Alive DEF PcFits, TodoFits
  <2>6. startup' = startup
    BY <1>0, <2>3, ReportsTurn DEF ReportTurns, Idle
  <2>7. up' # "up"
    BY <2>3, <2>5, Writers, ServeDoes, StartDoes, FaultAtStartupDoes, CrashDoes
  <2> QED
    BY <1>0, <2>3, <2>5, <2>6, <2>7 DEF AwaitsRecovery
<1>3. CASE up' = "down"
  BY <1>3 DEF AwaitsRecovery
<1>4. CASE Orphaned(i) /\ up' # "down"
  <2>1. AwaitsRecovery(i) \/ (up = "starting" /\ op.pc # "dispositions" /\ i \in startup.rolled)
    BY <1>1, <1>4 DEF ShownFits
  <2>2. CASE up = "up"
    <3>1. op = Idle /\ (db.locked \/ reserved)
      BY <2>1, <2>2 DEF AwaitsRecovery
    <3>2. up' = "up"
      BY <1>0, <1>4, <2>2, Writers, ServeDoes, StartDoes, FaultAtStartupDoes, CrashDoes
    <3>3. op' = Idle /\ (db'.locked \/ reserved')
      BY <2>2, <3>1, <3>2, NothingBegins
    <3> QED
      BY <3>2, <3>3 DEF AwaitsRecovery
  <2>3. CASE up = "down"
    <3>1. Start
      BY <1>0, <1>4, <2>3, Writers, ServeDoes, Recovers, FaultAtStartupDoes, CrashDoes
    <3>2. /\ up' = "starting" /\ op'.pc = "journals" /\ startup'.todo = {j \in Id : journal[j] # None}
      BY <3>1, StartDoes DEF Begins
    <3>3. journal[i] # None
      BY <1>4, JournalKnown DEF Orphaned
    <3> QED
      BY <3>2, <3>3 DEF AwaitsRecovery
  <2>4. CASE up = "starting" /\ up' = "starting"
    <3>1. op.pc = "settle" /\ startup.manual = "no" => op'.pc # "dispositions"
      <4>1. SUFFICES ASSUME op.pc = "settle", startup.manual = "no", op'.pc = "dispositions" PROVE FALSE
        OBVIOUS
      <4>2. Settles
        BY <4>1, ShowTurns DEF Projects, Reprojects, Configures, Idle
      <4>3. startup.todo = {}
        BY <4>1 DEF PcFits, TodoFits
      <4>4. i \in startup.rolled
        BY <2>1, <2>4, <4>1, <4>3 DEF AwaitsRecovery
      <4>5. db.head = i
        BY <4>2, <4>4 DEF Shown, Settles
      <4>6. db.head = Latest.id
        BY <4>1 DEF HeadFits
      <4>7. Committed(i)
        BY <4>5, <4>6, LatestCommitted
      <4> QED
        BY <1>4, <4>7 DEF Orphaned
    <3> QED
      BY <1>4, <2>1, <2>4, <3>1, OrphansWait
  <2>5. CASE up = "starting" /\ up' = "up"
    <3>1. Serve
      BY <2>5, Writers, StartDoes, FaultAtStartupDoes, CrashDoes
    <3>2. op.pc = "dispositions" /\ op' = Idle /\ db' = db
      BY <3>1, ServeDoes
    <3>3. db.locked
      BY <2>1, <2>5, <3>2 DEF AwaitsRecovery
    <3> QED
      BY <2>5, <3>2, <3>3 DEF AwaitsRecovery
  <2> QED
    BY <1>0, <1>4, <2>2, <2>3, <2>4, <2>5
<1> QED
  BY <1>2, <1>3, <1>4

LEMMA AnswersKept ==
    ASSUME TypeOK, OpTypes, Knows, PcFits, StateFits, PermitFits, ReceiptsFit, PublishedFits,
           VersionsFit, OpenFits, ShownFits, Next, NEW r \in Run, State(r)' = "ACKNOWLEDGED"
    PROVE  r \in spoken'
<1>0. r \in Id
  BY DEF Id
<1>1. CASE State(r) = "ACKNOWLEDGED"
  <2>1. r \in spoken
    BY <1>1 DEF ShownFits
  <2>2. r \notin startup.rolled
    BY <1>1 DEF ReceiptsFit
  <2> QED
    BY <2>1, <2>2, ShowTurns DEF Projects, Reprojects, Settles, Configures
<1>2. CASE State(r) # "ACKNOWLEDGED"
  <2>1. op.pc = "acknowledge" /\ op.id = r
    BY <1>0, <1>2, StatesTurn, SwapState DEF StateTurns
  <2>2. spoken' = spoken
    BY <2>1, Quiet
  <2> QED
    BY <2>1, <2>2 DEF ShownFits, Acknowledgement
<1> QED
  BY <1>1, <1>2

----------------------------------------------------------------------------
(* The head and the thread of the row. *)

LEMMA HeadSpokenKept ==
    ASSUME TypeOK, OpTypes, Knows, PcFits, StateFits, PermitFits, ReceiptsFit, PublishedFits,
           VersionsFit, OpenFits, ShownFits, Next, NEW i \in Run, db'.head = i
    PROVE  i \in spoken' \/ Orphaned(i)'
<1>0. i \in Id
  BY DEF Id
<1>1. CASE i = db.head
  <2>1. i \in spoken \/ Orphaned(i)
    BY <1>1 DEF ShownFits
  <2>2. Committed(i) \/ Orphaned(i)
    BY <1>0, <1>1 DEF ShownFits, Shown
  <2>3. Orphaned(i) => Orphaned(i)'
    BY <1>0, OrphansStay
  <2>4. i \in startup.rolled => ~Committed(i)
    BY DEF ReceiptsFit
  <2>5. i \in spoken /\ ~Orphaned(i) => i \in spoken'
    BY <2>2, <2>4, ShowTurns DEF Projects, Reprojects, Settles, Configures
  <2> QED
    BY <2>1, <2>3, <2>5
<1>2. CASE Projects
  BY <1>2 DEF Projects
<1>3. CASE Reprojects
  <2>1. up = "starting" /\ op.pc # "dispositions"
    BY <1>3, Recovers DEF Reprojects
  <2>2. Latest.id = Initial \/ State(Latest.id) = "ACKNOWLEDGED"
    BY <1>3, <2>1, LatestDecided DEF Reprojects
  <2>3. i \in spoken
    BY <1>0, <1>3, <2>2, Someone DEF Reprojects, ShownFits
  <2> QED
    BY <1>3, <2>3 DEF Reprojects
<1> QED
  BY <1>1, <1>2, <1>3, ShowTurns DEF Settles, Configures

LEMMA ThreadFitsKept ==
    ASSUME TypeOK, OpTypes, Knows, PcFits, StateFits, PermitFits, ReceiptsFit, PublishedFits,
           VersionsFit, OpenFits, ShownFits, HeadFits, Next, NEW i, db'.thread = i, i # None
    PROVE  /\ i \in spoken'
           /\ i # db'.head => Orphaned(i)' /\ up' # "up" /\ op'.pc # "dispositions"
<1>1. CASE Projects
  BY <1>1 DEF Projects
<1>2. CASE ~Projects
  <2>1. db.thread = i
    BY <1>2, ShowTurns DEF Projects, Reprojects, Settles, Configures
  <2>2. i \in spoken /\ i \in Run /\ i \in Id /\ Shown(i)
    BY <2>1 DEF ShownFits, TypeOK, Shown, Id
  <2>3. i # db.head => Orphaned(i) /\ up # "up" /\ op.pc # "dispositions"
    BY <2>1 DEF ShownFits
  <2>4. Committed(i) \/ Orphaned(i)
    BY <2>2 DEF ShownFits
  <2>5. Shown(i) /\ Orphaned(i) =>
           AwaitsRecovery(i) \/ (up = "starting" /\ op.pc # "dispositions" /\ i \in startup.rolled)
    BY <2>2 DEF ShownFits
  <2>6. Settles => i \notin startup.rolled
    <3>1. SUFFICES ASSUME Settles, i \in startup.rolled PROVE FALSE
      OBVIOUS
    <3>2. i \in AbortedAfterAll
      BY <2>2, <3>1 DEF AbortedAfterAll
    <3> QED
      BY <2>1, <3>1, <3>2 DEF Settles
  <2>7. i \in spoken'
    BY <1>2, <2>2, <2>6, ShowTurns DEF Projects, Reprojects, Settles, Configures
  <2>8. ASSUME i # db'.head
        PROVE  Orphaned(i) /\ up # "up" /\ op.pc # "dispositions"
    <3>1. CASE i # db.head
      BY <2>3, <3>1
    <3>2. CASE i = db.head
      <4>1. Reprojects /\ i # Latest.id
        BY <1>2, <2>8, <3>2, ShowTurns DEF Projects, Reprojects, Settles, Configures
      <4>2. up = "starting" /\ op.pc # "dispositions"
        BY <4>1, Recovers DEF Reprojects
      <4>3. Latest.id = Initial \/ State(Latest.id) = "ACKNOWLEDGED"
        BY <4>1, <4>2, LatestDecided DEF Reprojects
      <4>4. Orphaned(i)
        <5>1. Len(versions) > 1 => Latest.id # Initial
          <6>1. SUFFICES ASSUME Len(versions) > 1, Latest.id = Initial PROVE FALSE
            OBVIOUS
          <6>2. /\ 1 \in DOMAIN versions /\ Len(versions) \in DOMAIN versions
                /\ versions[1].id = versions[Len(versions)].id
            BY <6>1, IndexTyped DEF VersionsFit, Latest
          <6>3. 1 = Len(versions)
            BY <6>2 DEF VersionsFit
          <6>4. 1 # Len(versions)
            BY <6>1, IndexTyped
          <6> QED
            BY <6>3, <6>4
        <5> QED
          BY <3>2, <4>1, <4>3, <5>1 DEF HeadFits
      <4> QED
        BY <4>2, <4>4
    <3> QED
      BY <3>1, <3>2
  <2>9. ASSUME i # db'.head
        PROVE  Orphaned(i)' /\ up' # "up" /\ op'.pc # "dispositions"
    <3>1. Orphaned(i)'
      BY <2>2, <2>8, <2>9, OrphansStay
    <3>2. up' # "up"
      BY <2>8, <2>9, Writers, ServeDoes, StartDoes, FaultAtStartupDoes, CrashDoes
    <3>3. op'.pc # "dispositions"
      <4>1. SUFFICES ASSUME op'.pc = "dispositions" PROVE FALSE
        OBVIOUS
      <4>2. Settles
        BY <2>8, <2>9, <4>1, ShowTurns DEF Projects, Reprojects, Configures, Idle
      <4>3. up = "starting" /\ startup.todo = {} /\ op.pc = "settle"
        BY <4>2, Recovers DEF Settles, PcFits, TodoFits
      <4>4. startup.manual = "no"
        BY <2>1, <4>2 DEF Settles
      <4>5. i \in startup.rolled
        BY <2>2, <2>5, <2>8, <2>9, <4>3, <4>4 DEF AwaitsRecovery
      <4> QED
        BY <2>6, <4>2, <4>5
    <3> QED
      BY <3>1, <3>2, <3>3
  <2> QED
    BY <2>7, <2>9
<1> QED
  BY <1>1, <1>2

LEMMA NotYetShownKept ==
    ASSUME TypeOK, OpTypes, Knows, PcFits, StateFits, PermitFits, ReceiptsFit, PublishedFits,
           VersionsFit, OpenFits, ShownFits, Next, op'.id # None, up' = "up",
           op'.pc \notin Acknowledgement \cup Cleanup \cup {"lock", "publish"},
           NEW i \in Id, i = op'.id
    PROVE  ~Shown(i)'
<1>1. CASE op'.id = op.id
  <2>1. up = "up"
    BY <1>1, Writers, ServeDoes, StartDoes, FaultAtStartupDoes, CrashDoes DEF Idle
  <2>2. ~Shown(i)
    <3>1. CASE op.pc \notin Acknowledgement \cup Cleanup \cup {"lock", "publish"}
      BY <1>1, <2>1, <3>1 DEF ShownFits
    <3>2. CASE op.pc \in Acknowledgement \cup Cleanup \cup {"lock", "publish"}
      <4>1. op.pc = "publish" /\ op'.pc = "dispose"
        BY <1>1, <3>2, Departures DEF Acknowledgement, Cleanup, Stays
      <4>2. Publish /\ i \in Run
        BY <1>1, <4>1, Arrivals, OwnerOfRun DEF Stays
      <4>3. Phase(i) = "PENDING_DISPOSITION"
        BY <1>1, <4>1, <4>2, PublishDoes DEF Idle
      <4>4. ~Committed(i)
        BY <4>2, <4>3 DEF ReceiptsFit
      <4>5. ~AwaitsRecovery(i)
        BY <2>1, <4>1 DEF AwaitsRecovery, Idle
      <4> QED
        BY <2>1, <4>4, <4>5 DEF ShownFits
    <3> QED
      BY <3>1, <3>2
  <2>3. ~Reprojects
    BY <2>1, Recovers DEF Reprojects
  <2>4. ~Projects
    BY DEF Projects, Acknowledgement
  <2> QED
    BY <2>2, <2>3, <2>4, Shows
<1>2. CASE op'.id # op.id
  <2>1. /\ op.id = None
        /\ (\E r \in Run : Submit(r) /\ op'.id = r) \/ (\E x \in Rollback : StartRollback(x) /\ op'.id = x)
    BY <1>2, Beginners
  <2>2. State(i) = "NONE"
    BY <2>1, SubmitDoes, StartRollbackDoes, Unstarted
  <2>3. ~Shown(i)
    BY <2>2 DEF ShownFits, VersionsFit, Orphaned
  <2>4. ~Committed(i)
    BY <2>2 DEF VersionsFit
  <2> QED
    BY <2>3, <2>4, Shows
<1> QED
  BY <1>1, <1>2

LEMMA HeadKnownKept ==
    ASSUME TypeOK, OpTypes, Knows, PcFits, StateFits, PermitFits, ReceiptsFit, PublishedFits,
           VersionsFit, OpenFits, ShownFits, Next, PcFits',
           op'.pc \in Acknowledgement \/ (op'.pc \in Cleanup /\ up' = "up")
    PROVE  db'.head = op'.id /\ (op'.id \in Run => op'.id \in spoken')
<1>0. /\ op.pc \in Acknowledgement \/ (op.pc \in Cleanup /\ up = "up") => 
           db.head = op.id /\ (op.id \in Run => op.id \in spoken) /\ op.id # None
  BY Owner DEF ShownFits, Acknowledgement, Cleanup
<1>1. CASE op'.id = op.id /\ (op.pc \in Acknowledgement \/ (op.pc \in Cleanup /\ up = "up"))
  <2>1. /\ op.pc \notin {"project", "journals", "settle", "configure"}
    BY <1>1 DEF Acknowledgement, Cleanup
  <2>2. db'.head = db.head /\ spoken' = spoken
    BY <2>1, ShowTurns DEF Projects, Reprojects, Settles, Configures
  <2> QED
    BY <1>0, <1>1, <2>2
<1>2. CASE Projects
  BY <1>2 DEF Projects
<1>3. ASSUME NEW i \in Id, Examine(i), op'.pc = "dropBackup", op'.id = i, op.pc = "journals"
      PROVE  db'.head = op'.id /\ (op'.id \in Run => op'.id \in spoken')
  <2>1. DatabaseCommitted(i)
    BY <1>3, ExamineDoes DEF Begins
  <2>2. db'.head = db.head /\ spoken' = spoken
    BY <1>3, ShowTurns DEF Projects, Reprojects, Settles, Configures
  <2>3. Latest.id = i /\ db.head = i
    BY <2>1 DEF DatabaseCommitted
  <2>4. ~Orphaned(i)
    BY <2>3, LatestCommitted DEF Orphaned
  <2> QED
    BY <1>3, <2>2, <2>3, <2>4 DEF ShownFits
<1>4. CASE op'.id = op.id /\ op.id # None
  <2>1. up' = "up" => up = "up"
    BY <1>4, Writers, ServeDoes, StartDoes, FaultAtStartupDoes, CrashDoes DEF Idle
  <2>2. \/ op.pc \in Acknowledgement \/ (op.pc \in Cleanup /\ up = "up")
        \/ op.pc = "project" /\ op'.pc = "dropBackup"
        \/ op.pc \in Cleanup /\ op'.pc = "dropBackup" /\ up # "up"
    <3>1. op.pc # "journals"
      BY <1>4, OwnerOfNobody
    <3>2. Fault /\ op'.pc = "dropBackup" =>
             up = "up" /\ op.pc \in {"dropBackup", "acknowledge", "retention", "terminal"}
      BY <1>4, FaultDoes DEF FaultEarly, FaultInSwap, FaultLate, Becomes, Moves, Idle, Knows
    <3>3. op'.pc \in {"dropBackup", "acknowledge"} =>
             \/ op.pc \in {"dropBackup", "acknowledge", "project"}
             \/ up = "up" /\ op.pc \in {"retention", "terminal"}
      BY <1>4, <3>1, <3>2, Arrivals, ProjectDoes, DropBackupDoes, ExamineBegins DEF Stays
    <3>4. op'.pc \in {"retention", "release", "terminal", "destroy"} =>
             op.pc \in {"acknowledge", "retention", "release", "terminal", "destroy"}
      BY <1>4, <3>1, Arrivals, AcknowledgeJournalDoes, ReleaseRetentionDoes,
         TerminalReceiptDoes, DestroyProposalDoes, ExamineBegins DEF Stays
    <3>5. op.pc = "project" /\ op'.pc # "dropBackup" => op'.pc # "acknowledge"
      BY <1>4, Departures DEF Stays
    <3> QED
      BY <2>1, <3>3, <3>4, <3>5 DEF Acknowledgement, Cleanup
  <2>3. CASE op.pc = "project" /\ op'.pc = "dropBackup"
    <3>1. Projects
      BY <2>3, ShowTurns DEF Reprojects, Settles, Configures
    <3> QED
      BY <1>2, <3>1
  <2>4. CASE op.pc \in Cleanup /\ op'.pc = "dropBackup" /\ up # "up"
    <3>1. ~Fault
      BY <2>4, FaultDoes
    <3> QED
      BY <2>4, <3>1, Arrivals, ExamineBegins, ProjectDoes DEF Cleanup, Stays
  <2> QED
    BY <1>1, <1>4, <2>2, <2>3, <2>4
<1>5. CASE op'.id # op.id
  <2>1. op'.id # None
    BY DEF PcFits, OwnerFits, Acknowledgement, Cleanup, OfNobody
  <2>2. PICK i \in Id : Examine(i) /\ op'.id = i /\ up' = "starting"
    BY <1>5, <2>1, Beginners, SubmitDoes, StartRollbackDoes DEF Acknowledgement, Cleanup, Begins
  <2>3. op.pc = "journals" /\ op'.pc = "dropBackup"
    BY <1>5, <2>2, ExamineBegins DEF Acknowledgement
  <2> QED
    BY <1>3, <2>2, <2>3
<1>6. op'.id # None
  BY DEF PcFits, OwnerFits, Acknowledgement, Cleanup, OfNobody
<1> QED
  BY <1>4, <1>5, <1>6

LEMMA ShownFitsKept ==
    ASSUME TypeOK, OpTypes, Knows, PcFits, StateFits, PermitFits, ReceiptsFit, PublishedFits,
           VersionsFit, OpenFits, ShownFits, HeadFits, Next, PcFits', TypeOK'
    PROVE  ShownFits'
<1>1. \A i \in Id : Shown(i)' => Committed(i)' \/ Orphaned(i)'
  BY ShownKnownKept
<1>2. \A i \in Id : Shown(i)' /\ Orphaned(i)' =>
         AwaitsRecovery(i)' \/ (up' = "starting" /\ op'.pc # "dispositions" /\ i \in startup'.rolled)
  BY OrphansAwaited
<1>3. \A r \in Run : State(r)' = "ACKNOWLEDGED" => r \in spoken'
  BY AnswersKept
<1>4. op'.id # None => op'.id \in Id
  BY DEF TypeOK
<1>5. /\ op'.id # None /\ up' = "up" /\ op'.pc \notin Acknowledgement \cup Cleanup \cup {"lock", "publish"} =>
           ~Shown(op.id)'
  <2>1. SUFFICES ASSUME op'.id # None, up' = "up", op'.pc \notin Acknowledgement \cup Cleanup \cup {"lock", "publish"}
                 PROVE ~Shown(op.id)'
    OBVIOUS
  <2>2. \A i \in Id : i = op'.id => ~Shown(i)'
    BY <2>1, NotYetShownKept
  <2>3. \A i \in Id : i = op'.id => (Shown(i)' <=> Shown(op.id)')
    BY DEF Shown
  <2> QED
    BY <1>4, <2>1, <2>2, <2>3
<1>6. /\ (db.head \in Run)' => (db.head \in spoken)' \/ Orphaned(db.head)'
  <2>1. SUFFICES ASSUME db'.head \in Run PROVE db'.head \in spoken' \/ Orphaned(db.head)'
    OBVIOUS
  <2>2. PICK i \in Run : db'.head = i
    BY <2>1
  <2>3. i \in spoken' \/ Orphaned(i)'
    BY <2>2, HeadSpokenKept
  <2> QED
    BY <2>2, <2>3 DEF Orphaned, Committed, State
<1>8. /\ db'.thread # None => db'.thread \in spoken'
      /\ db'.thread # None /\ db'.thread # db'.head =>
            Orphaned(db.thread)' /\ up' # "up" /\ op'.pc # "dispositions"
  <2>1. SUFFICES ASSUME db'.thread # None
                 PROVE  /\ db'.thread \in spoken'
                        /\ db'.thread # db'.head =>
                               Orphaned(db.thread)' /\ up' # "up" /\ op'.pc # "dispositions"
    OBVIOUS
  <2>2. PICK i : db'.thread = i /\ i # None
    BY <2>1
  <2>3. /\ i \in spoken'
        /\ i # db'.head => Orphaned(i)' /\ up' # "up" /\ op'.pc # "dispositions"
    BY <2>2, ThreadFitsKept
  <2>4. Orphaned(i)' => Orphaned(db.thread)'
    BY <2>2 DEF Orphaned, Committed, State
  <2> QED
    BY <2>2, <2>3, <2>4
<1>7. op'.pc \in Acknowledgement \/ (op'.pc \in Cleanup /\ up' = "up") =>
         db'.head = op'.id /\ (op'.id \in Run => op'.id \in spoken')
  BY HeadKnownKept
<1> QED
  BY <1>1, <1>2, <1>3, <1>5, <1>6, <1>7, <1>8 DEF ShownFits

----------------------------------------------------------------------------
(* The row's head against the index's. *)

\* The only version that is not acknowledged is the last one.
LEMMA PendingIsLatest ==
    ASSUME TypeOK, VersionsFit, NEW i \in Id, Committed(i), State(i) # "ACKNOWLEDGED"
    PROVE  Latest.id = i /\ Len(versions) > 1
<1>1. PICK k \in 1..Len(versions) : versions[k].id = i
  BY IndexTyped DEF Committed
<1>2. k # 1
  BY <1>1, Someone DEF VersionsFit
<1>3. Len(versions) \in Nat
  BY IndexTyped
<1>4. k \notin 2..(Len(versions) - 1)
  BY <1>1 DEF VersionsFit
<1>5. k = Len(versions)
  BY <1>1, <1>2, <1>3, <1>4
<1> QED
  BY <1>1, <1>2, <1>3, <1>5 DEF Latest

LEMMA HeadFitsKept ==
    ASSUME TypeOK, OpTypes, Knows, PcFits, StateFits, PermitFits, ReceiptsFit, PublishedFits,
           VersionsFit, OpenFits, ShownFits, HeadFits, TypeOK', Next
    PROVE  HeadFits'
<1>0. /\ Len(versions) \in Nat /\ Len(versions) >= 1
      /\ Latest.id \in Id \cup {Initial} /\ Initial \notin Id /\ None \notin Id
      /\ Latest = versions[Len(versions)]
  BY IndexTyped, LatestCommitted, Someone DEF Latest
<1>1. CASE db'.head = Latest'.id
  BY <1>1 DEF HeadFits
<1>2. CASE Projects
  <2>1. versions' = versions /\ op.id \in Id /\ op.id # None /\ op.pc = "project"
    BY <1>0, <1>2, Quiet DEF Projects
  <2>2. Committed(op.id) /\ State(op.id) # "ACKNOWLEDGED"
    BY <2>1 DEF StateFits, VersionsFit, Projection
  <2>3. Latest.id = op.id
    BY <2>1, <2>2, PendingIsLatest
  <2>4. Latest' = Latest
    BY <2>1 DEF Latest
  <2> QED
    BY <1>1, <1>2, <2>3, <2>4 DEF Projects
<1>3. CASE Reprojects
  <2>1. versions' = versions
    BY <1>3, Quiet DEF Reprojects
  <2>2. Latest' = Latest
    BY <2>1 DEF Latest
  <2> QED
    BY <1>1, <1>3, <2>2 DEF Reprojects
<1>4. CASE ~Projects /\ ~Reprojects
  <2>1. /\ db'.head = db.head
        /\ op'.pc = "settle" => (op.pc = "settle" /\ startup' = startup) \/ startup'.manual # "no"
    BY <1>4, ShowTurns DEF Settles, Configures, Idle
  <2>2. CASE op'.pc = "settle" /\ startup'.manual = "no"
    <3>1. db.head = Latest.id /\ op.pc = "settle"
      BY <2>1, <2>2 DEF HeadFits
    <3>2. versions' = versions
      BY <3>1, Quiet
    <3>3. Latest' = Latest
      BY <3>2 DEF Latest
    <3> QED
      BY <1>1, <2>1, <3>1, <3>3
  <2>3. PICK i, l : i = db.head /\ i = db'.head /\ l = Latest.id
    BY <2>1
  <2>9. SUFFICES \/ i = Latest'.id
                 \/ Len(versions') > 1 /\ StateAfter(Latest'.id) # "ACKNOWLEDGED"
                    /\ i = versions'[Len(versions') - 1].id
                 \/ i \in Id /\ Orphaned(i)'
    <3>1. StateAfter(Latest'.id) = State(Latest.id)'
      BY DEF StateAfter, State
    <3>2. Orphaned(i)' => Orphaned(db.head)'
      BY <2>3 DEF Orphaned, Committed, State
    <3> QED
      BY <1>1, <2>2, <2>3, <3>1, <3>2 DEF HeadFits
  <2>4. i \in Id /\ Orphaned(i) => Orphaned(i)'
    BY OrphansStay
  <2>5. \/ i = l
        \/ Len(versions) > 1 /\ State(l) # "ACKNOWLEDGED" /\ i = versions[Len(versions) - 1].id
        \/ i \in Id /\ Orphaned(i)
    BY <2>3 DEF HeadFits, Orphaned, Committed, State
  <2>6. CASE versions' = versions
    <3>1. Latest' = Latest /\ Latest'.id = l
      BY <2>3, <2>6 DEF Latest
    <3>2. StateAfter(l) = State(l)'
      BY DEF StateAfter, State
    <3>3. CASE State(l) # "ACKNOWLEDGED" /\ StateAfter(l) = "ACKNOWLEDGED" /\ l \in Id
      <4>0. State(l)' = "ACKNOWLEDGED" /\ State(l) # "ACKNOWLEDGED" /\ l \in Id
        BY <3>2, <3>3
      <4>1. op.pc = "acknowledge" /\ op.id = l
        BY <4>0, StatesTurn, SwapState DEF StateTurns
      <4>2. i = l
        BY <2>3, <4>1 DEF ShownFits, Acknowledgement
      <4> QED
        BY <3>1, <4>2
    <3>4. l \notin Id /\ Len(versions) > 1 => FALSE
      <4>1. SUFFICES ASSUME l = Initial, Len(versions) > 1 PROVE FALSE
        BY <1>0, <2>3
      <4>2. /\ 1 \in DOMAIN versions /\ Len(versions) \in DOMAIN versions
            /\ versions[1].id = versions[Len(versions)].id
        BY <1>0, <2>3, <4>1, IndexTyped DEF VersionsFit
      <4>3. 1 = Len(versions)
        BY <4>2 DEF VersionsFit
      <4>4. 1 # Len(versions)
        BY <1>0, <4>1
      <4> QED
        BY <4>3, <4>4
    <3> QED
      BY <1>0, <2>3, <2>4, <2>5, <2>6, <3>1, <3>3, <3>4
  <2>7. CASE Appended
    <3>1. op.pc = "append" /\ op.id \in Id /\ op.id # None
      BY <1>0, <2>7 DEF Appended
    <3>2. up = "up" /\ ~Committed(op.id) /\ State(op.id) = "PROMOTED_PENDING_DB"
      BY <3>1, InRun DEF VersionsFit, StateFits, Projection, InRecovery
    <3>3. l = Initial \/ State(l) = "ACKNOWLEDGED"
      <4>1. SUFFICES ASSUME l # Initial, State(l) # "ACKNOWLEDGED" PROVE FALSE
        OBVIOUS
      <4>2. l \in Id /\ Open(l) /\ Committed(l)
        BY <1>0, <2>3, <4>1, LatestCommitted, PendingIsOpen
      <4>3. l = op.id
        BY <3>1, <3>2, <4>2, OnlyOneOpen
      <4> QED
        BY <3>2, <4>2, <4>3
    <3>4. l = Initial => Len(versions) = 1
      <4>1. SUFFICES ASSUME l = Initial PROVE Len(versions) = 1
        OBVIOUS
      <4>2. /\ 1 \in DOMAIN versions /\ Len(versions) \in DOMAIN versions
            /\ versions[1].id = versions[Len(versions)].id
        BY <1>0, <2>3, <4>1, IndexTyped DEF VersionsFit
      <4> QED
        BY <4>2 DEF VersionsFit
    <3>5. i = l \/ (i \in Id /\ Orphaned(i))
      BY <1>0, <2>3, <2>5, <3>3, <3>4
    <3>6. State(op.id)' = "PROMOTED_PENDING_DB" /\ Latest'.id = op.id /\ Len(versions)' = Len(versions) + 1
          /\ versions'[Len(versions)] = versions[Len(versions)]
      <4>1. journal' = journal
        BY <3>1, Quiet
      <4> QED
        BY <1>0, <2>7, <3>2, <4>1 DEF Appended, State
    <3>7. StateAfter(Latest'.id) # "ACKNOWLEDGED"
      BY <2>7, <3>6 DEF StateAfter, State, Appended
    <3>8. versions'[Len(versions') - 1] = versions[Len(versions)] /\ Len(versions') > 1
      BY <1>0, <3>6
    <3> QED
      BY <1>0, <2>3, <2>4, <3>5, <3>7, <3>8
  <2>8. CASE Reverted
    <3>1. op.id = l /\ l \in Id /\ op.pc = "revert"
      BY <2>3, <2>8 DEF Reverted
    <3>2. Latest' = versions[Len(versions) - 1]
      BY <1>0, <2>8 DEF Reverted, Latest
    <3>3. Committed(l) /\ ~Committed(l)'
      BY <1>0, <2>3, <2>8, <3>1, IndexTurns, LatestCommitted DEF Appended, Reverted
    <3>4. Orphaned(l)'
      BY <3>1, <3>3, OrphansStay
    <3> QED
      BY <2>3, <2>4, <2>5, <3>1, <3>2, <3>4
  <2> QED
    BY <2>6, <2>7, <2>8, IndexTurns
<1> QED
  BY <1>2, <1>3, <1>4

----------------------------------------------------------------------------
(* Where an operation carries its trees. *)

\* Where an operation may be.
Pcs == {"bind", "prepare", "admission", "agent", "seal", "verify", "regenerate", "issue", "claim", 
        "record", "stage", "cas", "consume", "promoting", "vacate", "fill", "pendingDb", "final", 
        "append", "project", "dropBackup", "acknowledge", "retention", "destroy", "terminal", 
        "release", "undo", "close", "revert", "abortReceipt", "reject", "rejectReceipt", "publish", 
        "dispose", "withdraw", "lock", "rolled", "idle", "configure", "journals", "settle", 
        "dispositions"}

LEMMA Somewhere ==
    ASSUME TypeOK, OpTypes, Knows, PcFits, StateFits, ReceiptsFit, op.id # None, op'.id = op.id, Next
    PROVE  op.pc \in Pcs \/ op'.pc = op.pc
<1>1. CASE Bind \/ Prepare \/ PrepareConflict \/ RecordAdmissionFailure \/ RunAgent \/ AgentEnds
  BY <1>1, BindDoes, OwnerOfNobody, PrepareDoes, PrepareConflictDoes, RecordAdmissionFailureDoes,
     RunAgentDoes, AgentEndsDoes DEF Stays, Pcs, Becomes, Moves
<1>2. CASE Seal \/ SealRefuses \/ Verify \/ Reject \/ RejectReceipt \/ Publish
  BY <1>2, SealDoes, OwnerOfNobody, SealRefusesDoes, VerifyDoes, RejectDoes, RejectReceiptDoes,
     PublishDoes DEF Stays, Pcs, Moves, Becomes, HeadStays, Idle
<1>3. CASE Dispose \/ Issue \/ Claim \/ RecordPromotion \/ Stage \/ CompareBase
  BY <1>3, DisposeDoes, OwnerOfNobody, IssueDoes, ClaimDoes, RecordPromotionDoes, StageDoes,
     CompareBaseDoes DEF Stays, Pcs, Idle, Moves, Becomes
<1>4. CASE CompareConflict \/ Consume \/ Promoting \/ Vacate \/ Fill \/ PendingDatabase
  BY <1>4, CompareConflictDoes, OwnerOfNobody, ConsumeDoes, PromotingDoes, VacateDoes, FillDoes,
     PendingDatabaseDoes DEF Stays, Pcs, Becomes, Moves, JournalSet
<1>5. CASE \/ RecordFinal \/ AppendVersion \/ Project \/ DropBackup \/ AcknowledgeJournal
           \/ ReleaseRetention
  BY <1>5, RecordFinalDoes, OwnerOfNobody, AppendVersionDoes, ProjectDoes, DropBackupDoes,
     AcknowledgeJournalDoes, ReleaseRetentionDoes DEF Stays, Pcs, Becomes, Moves, JournalSet
<1>6. CASE \/ DestroyProposal \/ TerminalReceipt \/ Release \/ UndoSwap \/ UndoJournal
           \/ CloseJournal
  BY <1>6, DestroyProposalDoes, OwnerOfNobody, TerminalReceiptDoes, ReleaseDoes, UndoSwapDoes,
     UndoJournalDoes, CloseJournalDoes DEF Stays, Pcs, Moves, Becomes, HeadStays, Idle,
     JournalSet, LeftToAnAdministrator, Begins
<1>7. CASE RevertVersion \/ AbortReceipt \/ Lock \/ Regenerate \/ Withdraw \/ ConfigureRow
  BY <1>7, RevertVersionDoes, OwnerOfNobody, AbortReceiptDoes, LockDoes, RegenerateDoes,
     WithdrawDoes, ConfigureRowDoes DEF Stays, Pcs, Moves, Becomes, HeadStays, Idle
<1>8. CASE \E i \in Id : Examine(i)
  <2>1. PICK i \in Id : Examine(i)
    BY <1>8
  <2> QED
    BY <2>1, ExamineDoes, OwnerOfNobody DEF Stays, Pcs, Begins, JournalSet
<1>9. CASE Acknowledged \/ RolledBack
  BY <1>9, AcknowledgedDoes, OwnerOfNobody, RolledBackDoes DEF Stays, Pcs, Begins
<1>10. CASE \E r \in Run : ScanReceipt(r)
  <2>1. PICK r \in Run : ScanReceipt(r)
    BY <1>10
  <2> QED
    BY <2>1, ScanReceiptDoes, OwnerOfNobody DEF Stays, Pcs
<1>11. CASE \E r \in Run : DisposeAtStartup(r)
  <2>1. PICK r \in Run : DisposeAtStartup(r)
    BY <1>11
  <2> QED
    BY <2>1, DisposeAtStartupDoes, OwnerOfNobody DEF Stays, Pcs, HeadStays
<1>12. CASE Reproject \/ Settle \/ Serve
  BY <1>12, ReprojectDoes, OwnerOfNobody, SettleDoes, ServeDoes DEF Stays, Pcs, Moves, Becomes,
     HeadStays, Idle
<1>13. CASE \E r \in Run : Submit(r)
  <2>1. PICK r \in Run : Submit(r)
    BY <1>13
  <2> QED
    BY <2>1, SubmitDoes, OwnerOfNobody DEF Stays, Pcs, Begins, HeadStays, Idle
<1>14. CASE \E x \in Rollback : StartRollback(x)
  <2>1. PICK x \in Rollback : StartRollback(x)
    BY <1>14
  <2> QED
    BY <2>1, StartRollbackDoes, OwnerOfNobody DEF Stays, Pcs, HeadStays, Idle
<1>15. CASE Configure \/ StartAgent \/ Cancel
  BY <1>15, ConfigureDoes, OwnerOfNobody, StartAgentDoes, CancelDoes DEF Stays, Pcs, Begins, Idle,
     HeadStays, Becomes
<1>16. CASE Start
  BY <1>16, StartDoes, OwnerOfNobody DEF Stays, Pcs, Begins
<1>17. CASE FaultAtStartup \/ Crash
  BY <1>17, FaultAtStartupDoes, OwnerOfNobody, CrashDoes DEF Stays, Pcs, LeftToAnAdministrator,
     Begins, Idle
<1>18. CASE Drift \/ Fault
  BY <1>18, DriftDoes, OwnerOfNobody, FaultDoes DEF Stays, Pcs, Becomes, Moves, Idle, FaultEarly,
     FaultInSwap, FaultLate
<1> QED
  BY <1>1, <1>2, <1>3, <1>4, <1>5, <1>6, <1>7, <1>8, <1>9, <1>10, <1>11, <1>12, <1>13, <1>14,
     <1>15, <1>16, <1>17, <1>18 DEF Next, Request, Step, RunStep, TransitionStep, StartupStep

\* What an operation carries along.
LEMMA Carries ==
    ASSUME TypeOK, OpTypes, Knows, PcFits, StateFits, ReceiptsFit, op.id # None, op'.id = op.id, Next
    PROVE  (op'.base = op.base \/ Bind \/ Regenerate) /\ (op'.tree = op.tree \/ RunAgent)
           /\ up' = up
<1>1. CASE Bind \/ Prepare \/ PrepareConflict \/ RecordAdmissionFailure \/ RunAgent \/ AgentEnds
  BY <1>1, BindDoes, OwnerOfNobody, PrepareDoes, PrepareConflictDoes, RecordAdmissionFailureDoes,
     RunAgentDoes, AgentEndsDoes DEF Stays, Becomes, Moves
<1>2. CASE Seal \/ SealRefuses \/ Verify \/ Reject \/ RejectReceipt \/ Publish
  BY <1>2, SealDoes, OwnerOfNobody, SealRefusesDoes, VerifyDoes, RejectDoes, RejectReceiptDoes,
     PublishDoes DEF Stays, Moves, Becomes, HeadStays, Idle
<1>3. CASE Dispose \/ Issue \/ Claim \/ RecordPromotion \/ Stage \/ CompareBase
  BY <1>3, DisposeDoes, OwnerOfNobody, IssueDoes, ClaimDoes, RecordPromotionDoes, StageDoes,
     CompareBaseDoes DEF Stays, Idle, Moves, Becomes
<1>4. CASE CompareConflict \/ Consume \/ Promoting \/ Vacate \/ Fill \/ PendingDatabase
  BY <1>4, CompareConflictDoes, OwnerOfNobody, ConsumeDoes, PromotingDoes, VacateDoes, FillDoes,
     PendingDatabaseDoes DEF Stays, Becomes, Moves, JournalSet
<1>5. CASE \/ RecordFinal \/ AppendVersion \/ Project \/ DropBackup \/ AcknowledgeJournal
           \/ ReleaseRetention
  BY <1>5, RecordFinalDoes, OwnerOfNobody, AppendVersionDoes, ProjectDoes, DropBackupDoes,
     AcknowledgeJournalDoes, ReleaseRetentionDoes DEF Stays, Becomes, Moves, JournalSet
<1>6. CASE \/ DestroyProposal \/ TerminalReceipt \/ Release \/ UndoSwap \/ UndoJournal
           \/ CloseJournal
  BY <1>6, DestroyProposalDoes, OwnerOfNobody, TerminalReceiptDoes, ReleaseDoes, UndoSwapDoes,
     UndoJournalDoes, CloseJournalDoes DEF Stays, Moves, Becomes, HeadStays, Idle, JournalSet,
     LeftToAnAdministrator, Begins
<1>7. CASE RevertVersion
  BY <1>7, RevertVersionDoes, OwnerOfNobody DEF Stays, Moves, Becomes
<1>8. CASE AbortReceipt
  BY <1>8, AbortReceiptDoes, OwnerOfNobody DEF Stays, Becomes, Moves
<1>9. CASE Lock
  BY <1>9, LockDoes, OwnerOfNobody DEF Stays, HeadStays, Idle
<1>10. CASE Regenerate \/ Withdraw \/ ConfigureRow
  BY <1>10, RegenerateDoes, OwnerOfNobody, WithdrawDoes, ConfigureRowDoes DEF Stays, HeadStays,
     Idle
<1>11. CASE \E i \in Id : Examine(i)
  <2>1. PICK i \in Id : Examine(i)
    BY <1>11
  <2> QED
    BY <2>1, ExamineDoes, OwnerOfNobody DEF Stays, Begins, JournalSet
<1>12. CASE Acknowledged \/ RolledBack
  BY <1>12, AcknowledgedDoes, OwnerOfNobody, RolledBackDoes DEF Stays, Begins
<1>13. CASE \E r \in Run : ScanReceipt(r)
  <2>1. PICK r \in Run : ScanReceipt(r)
    BY <1>13
  <2> QED
    BY <2>1, ScanReceiptDoes, OwnerOfNobody DEF Stays
<1>14. CASE \E r \in Run : DisposeAtStartup(r)
  <2>1. PICK r \in Run : DisposeAtStartup(r)
    BY <1>14
  <2> QED
    BY <2>1, DisposeAtStartupDoes, OwnerOfNobody DEF Stays, HeadStays
<1>15. CASE Reproject \/ Settle \/ Serve
  BY <1>15, ReprojectDoes, OwnerOfNobody, SettleDoes, ServeDoes DEF Stays, Moves, Becomes,
     HeadStays, Idle
<1>16. CASE \E r \in Run : Submit(r)
  <2>1. PICK r \in Run : Submit(r)
    BY <1>16
  <2> QED
    BY <2>1, SubmitDoes, OwnerOfNobody DEF Stays, Begins, HeadStays, Idle
<1>17. CASE \E x \in Rollback : StartRollback(x)
  <2>1. PICK x \in Rollback : StartRollback(x)
    BY <1>17
  <2> QED
    BY <2>1, StartRollbackDoes, OwnerOfNobody DEF Stays, HeadStays, Idle
<1>18. CASE Configure \/ StartAgent \/ Cancel
  BY <1>18, ConfigureDoes, OwnerOfNobody, StartAgentDoes, CancelDoes DEF Stays, Begins, Idle,
     HeadStays, Becomes
<1>19. CASE Start
  BY <1>19, StartDoes, OwnerOfNobody DEF Stays, Begins
<1>20. CASE FaultAtStartup \/ Crash
  BY <1>20, FaultAtStartupDoes, OwnerOfNobody, CrashDoes DEF Stays, LeftToAnAdministrator, Begins,
     Idle
<1>21. CASE Drift \/ Fault
  BY <1>21, DriftDoes, OwnerOfNobody, FaultDoes DEF Stays, Becomes, Moves, Idle, FaultEarly,
     FaultInSwap, FaultLate
<1> QED
  BY <1>1, <1>2, <1>3, <1>4, <1>5, <1>6, <1>7, <1>8, <1>9, <1>10, <1>11, <1>12, <1>13, <1>14,
     <1>15, <1>16, <1>17, <1>18, <1>19, <1>20, <1>21 DEF Next, Request, Step, RunStep,
     TransitionStep, StartupStep

\* Where an operation came from.
LEMMA Comes ==
    ASSUME TypeOK, OpTypes, Knows, PcFits, StateFits, ReceiptsFit, op.id # None, op'.id = op.id, Next
    PROVE  /\ op'.pc = "bind" => op.pc \in {"bind"}
           /\ op'.pc = "prepare" => op.pc \in {"prepare", "bind"}
           /\ op'.pc = "admission" => op.pc \in {"admission", "prepare"}
           /\ op'.pc = "agent" => op.pc \in {"agent", "prepare"}
           /\ op'.pc = "seal" => op.pc \in {"seal", "agent"}
           /\ op'.pc = "verify" => op.pc \in {"verify", "seal"}
           /\ op'.pc = "regenerate" => op.pc \in {"regenerate"}
           /\ op'.pc = "issue" => op.pc \in {"issue", "verify", "regenerate"}
           /\ op'.pc = "claim" => op.pc \in {"claim", "issue"}
           /\ op'.pc = "record" => op.pc \in {"record", "claim"}
           /\ op'.pc = "stage" => op.pc \in {"stage", "claim", "record"}
           /\ op'.pc = "cas" => op.pc \in {"cas", "stage"}
           /\ op'.pc = "consume" => op.pc \in {"consume", "cas"}
           /\ op'.pc = "promoting" => op.pc \in {"promoting", "consume"}
           /\ op'.pc = "vacate" => op.pc \in {"vacate", "promoting"}
           /\ op'.pc = "fill" => op.pc \in {"fill", "vacate"}
           /\ op'.pc = "pendingDb" => op.pc \in {"pendingDb", "fill"}
           /\ op'.pc = "final" => op.pc \in {"final", "pendingDb"}
           /\ op'.pc = "append" => op.pc \in {"append", "pendingDb", "final"}
           /\ op'.pc = "project" => op.pc \in {"project", "append"}
           /\ op'.pc = "dropBackup" => op.pc \in {"dropBackup", "project", "acknowledge", "retention", 
                                              "terminal"}
           /\ op'.pc = "acknowledge" => op.pc \in {"acknowledge", "dropBackup"}
           /\ op'.pc = "retention" => op.pc \in {"retention", "acknowledge"}
           /\ op'.pc = "destroy" => op.pc \in {"destroy", "retention"}
           /\ op'.pc = "terminal" => op.pc \in {"terminal", "retention", "destroy"}
           /\ op'.pc = "release" => op.pc \in {"release", "retention", "terminal"}
           /\ op'.pc = "undo" => op.pc \in {"undo", "fill", "final", "append", "project"}
           /\ op'.pc = "close" => op.pc \in {"close", "consume", "vacate"}
           /\ op'.pc = "revert" => op.pc \in {"revert", "undo"}
           /\ op'.pc = "abortReceipt" => op.pc \in {"abortReceipt", "revert"}
           /\ op'.pc = "reject" => op.pc \in {"reject", "agent", "seal", "verify", "issue", 
                                              "claim", "record", "stage", "cas", "promoting", 
                                              "undo", "close", "abortReceipt"}
           /\ op'.pc = "rejectReceipt" => op.pc \in {"rejectReceipt", "reject"}
           /\ op'.pc = "publish" => op.pc \in {"publish", "admission", "release", "abortReceipt", 
                                              "rejectReceipt"}
           /\ op'.pc = "dispose" => op.pc \in {"dispose", "publish"}
           /\ op'.pc = "withdraw" => op.pc \in {"withdraw", "regenerate", "issue", "claim", "stage", 
                                              "cas", "promoting", "undo", "close", "revert"}
           /\ op'.pc = "lock" => op.pc \in {"lock", "pendingDb", "dropBackup", "acknowledge", 
                                              "retention", "terminal", "release", "undo", "close", 
                                              "revert", "abortReceipt"}
           /\ op'.pc = "rolled" => op.pc \in {"rolled", "revert", "abortReceipt"}
<1>0. (op.pc \in Pcs /\ op.pc \notin {"idle", "configure", "journals", "settle", "dispositions"}) \/ op'.pc = op.pc
  BY Somewhere, OwnerOfNobody
<1>1. op'.pc = "bind" => op.pc \in {"bind"}
  BY <1>0, Departures DEF Pcs, Stays
<1>2. op'.pc = "prepare" => op.pc \in {"prepare", "bind"}
  BY <1>0, Departures DEF Pcs, Stays
<1>3. op'.pc = "admission" => op.pc \in {"admission", "prepare"}
  BY <1>0, Departures DEF Pcs, Stays
<1>4. op'.pc = "agent" => op.pc \in {"agent", "prepare"}
  BY <1>0, Departures DEF Pcs, Stays
<1>5. op'.pc = "seal" => op.pc \in {"seal", "agent"}
  BY <1>0, Departures DEF Pcs, Stays
<1>6. op'.pc = "verify" => op.pc \in {"verify", "seal"}
  BY <1>0, Departures DEF Pcs, Stays
<1>7. op'.pc = "regenerate" => op.pc \in {"regenerate"}
  BY <1>0, Departures DEF Pcs, Stays
<1>8. op'.pc = "issue" => op.pc \in {"issue", "verify", "regenerate"}
  BY <1>0, Departures DEF Pcs, Stays
<1>9. op'.pc = "claim" => op.pc \in {"claim", "issue"}
  BY <1>0, Departures DEF Pcs, Stays
<1>10. op'.pc = "record" => op.pc \in {"record", "claim"}
  BY <1>0, Departures DEF Pcs, Stays
<1>11. op'.pc = "stage" => op.pc \in {"stage", "claim", "record"}
  BY <1>0, Departures DEF Pcs, Stays
<1>12. op'.pc = "cas" => op.pc \in {"cas", "stage"}
  BY <1>0, Departures DEF Pcs, Stays
<1>13. op'.pc = "consume" => op.pc \in {"consume", "cas"}
  BY <1>0, Departures DEF Pcs, Stays
<1>14. op'.pc = "promoting" => op.pc \in {"promoting", "consume"}
  BY <1>0, Departures DEF Pcs, Stays
<1>15. op'.pc = "vacate" => op.pc \in {"vacate", "promoting"}
  BY <1>0, Departures DEF Pcs, Stays
<1>16. op'.pc = "fill" => op.pc \in {"fill", "vacate"}
  BY <1>0, Departures DEF Pcs, Stays
<1>17. op'.pc = "pendingDb" => op.pc \in {"pendingDb", "fill"}
  BY <1>0, Departures DEF Pcs, Stays
<1>18. op'.pc = "final" => op.pc \in {"final", "pendingDb"}
  BY <1>0, Departures DEF Pcs, Stays
<1>19. op'.pc = "append" => op.pc \in {"append", "pendingDb", "final"}
  BY <1>0, Departures DEF Pcs, Stays
<1>20. op'.pc = "project" => op.pc \in {"project", "append"}
  BY <1>0, Departures DEF Pcs, Stays
<1>21. op'.pc = "dropBackup" => op.pc \in {"dropBackup", "project", "acknowledge", "retention", 
                                              "terminal"}
  BY <1>0, Departures DEF Pcs, Stays
<1>22. op'.pc = "acknowledge" => op.pc \in {"acknowledge", "dropBackup"}
  BY <1>0, Departures DEF Pcs, Stays
<1>23. op'.pc = "retention" => op.pc \in {"retention", "acknowledge"}
  BY <1>0, Departures DEF Pcs, Stays
<1>24. op'.pc = "destroy" => op.pc \in {"destroy", "retention"}
  BY <1>0, Departures DEF Pcs, Stays
<1>25. op'.pc = "terminal" => op.pc \in {"terminal", "retention", "destroy"}
  BY <1>0, Departures DEF Pcs, Stays
<1>26. op'.pc = "release" => op.pc \in {"release", "retention", "terminal"}
  BY <1>0, Departures DEF Pcs, Stays
<1>27. op'.pc = "undo" => op.pc \in {"undo", "fill", "final", "append", "project"}
  BY <1>0, Departures DEF Pcs, Stays
<1>28. op'.pc = "close" => op.pc \in {"close", "consume", "vacate"}
  BY <1>0, Departures DEF Pcs, Stays
<1>29. op'.pc = "revert" => op.pc \in {"revert", "undo"}
  BY <1>0, Departures DEF Pcs, Stays
<1>30. op'.pc = "abortReceipt" => op.pc \in {"abortReceipt", "revert"}
  BY <1>0, Departures DEF Pcs, Stays
<1>31. op'.pc = "reject" => op.pc \in {"reject", "agent", "seal", "verify", "issue", 
                                              "claim", "record", "stage", "cas", "promoting", 
                                              "undo", "close", "abortReceipt"}
  BY <1>0, Departures DEF Pcs, Stays
<1>32. op'.pc = "rejectReceipt" => op.pc \in {"rejectReceipt", "reject"}
  BY <1>0, Departures DEF Pcs, Stays
<1>33. op'.pc = "publish" => op.pc \in {"publish", "admission", "release", "abortReceipt", 
                                              "rejectReceipt"}
  BY <1>0, Departures DEF Pcs, Stays
<1>34. op'.pc = "dispose" => op.pc \in {"dispose", "publish"}
  BY <1>0, Departures DEF Pcs, Stays
<1>35. op'.pc = "withdraw" => op.pc \in {"withdraw", "regenerate", "issue", "claim", "stage", 
                                              "cas", "promoting", "undo", "close", "revert"}
  BY <1>0, Departures DEF Pcs, Stays
<1>36. op'.pc = "lock" => op.pc \in {"lock", "pendingDb", "dropBackup", "acknowledge", 
                                              "retention", "terminal", "release", "undo", "close", 
                                              "revert", "abortReceipt"}
  BY <1>0, Departures DEF Pcs, Stays
<1>37. op'.pc = "rolled" => op.pc \in {"rolled", "revert", "abortReceipt"}
  BY <1>0, Departures DEF Pcs, Stays
<1> QED
  BY <1>1, <1>2, <1>3, <1>4, <1>5, <1>6, <1>7, <1>8, <1>9, <1>10, <1>11, <1>12, <1>13, <1>14, <1>15, <1>16, <1>17, <1>18, <1>19, <1>20, <1>21, <1>22, <1>23, <1>24, <1>25, <1>26, <1>27, <1>28, <1>29, <1>30, <1>31, <1>32, <1>33, <1>34, <1>35, <1>36, <1>37

----------------------------------------------------------------------------
(* The trees an operation works with. *)

\* Most steps are steps of an operation that is there.
LEMMA Carried ==
    ASSUME TypeOK, OpTypes, Knows, PcFits, StateFits, ReceiptsFit, Next, op'.id # None,
           op'.pc \notin {"bind", "regenerate", "terminal", "retention", "revert", "dropBackup", "undo"}
    PROVE  op'.id = op.id /\ op.id # None
<1>1. SUFFICES ASSUME op'.id # op.id PROVE FALSE
  OBVIOUS
<1>2. \/ \E r \in Run : Submit(r) /\ op'.id = r
      \/ \E x \in Rollback : StartRollback(x) /\ op'.id = x
      \/ \E i \in Id : Examine(i) /\ op'.id = i
  BY <1>1, Beginners
<1>3. \A i \in Id : Examine(i) /\ op'.id = i => FALSE
  <2>1. SUFFICES ASSUME NEW i \in Id, Examine(i), op'.id = i PROVE FALSE
    OBVIOUS
  <2>2. op.pc = "journals" /\ op.id = None
    BY <2>1, ExamineBegins, OwnerOfNobody
  <2> QED
    BY <2>1, <2>2, ExamineBegins
<1> QED
  BY <1>2, <1>3, SubmitDoes, StartRollbackDoes DEF Begins

\* The row's bytes stay while a run is on its way to the swap.
LEMMA RowStays ==
    ASSUME TypeOK, OpTypes, Knows, PcFits, StateFits, PermitFits, ReceiptsFit, PublishedFits, Next,
           op'.id # None, op'.pc # "dropBackup"
    PROVE  db'.live = db.live /\ db'.headLive = db.headLive /\ db'.cfg = db.cfg /\ db'.head = db.head
<1>1. op'.pc \notin {"settle", "dispositions"}
  BY PcFitsKept DEF PcFits, OwnerFits, OfNobody
<1> QED
  BY <1>1, ShowTurns DEF Projects, Reprojects, Settles, Configures, Idle

LEMMA RunsBaseKept ==
    ASSUME TypeOK, OpTypes, Knows, PcFits, StateFits, PermitFits, ReceiptsFit, PublishedFits,
           VersionsFit, OpenFits, BackupFits, OpTrees, Next, op'.id \in Run,
           op'.pc \in (Admission \ {"bind"}) \cup Preparation \cup Comparison \cup Swapping \cup Projection
    PROVE  op'.base = db'.live
<1>0. op'.id = op.id /\ op.id # None /\ op.id \in Run /\ op.id \notin Rollback
  BY Carried, Someone DEF Admission, Preparation, Comparison, Swapping, Projection
<1>1. db'.live = db.live
  BY <1>0, RowStays DEF Admission, Preparation, Comparison, Swapping, Projection
<1>2. CASE Bind
  BY <1>1, <1>2, BindDoes
<1>3. CASE op'.base = op.base
  <2>1. op.pc \in Admission \cup Preparation \cup Comparison \cup Swapping \cup Projection \cup {"regenerate"}
    BY <1>0, Comes DEF Admission, Preparation, Comparison, Swapping, Projection
  <2>2. op.pc # "regenerate"
    BY <1>0, OwnerOfRollback
  <2>3. CASE op.pc = "bind"
    <3>1. op'.pc # "bind"
      BY DEF Admission, Preparation, Comparison, Swapping, Projection
    <3>2. Bind
      <4>1. op'.pc = "prepare"
        BY <1>0, <2>3, <3>1, Departures DEF Stays
      <4> QED
        BY <2>3, <4>1, Arrivals DEF Stays
    <3> QED
      BY <1>2, <3>2
  <2>4. CASE op.pc # "bind"
    BY <1>0, <1>1, <1>3, <2>1, <2>2, <2>4 DEF OpTrees
  <2> QED
    BY <2>3, <2>4
<1>4. CASE Regenerate
  BY <1>0, <1>4, RegenerateDoes, OwnerOfRollback
<1> QED
  BY <1>0, <1>2, <1>3, <1>4, Carries

LEMMA RunsTreeKept ==
    ASSUME TypeOK, OpTypes, Knows, PcFits, StateFits, PermitFits, ReceiptsFit, PublishedFits,
           VersionsFit, OpenFits, BackupFits, OpTrees, Next, op'.id \in Run,
           op'.pc \in {"seal", "verify"} \cup Preparation \cup Comparison \cup Swapping \cup Projection
    PROVE  op'.tree # None /\ op'.tree.p = op'.base.p /\ op'.tree.v \in {op'.id, op'.base.v}
<1>0. op'.id = op.id /\ op.id # None /\ op.id \in Run /\ op.id \notin Rollback
  BY Carried, Someone DEF Admission, Preparation, Comparison, Swapping, Projection
<1>1. CASE RunAgent
  <2>1. op.pc = "agent" /\ op'.base = op.base
    BY <1>1, RunAgentDoes
  <2>2. op.base \in Tree
    <3>1. op.base = db.live
      BY <1>0, <2>1 DEF OpTrees, Admission
    <3> QED
      BY <3>1 DEF TypeOK, Rows
  <2>3. PICK v \in {op.id, op.base.v} : op'.tree = [op.base EXCEPT !.v = v]
    BY <1>1, RunAgentDoes
  <2>4. v \in Content
    BY <1>0, <2>2 DEF Content, Tree
  <2>5. op'.tree \in Tree /\ op'.tree.v = v /\ op'.tree.p = op.base.p
    BY <2>2, <2>3, <2>4 DEF Tree
  <2> QED
    BY <1>0, <2>1, <2>3, <2>5, TreeIs
<1>2. CASE op'.tree = op.tree /\ ~RunAgent
  <2>1. op.pc \in {"seal", "verify", "agent"} \cup Preparation \cup Comparison \cup Swapping \cup Projection
          \cup {"regenerate"}
    BY <1>0, Comes DEF Admission, Preparation, Comparison, Swapping, Projection
  <2>2. op.pc # "regenerate" /\ ~Regenerate /\ ~Bind
    BY <1>0, <2>1, OwnerOfRollback, RegenerateDoes, BindDoes DEF Preparation, Comparison, Swapping, Projection
  <2>3. op.pc # "agent"
    BY <1>0, <1>2, Arrivals, Departures DEF Stays, Preparation, Comparison, Swapping, Projection
  <2>4. op'.base = op.base
    BY <1>0, <2>2, Carries
  <2> QED
    BY <1>0, <1>2, <2>1, <2>2, <2>3, <2>4 DEF OpTrees
<1> QED
  BY <1>0, <1>1, <1>2, Carries

LEMMA RollbacksTreeKept ==
    ASSUME TypeOK, OpTypes, Knows, PcFits, StateFits, PermitFits, ReceiptsFit, PublishedFits,
           VersionsFit, OpenFits, BackupFits, OpTrees, TypeOK', Next, op'.id \in Rollback,
           op'.pc \in {"regenerate"} \cup Preparation \cup Comparison \cup Swapping \cup Projection
    PROVE  /\ op'.tree # None /\ op'.tree.p = db'.cfg
           /\ \E k \in DOMAIN versions' : versions'[k].v = op'.tree.v /\ versions'[k].id # op'.id
<1>0. op'.id \in Id /\ op'.id # None /\ op'.id \notin Run
  BY Someone DEF Id
<1>1. db'.cfg = db.cfg
  BY <1>0, RowStays DEF Preparation, Comparison, Swapping, Projection
<1>2. ASSUME NEW k \in DOMAIN versions
      PROVE  k \in DOMAIN versions' /\ versions'[k] = versions[k]
  <2>1. CASE versions' = versions
    BY <1>2, <2>1
  <2>2. CASE Appended
    <3>1. k \in 1..Len(versions) /\ Len(versions) \in Nat /\ versions' \in Seq(Versions)
      BY <1>2, IndexTyped DEF TypeOK
    <3>2. Len(versions') = Len(versions) + 1 /\ versions'[k] = versions[k]
      BY <2>2, <3>1 DEF Appended
    <3> QED
      BY <3>1, <3>2
  <2>3. ~Reverted
    BY DEF Reverted, Preparation, Comparison, Swapping, Projection
  <2> QED
    BY <2>1, <2>2, <2>3, IndexTurns
<1>3. CASE op'.id = op.id
  <2>1. op.pc \in {"regenerate"} \cup Preparation \cup Comparison \cup Swapping \cup Projection \cup {"verify"}
    BY <1>0, <1>3, Comes DEF Preparation, Comparison, Swapping, Projection
  <2>2. op.pc # "verify"
    BY <1>0, <1>3, OwnerOfRun
  <2>3. op'.tree = op.tree
    BY <1>0, <1>3, Carries, RunAgentDoes, OwnerOfRun
  <2>4. /\ op.tree # None /\ op.tree.p = db.cfg
        /\ \E k \in DOMAIN versions : versions[k].v = op.tree.v /\ versions[k].id # op.id
    BY <1>3, <2>1, <2>2 DEF OpTrees
  <2> QED
    BY <1>1, <1>2, <1>3, <2>3, <2>4
<1>4. CASE op'.id # op.id
  <2>1. PICK x \in Rollback : StartRollback(x) /\ op'.id = x
    <3>1. op'.pc \notin {"terminal", "retention", "revert", "dropBackup", "undo", "bind"}
      BY DEF Preparation, Comparison, Swapping, Projection
    <3>2. \A i \in Id : Examine(i) => op.pc = "journals"
      BY ExamineBegins
    <3>3. op.pc = "journals" => op.id = None
      BY OwnerOfNobody
    <3> QED
      BY <1>0, <1>4, <3>1, <3>2, <3>3, Beginners, SubmitDoes, ExamineBegins DEF Begins
  <2>2. PICK k \in DOMAIN versions : op'.tree = [v |-> versions[k].v, p |-> db.cfg]
    BY <2>1, StartRollbackDoes
  <2>3. State(x) = "NONE"
    BY <2>1, StartRollbackDoes, Unstarted DEF Id
  <2>4. versions[k].id # x
    BY <2>2, <2>3 DEF VersionsFit, Committed, Id
  <2>5. op'.tree \in Tree /\ op'.tree.p = db.cfg /\ op'.tree.v = versions[k].v
    <3>1. versions[k].v \in Content /\ db.cfg \in 0..MaxConfigs
      BY <2>2, VersionTyped DEF TypeOK, Rows
    <3> QED
      BY <2>2, <3>1 DEF Tree
  <2> QED
    BY <1>1, <1>2, <2>1, <2>2, <2>4, <2>5, TreeIs
<1> QED
  BY <1>3, <1>4

----------------------------------------------------------------------------
(* ... and those of its journal and receipt. *)

LEMMA RollbacksBaseKept ==
    ASSUME TypeOK, OpTypes, Knows, PcFits, StateFits, PermitFits, ReceiptsFit, PublishedFits,
           VersionsFit, OpenFits, BackupFits, OpTrees, TreesFit, TypeOK', VersionsFit', Next,
           op'.id \in Rollback,
           op'.pc \in Preparation \cup Comparison \cup Swapping \cup Projection
    PROVE  op'.base.p = db'.cfg /\ Holds(op'.base, AcceptedHead'.v)
<1>0. op'.id = op.id /\ op.id # None /\ op.id \in Rollback /\ op.id \in Id /\ op.id \notin Run
  BY Carried, Someone DEF Preparation, Comparison, Swapping, Projection, Id
<1>1. db'.cfg = db.cfg
  BY <1>0, RowStays DEF Preparation, Comparison, Swapping, Projection
<1>2. AcceptedHead' = AcceptedHead
  BY HeadTurns DEF Preparation, Comparison, Swapping, Projection
<1>3. CASE Regenerate
  <2>1. op.pc = "regenerate" /\ op'.base = [ws EXCEPT !.p = db.cfg] /\ up = "up"
    BY <1>3, RegenerateDoes, InRun DEF InRecovery
  <2>2. ws \in Tree
    BY <2>1, WorkspaceThere
  <2>3. op'.base \in Tree /\ op'.base.p = db.cfg /\ op'.base.v = ws.v
    <3>1. db.cfg \in 0..MaxConfigs
      BY DEF TypeOK, Rows
    <3> QED
      BY <2>1, <2>2, <3>1 DEF Tree
  <2>4. \A i \in Id : ~InSwap(i)
    <3>1. SUFFICES ASSUME NEW i \in Id, InSwap(i) PROVE FALSE
      OBVIOUS
    <3>2. i = op.id
      BY <1>0, <2>1, <3>1, OnlyOneOpen DEF Open
    <3>3. State(op.id) = "NONE"
      BY <2>1 DEF StateFits
    <3> QED
      BY <3>1, <3>2, <3>3, SwapState
  <2>5. Holds(ws, AcceptedHead.v)
    BY <2>4 DEF TreesFit
  <2> QED
    BY <1>1, <1>2, <2>3, <2>5, TreeIs DEF Holds
<1>4. CASE ~Regenerate
  <2>1. ~Bind
    BY <1>0, BindDoes, OwnerOfRun
  <2>2. op'.base = op.base
    BY <1>0, <1>4, <2>1, Carries
  <2>3. op.pc \in Preparation \cup Comparison \cup Swapping \cup Projection \cup {"verify", "regenerate"}
    BY <1>0, Comes DEF Preparation, Comparison, Swapping, Projection
  <2>4. op.pc \notin {"verify", "regenerate"}
    <3>1. op.pc # "verify"
      BY <1>0, OwnerOfRun
    <3>2. op.pc = "regenerate" => op'.pc = "issue"
      BY <1>0, Departures DEF Stays, Preparation, Comparison, Swapping, Projection
    <3>3. op.pc = "regenerate" => FALSE
      BY <1>0, <1>4, <3>2, Arrivals, VerifyDoes DEF Stays
    <3> QED
      BY <3>1, <3>3
  <2> QED
    BY <1>0, <1>1, <1>2, <2>2, <2>3, <2>4 DEF OpTrees
<1> QED
  BY <1>3, <1>4

LEMMA JournalTreesKept ==
    ASSUME TypeOK, OpTypes, Knows, PcFits, StateFits, PermitFits, ReceiptsFit, PublishedFits,
           VersionsFit, OpenFits, BackupFits, OpTrees, Next, NEW i \in Id, op'.id = i,
           op'.pc \in Comparison \cup Swapping \cup Projection
    PROVE  journal'[i].base = op'.base /\ journal'[i].target = op'.tree
<1>0. op.id = i /\ i # None
  BY Carried, Someone DEF Comparison, Swapping, Projection
<1>1. op.pc \in {"stage"} \cup Comparison \cup Swapping \cup Projection
  BY <1>0, Comes DEF Comparison, Swapping, Projection
<1>2. op'.base = op.base /\ op'.tree = op.tree
  BY <1>0, <1>1, Carries, BindDoes, RegenerateDoes, RunAgentDoes DEF Comparison, Swapping, Projection
<1>3. CASE op.pc = "stage"
  <2>1. Stage
    <3>1. op'.pc = "cas"
      BY <1>0, <1>3, Departures DEF Stays, Comparison, Swapping, Projection
    <3> QED
      BY <1>3, <3>1, Arrivals DEF Stays
  <2> QED
    BY <1>0, <1>2, <2>1, Staged
<1>4. CASE op.pc \in Comparison \cup Swapping \cup Projection
  <2>1. State(i) # "NONE"
    BY <1>0, <1>4 DEF StateFits
  <2> QED
    BY <1>0, <1>2, <1>4, <2>1, StatesTurn DEF OpTrees
<1> QED
  BY <1>1, <1>3, <1>4

LEMMA BaseInPlaceKept ==
    ASSUME TypeOK, OpTypes, Knows, PcFits, StateFits, PermitFits, ReceiptsFit, PublishedFits,
           VersionsFit, OpenFits, BackupFits, OpTrees, Next, PcFits',
           op'.pc \in Preparation \cup Comparison \cup {"vacate", "close"}
    PROVE  Near(ws', op'.base)
<1>0. op.id = op'.id /\ op.id # None
  BY Carried DEF PcFits, OwnerFits, OfNobody, Preparation, Comparison
<1>1. op.pc \in Preparation \cup Comparison \cup {"verify", "regenerate", "vacate", "close"}
  BY <1>0, Comes DEF Preparation, Comparison
<1>2. op.pc # "regenerate" => op'.base = op.base
  BY <1>0, <1>1, Carries, BindDoes, RegenerateDoes DEF Preparation, Comparison
<1>3. CASE op.pc = "verify"
  <2>1. op'.pc = "issue"
    BY <1>0, <1>3, Departures DEF Stays, Preparation, Comparison
  <2>2. Verify
    BY <1>3, <2>1, Arrivals, RegenerateDoes DEF Stays
  <2>3. ws = op.base /\ ws' = ws
    BY <2>1, <2>2, VerifyDoes DEF Moves, Becomes
  <2>4. ws # None
    BY <1>3, WorkspaceThere DEF Admission
  <2> QED
    BY <1>2, <1>3, <2>3, <2>4 DEF Near
<1>4. CASE op.pc = "regenerate"
  <2>1. op'.pc = "issue"
    BY <1>0, <1>4, Departures DEF Stays, Preparation, Comparison
  <2>2. Regenerate
    BY <1>4, <2>1, Arrivals, VerifyDoes DEF Stays
  <2>3. ws' = op'.base
    BY <2>2, RegenerateDoes
  <2>4. ws \in Tree /\ db.cfg \in 0..MaxConfigs /\ ws' = [ws EXCEPT !.p = db.cfg]
    BY <1>4, <2>2, WorkspaceThere, RegenerateDoes DEF TypeOK, Rows
  <2>5. ws' \in Tree
    BY <2>4 DEF Tree
  <2> QED
    BY <2>3, <2>5, TreeIs DEF Near
<1>5. CASE op.pc \in Preparation \cup Comparison \cup {"vacate", "close"}
  <2>1. Near(ws, op.base)
    BY <1>5 DEF OpTrees
  <2>2. ~Renders /\ ~Exchanges
    BY <1>0, <1>5 DEF Renders, Exchanges, Idle, Preparation, Comparison
  <2>3. op.pc # "regenerate"
    BY <1>5 DEF Preparation, Comparison
  <2> QED
    BY <1>2, <2>1, <2>2, <2>3, WorkspaceTurns DEF Near, Edits
<1> QED
  BY <1>1, <1>3, <1>4, <1>5

LEMMA TargetInPlaceKept ==
    ASSUME TypeOK, OpTypes, Knows, PcFits, StateFits, PermitFits, ReceiptsFit, PublishedFits,
           VersionsFit, OpenFits, BackupFits, OpTrees, Next, PcFits',
           op'.pc \in {"pendingDb"} \cup Projection
    PROVE  Near(ws', op'.tree)
<1>0. op.id = op'.id /\ op.id # None
  BY Carried DEF PcFits, OwnerFits, OfNobody, Projection
<1>1. op.pc \in {"fill", "pendingDb"} \cup Projection
  BY <1>0, Comes DEF Projection
<1>2. op'.tree = op.tree
  BY <1>0, <1>1, Carries, RunAgentDoes DEF Projection
<1>3. CASE op.pc = "fill"
  <2>1. op'.pc = "pendingDb"
    BY <1>0, <1>3, Departures DEF Stays, Projection
  <2>2. Fill
    BY <1>3, <2>1, Arrivals DEF Stays
  <2>3. ws' = journal[op.id].target
    BY <2>2, FillDoes
  <2>4. journal[op.id].target = op.tree /\ op.tree # None
    BY <1>0, <1>3 DEF OpTrees, Swapping, Knows
  <2> QED
    BY <1>2, <2>3, <2>4 DEF Near
<1>4. CASE op.pc \in {"pendingDb"} \cup Projection
  <2>1. Near(ws, op.tree)
    BY <1>4 DEF OpTrees
  <2>2. ~Renders /\ ~Exchanges
    BY <1>0, <1>4 DEF Renders, Exchanges, Idle, Projection
  <2> QED
    BY <1>2, <2>1, <2>2, WorkspaceTurns DEF Near, Edits
<1> QED
  BY <1>1, <1>3, <1>4

LEMMA ReceiptTreesKept ==
    ASSUME TypeOK, OpTypes, Knows, PcFits, StateFits, PermitFits, ReceiptsFit, PublishedFits,
           VersionsFit, OpenFits, BackupFits, OpTrees, Next, NEW r \in Run, op'.id = r
    PROVE  /\ op'.pc \in {"stage"} \cup Comparison \cup Swapping =>
                 receipt'[r].base = op'.base /\ receipt'[r].final = op'.tree
           /\ op'.pc \in Projection => Near(receipt'[r].final, op'.tree)
<1>1. SUFFICES ASSUME op'.pc \in {"stage"} \cup Comparison \cup Swapping \cup Projection
               PROVE  /\ op'.pc \in {"stage"} \cup Comparison \cup Swapping =>
                            receipt'[r].base = op'.base /\ receipt'[r].final = op'.tree
                      /\ op'.pc \in Projection => Near(receipt'[r].final, op'.tree)
  OBVIOUS
<1>0. op.id = r /\ r # None /\ r \notin Rollback /\ r \in Id
  BY <1>1, Carried, Someone DEF Comparison, Swapping, Projection, Id
<1>2. op.pc \in {"claim", "record", "stage"} \cup Comparison \cup Swapping \cup Projection
  BY <1>0, <1>1, Comes DEF Comparison, Swapping, Projection
<1>3. op'.base = op.base /\ op'.tree = op.tree
  BY <1>0, <1>2, Carries, BindDoes, RegenerateDoes, RunAgentDoes DEF Comparison, Swapping, Projection
<1>4. op.pc # "claim"
  <2>1. op.pc = "claim" => op'.pc = "stage"
    BY <1>0, <1>1, Departures DEF Stays, Comparison, Swapping, Projection
  <2> QED
    BY <1>0, <2>1, Arrivals, ClaimDoes, RecordPromotionDoes DEF Stays, Moves, Becomes
<1>5. CASE op.pc = "record"
  <2>1. op'.pc = "stage"
    BY <1>0, <1>1, <1>5, Departures DEF Stays, Comparison, Swapping, Projection
  <2>2. RecordPromotion
    BY <1>5, <2>1, Arrivals, ClaimDoes DEF Stays
  <2> QED
    BY <1>0, <1>3, <2>1, <2>2, RecordPromotionWrites DEF ReceiptSet, Projection
<1>6. CASE op.pc = "final"
  <2>1. op'.pc \in {"final", "append"}
    BY <1>0, <1>1, <1>6, Departures DEF Stays, Comparison, Swapping, Projection
  <2>2. CASE RecordFinal
    <3>1. receipt'[r].final = ws
      BY <1>0, <2>2, RecordFinalWrites DEF ReceiptSet
    <3>2. Near(ws, op.tree)
      BY <1>6 DEF OpTrees, Projection
    <3> QED
      BY <1>3, <2>1, <3>1, <3>2 DEF Comparison, Swapping
  <2>3. CASE ~RecordFinal
    <3>1. op'.pc = "final"
      BY <1>6, <2>1, <2>3, Arrivals, PendingDatabaseDoes DEF Stays
    <3>2. receipt' = receipt
      BY <1>0, <1>6, <2>3, Writers, RecordAdmissionFailureDoes, RejectReceiptDoes, DisposeDoes, RecordPromotionDoes,
         TerminalReceiptDoes, AbortReceiptDoes, ScanReceiptDoes, DisposeAtStartupDoes
    <3> QED
      BY <1>0, <1>3, <1>6, <3>1, <3>2 DEF OpTrees, Projection, Comparison, Swapping
  <2> QED
    BY <2>2, <2>3
<1>7. CASE op.pc \in {"stage", "append", "project"} \cup Comparison \cup Swapping
  <2>1. receipt' = receipt
    BY <1>7, Quiet DEF Comparison, Swapping
  <2>2. op.pc \in {"append", "project"} => op'.pc \in Projection
    BY <1>0, <1>1, Departures DEF Stays, Comparison, Swapping, Projection
  <2>3. op.pc \in {"append", "project"} => Near(receipt[r].final, op.tree)
    BY <1>0 DEF OpTrees, Projection
  <2>4. op.pc \in {"stage"} \cup Comparison \cup Swapping =>
           receipt[r].base = op.base /\ receipt[r].final = op.tree /\ op.tree # None
    BY <1>0 DEF OpTrees, Preparation
  <2> QED
    BY <1>3, <1>7, <2>1, <2>2, <2>3, <2>4 DEF Near, Comparison, Swapping, Projection
<1> QED
  BY <1>2, <1>4, <1>5, <1>6, <1>7 DEF Projection

LEMMA ConfiguringKept ==
    ASSUME TypeOK, OpTypes, Knows, PcFits, StateFits, PermitFits, ReceiptsFit, PublishedFits,
           VersionsFit, OpenFits, BackupFits, OpTrees, Next, op'.pc = "configure"
    PROVE  ws' # None /\ ws'.p = db'.cfg + 1 /\ ws'.p \in 0..MaxConfigs
<1>1. CASE Configure
  <2>1. op = Idle /\ op.pc = "idle"
    BY <1>1, ConfigureDoes DEF Idle
  <2>2. ws' = [ws EXCEPT !.p = db.cfg + 1] /\ db.cfg < MaxConfigs /\ db' = db
    BY <1>1 DEF Configure, dbVars
  <2>3. ws \in Tree
    BY <1>1, <2>1, ConfigureDoes, WorkspaceThere
  <2>4. db.cfg + 1 \in 0..MaxConfigs
    BY <2>2, GateAssumption DEF TypeOK, Rows
  <2>5. ws' \in Tree /\ ws'.p = db.cfg + 1
    BY <2>2, <2>3, <2>4 DEF Tree
  <2> QED
    BY <2>2, <2>4, <2>5, TreeIs
<1>2. CASE op.pc = "configure"
  <2>1. ws # None /\ ws.p = db.cfg + 1 /\ ws.p \in 0..MaxConfigs
    BY <1>2 DEF OpTrees
  <2>2. ws' = ws \/ Edits
    BY <1>2, WorkspaceTurns DEF Renders, Exchanges, Idle
  <2>3. db'.cfg = db.cfg
    BY <1>2, ShowTurns DEF Projects, Reprojects, Settles, Configures, Idle
  <2> QED
    BY <2>1, <2>2, <2>3 DEF Edits
<1> QED
  BY <1>1, <1>2, Arrivals DEF Stays

LEMMA OpTreesKept ==
    ASSUME TypeOK, OpTypes, Knows, PcFits, StateFits, PermitFits, ReceiptsFit, PublishedFits,
           VersionsFit, OpenFits, BackupFits, OpTrees, TreesFit, TypeOK', VersionsFit', PcFits', Next
    PROVE  OpTrees'
<1>0. op'.id # None => op'.id \in Id
  BY DEF TypeOK
<1>1. /\ op'.id \in Run /\ op'.pc \in (Admission \ {"bind"}) \cup Preparation \cup Comparison \cup Swapping \cup Projection =>
           op'.base = db'.live
      /\ op'.id \in Run /\ op'.pc \in {"seal", "verify"} \cup Preparation \cup Comparison \cup Swapping \cup Projection =>
           op'.tree # None /\ op'.tree.p = op'.base.p /\ op'.tree.v \in {op'.id, op'.base.v}
  BY RunsBaseKept, RunsTreeKept
<1>2. op'.id \in Rollback /\ op'.pc \in {"regenerate"} \cup Preparation \cup Comparison \cup Swapping \cup Projection =>
         /\ op'.tree # None /\ op'.tree.p = db'.cfg
         /\ \E k \in DOMAIN versions' : versions'[k].v = op'.tree.v /\ versions'[k].id # op'.id
  BY RollbacksTreeKept
<1>3. op'.id \in Rollback /\ op'.pc \in Preparation \cup Comparison \cup Swapping \cup Projection =>
         op'.base.p = db'.cfg /\ Holds(op.base, AcceptedHead.v)'
  BY RollbacksBaseKept DEF Holds
<1>4. op'.id # None /\ op'.pc \in Comparison \cup Swapping \cup Projection =>
         journal'[op'.id].base = op'.base /\ journal'[op'.id].target = op'.tree
  BY <1>0, JournalTreesKept
<1>5. /\ op'.pc \in Preparation \cup Comparison \cup {"vacate", "close"} => Near(ws, op.base)'
      /\ op'.pc \in {"pendingDb"} \cup Projection => Near(ws, op.tree)'
  BY BaseInPlaceKept, TargetInPlaceKept DEF Near
<1>6. /\ op'.id \in Run /\ op'.pc \in {"stage"} \cup Comparison \cup Swapping =>
           receipt'[op'.id].base = op'.base /\ receipt'[op'.id].final = op'.tree
      /\ op'.id \in Run /\ op'.pc \in Projection => Near(receipt[op.id].final, op.tree)'
  BY ReceiptTreesKept DEF Near
<1>7. op'.pc = "configure" => ws' # None /\ ws'.p = db'.cfg + 1 /\ ws'.p \in 0..MaxConfigs
  BY ConfiguringKept
<1> QED
  BY <1>1, <1>2, <1>3, <1>4, <1>5, <1>6, <1>7 DEF OpTrees

----------------------------------------------------------------------------
(* The head is in place when nothing is being exchanged. *)

\* An operation that holds nothing open finds nothing open.
LEMMA ClosedAlone ==
    ASSUME TypeOK, PcFits, OpenFits, up = "up", op.pc # "idle", op.id = None \/ ~Open(op.id),
           NEW i \in Id
    PROVE  ~Open(i)
<1>1. op # Idle
  BY DEF Idle
<1>2. i # None
  BY Someone
<1> QED
  BY <1>1, <1>2 DEF OpenFits, AwaitsRecovery

\* ... and the row has the accepted head then.
LEMMA CalmHead ==
    ASSUME TypeOK, PcFits, VersionsFit, OpenFits, ShownFits, HeadFits, up = "up", op.pc # "idle",
           \A i \in Id : ~Open(i)
    PROVE  AcceptedHead = Latest /\ db.head = Latest.id
<1>1. Latest.id = Initial \/ (Latest.id \in Id /\ State(Latest.id) = "ACKNOWLEDGED")
  BY LatestCommitted, PendingIsOpen
<1>2. AcceptedHead = Latest
  BY <1>1, AcceptedHeadIs
<1>3. Len(versions) > 1 => Latest.id # Initial
  <2>1. Len(versions) \in Nat /\ DOMAIN versions = 1..Len(versions)
    BY IndexTyped
  <2> QED
    BY <2>1 DEF VersionsFit, Latest
<1>4. ~(db.head \in Id /\ Orphaned(db.head))
  <2>1. SUFFICES ASSUME NEW i \in Id, db.head = i, Orphaned(i) PROVE FALSE
    OBVIOUS
  <2>2. AwaitsRecovery(i)
    BY <2>1 DEF ShownFits, Shown
  <2> QED
    BY <2>2 DEF AwaitsRecovery, Idle
<1> QED
  BY <1>1, <1>2, <1>3, <1>4 DEF HeadFits

\* Where a swap is open, its operation is the one in progress at these steps.
LEMMA SwapsOwner ==
    ASSUME TypeOK, PcFits, StateFits, OpenFits, NEW i \in Id, Open(i),
           op.pc \in Swapping \cup Projection \cup {"undo"}
    PROVE  op.id = i /\ InSwap(i)
<1>1. op.id \in Id
  BY Owner DEF Swapping, Projection
<1>2. InSwap(op.id)
  BY SwapState DEF StateFits
<1> QED
  BY <1>1, <1>2 DEF OpenFits, Open

\* While a swap is open, nobody renders AGENTS.md.
LEMMA NotRendered ==
    ASSUME TypeOK, PcFits, StateFits, OpenFits, NEW i \in Id, Open(i)
    PROVE  ~Renders
<1>1. SUFFICES ASSUME Renders PROVE FALSE
  OBVIOUS
<1>2. op.pc \in {"regenerate", "configure"} \/ (op = Idle /\ up = "up" /\ ~db.locked /\ ~reserved)
  BY <1>1 DEF Renders
<1>3. CASE op.pc = "regenerate"
  <2>1. up = "up" /\ op.id \in Rollback /\ op.id \notin Run /\ op.id \in Id /\ op.id # None
    BY <1>3, InRun, OwnerOfRollback DEF InRecovery
  <2>2. State(op.id) = "NONE"
    BY <1>3 DEF StateFits
  <2>3. ~Open(op.id)
    BY <2>1, <2>2, SwapState DEF Open, Undecided, Announced
  <2> QED
    BY <1>3, <2>1, <2>3, ClosedAlone
<1>4. CASE op.pc = "configure"
  <2>1. up = "up" /\ op.id = None
    BY <1>4, InRun, OwnerOfNobody DEF InRecovery
  <2> QED
    BY <1>4, <2>1, ClosedAlone
<1>5. CASE op = Idle /\ up = "up" /\ ~db.locked /\ ~reserved
  <2>1. op.id = None /\ i # None
    BY <1>5, Someone DEF Idle
  <2> QED
    BY <1>5, <2>1 DEF OpenFits, AwaitsRecovery
<1> QED
  BY <1>2, <1>3, <1>4, <1>5

LEMMA HeadInPlaceKept ==
    ASSUME TypeOK, OpTypes, Knows, PcFits, StateFits, PermitFits, ReceiptsFit, PublishedFits,
           VersionsFit, OpenFits, BackupFits, ShownFits, OpTrees, TreesFit, TypeOK', VersionsFit', Next,
           \A i \in Id : ~InSwap(i)'
    PROVE  Holds(ws', AcceptedHead'.v)
<1>1. CASE \A i \in Id : ~InSwap(i)
  <2>1. op.pc \notin {"vacate", "fill", "undo"}
    BY <1>1, Owner, SwapState DEF StateFits, Swapping
  <2>2. AcceptedHead' = AcceptedHead
    <3>1. op.pc = "acknowledge" => op.id \in Id
      BY Owner
    <3> QED
      BY <1>1, <3>1, HeadTurns, SwapState
  <2>3. Holds(ws, AcceptedHead.v)
    BY <1>1 DEF TreesFit
  <2>4. ws' = ws \/ Edits \/ Renders
    BY <2>1, WorkspaceTurns DEF Exchanges
  <2> QED
    BY <2>2, <2>3, <2>4 DEF Holds, Edits, Renders
<1>2. ASSUME NEW i \in Id, InSwap(i) PROVE Holds(ws', AcceptedHead'.v)
  <2>1. op.id = i /\ StateTurns(i) /\ ~InSwap(i)' /\ op' # op
    <3>1. ~InSwap(i)'
      OBVIOUS
    <3>2. op.id = i /\ StateTurns(i)
      BY <1>2, <3>1, StatesTurn, SwapState
    <3> QED
      BY <3>1, <3>2, SwapState, <1>2 DEF StateTurns, Knows
  <2>2. op.pc \in {"acknowledge", "close", "undo"}
    BY <1>2, <2>1, SwapState DEF StateTurns
  <2>3. ws' = ws \/ (ws # None /\ ws' # None /\ ws'.v = Edited)
    BY <2>1, <2>2, WorkspaceTurns DEF Edits, Renders, Exchanges, Idle
  <2>4. CASE op.pc = "acknowledge"
    <3>1. versions' = versions /\ Latest' = Latest
      BY <2>4, Quiet DEF Latest
    <3>2. Committed(i) /\ State(i) # "ACKNOWLEDGED"
      <4>1. i # None
        BY Someone
      <4> QED
        BY <1>2, <2>1, <2>4, <4>1, SwapState DEF VersionsFit, Acknowledgement
    <3>3. Latest.id = i
      BY <3>2, PendingIsLatest
    <3>4. StateAfter(i) = "ACKNOWLEDGED"
      BY <2>1, <2>4 DEF StateTurns, StateAfter, State
    <3>5. AcceptedHead' = Latest
      BY <3>1, <3>3, <3>4, AcceptedHeadIsNext
    <3>6. Holds(ws, Latest.v)
      BY <2>4 DEF TreesFit, Acknowledgement
    <3> QED
      BY <2>3, <3>5, <3>6 DEF Holds
  <2>5. CASE op.pc \in {"close", "undo"}
    <3>1. AcceptedHead' = AcceptedHead
      BY <2>5, HeadTurns
    <3>2. Holds(journal[i].base, AcceptedHead.v) /\ Places(i)
      BY <1>2 DEF TreesFit
    <3>3. op.pc = "undo" => ws = journal[i].base
      BY <2>1 DEF StateTurns
    <3>4. op.pc = "close" => Near(ws, journal[i].base)
      <4>1. SUFFICES ASSUME op.pc = "close" PROVE Near(ws, journal[i].base)
        OBVIOUS
      <4>2. backup[i] = None /\ ws # None
        BY <2>1, <4>1 DEF BackupFits
      <4>3. db.head # i
        <5>1. up = "up" /\ op.id # None
          BY <4>1, InRun, Owner DEF InRecovery
        <5> QED
          BY <2>1, <4>1, <5>1 DEF ShownFits, Shown, Acknowledgement, Cleanup
      <4> QED
        BY <3>2, <4>2, <4>3 DEF Places, Near
    <3>5. Holds(ws, AcceptedHead.v)
      BY <2>5, <3>2, <3>3, <3>4 DEF Holds, Near
    <3> QED
      BY <2>3, <3>1, <3>5 DEF Holds
  <2> QED
    BY <2>2, <2>4, <2>5
<1> QED
  BY <1>1, <1>2

----------------------------------------------------------------------------
(* Where the trees of a swap are. *)

\* A swap opens where nothing else is open, ...
LEMMA SwapOpens ==
    ASSUME TypeOK, OpTypes, Knows, PcFits, StateFits, PermitFits, ReceiptsFit, PublishedFits,
           VersionsFit, OpenFits, BackupFits, ShownFits, HeadFits, OpTrees, Next,
           NEW i \in Id, ~InSwap(i), InSwap(i)'
    PROVE  /\ op.pc = "promoting" /\ op'.pc = "vacate" /\ op.id = i /\ op'.id = i /\ up = "up"
           /\ State(i) = "PREPARING" /\ State(i)' = "PROMOTING"
           /\ journal'[i].base = journal[i].base /\ journal'[i].target = journal[i].target
           /\ journal[i].base = op.base /\ journal[i].target = op.tree /\ Near(ws, op.base)
           /\ AcceptedHead = Latest /\ db.head = Latest.id
           /\ \A j \in Id : ~Open(j)
           /\ ws' = ws /\ backup' = backup /\ backup[i] = None /\ versions' = versions /\ receipt' = receipt
           /\ db' = db /\ db.head # i /\ ~Committed(i)
<1>1. op.id = i /\ op'.id = i /\ StateTurns(i)
  BY StatesTurn, SwapState
<1>2. op.pc = "promoting" /\ op'.pc = "vacate" /\ State(i) = "PREPARING" /\ State(i)' = "PROMOTING"
  BY <1>1, SwapState DEF StateTurns
<1>3. up = "up" /\ i # None
  BY <1>2, InRun, Someone DEF InRecovery
<1>4. ~Open(i)
  BY <1>2 DEF Open, Undecided, Announced
<1>5. \A j \in Id : ~Open(j)
  BY <1>1, <1>2, <1>3, <1>4, ClosedAlone
<1>6. AcceptedHead = Latest /\ db.head = Latest.id
  BY <1>2, <1>3, <1>5, CalmHead
<1>7. /\ journal'[i].base = journal[i].base /\ journal'[i].target = journal[i].target
      /\ journal[i].base = op.base /\ journal[i].target = op.tree /\ Near(ws, op.base)
  BY <1>1, <1>2, <1>3, StatesTurn DEF OpTrees, Comparison
<1>8. backup' = backup /\ versions' = versions /\ receipt' = receipt /\ db' = db
  BY <1>2, Quiet
<1>9. ws' = ws
  BY <1>2, WorkspaceTurns DEF Edits, Renders, Exchanges, Idle
<1>10. backup[i] = None
  BY DEF BackupFits
<1>11. db.head # i
  BY <1>1, <1>2, <1>3 DEF ShownFits, Shown, Acknowledgement, Cleanup
<1>12. ~Committed(i)
  BY <1>2 DEF VersionsFit
<1> QED
  BY <1>1, <1>2, <1>3, <1>5, <1>6, <1>7, <1>8, <1>9, <1>10, <1>11, <1>12

\* ... and while it goes on, only its own version is projected.
LEMMA SwapGoesOn ==
    ASSUME TypeOK, OpTypes, Knows, PcFits, StateFits, PermitFits, ReceiptsFit, PublishedFits,
           VersionsFit, OpenFits, BackupFits, TypeOK', VersionsFit', Next,
           NEW i \in Id, InSwap(i), InSwap(i)'
    PROVE  /\ AcceptedHead' = AcceptedHead
           /\ journal'[i].base = journal[i].base /\ journal'[i].target = journal[i].target
           /\ ~Renders /\ ~Reprojects /\ ~Configures
           /\ Projects => op.id = i /\ op.pc = "project"
           /\ db.head = i => db'.head = i
           /\ db'.head = i => db.head = i \/ Projects
           /\ ~Projects => db'.head = db.head /\ db'.live = db.live /\ db'.headLive = db.headLive
<1>1. State(i) # "NONE" /\ State(i) # "ACKNOWLEDGED" /\ State(i)' # "ACKNOWLEDGED" /\ Open(i)
  BY SwapState DEF Open
<1>2. AcceptedHead' = AcceptedHead
  <2>1. SUFFICES ASSUME op.pc = "acknowledge", op'.pc = "retention", op'.id = op.id,
                        State(op.id) = "PROMOTED_PENDING_DB"
                 PROVE  FALSE
    BY HeadTurns
  <2>2. op.id \in Id /\ Open(op.id)
    BY <2>1, Owner, SwapState DEF Open
  <2>3. op.id = i
    BY <1>1, <2>2 DEF OpenFits
  <2>4. AcknowledgeJournal
    BY <2>1, Arrivals, ExamineBegins DEF Stays
  <2>5. JournalSet(op.id, "ACKNOWLEDGED")
    BY <2>4, AcknowledgeJournalDoes
  <2> QED
    BY <1>1, <2>1, <2>3, <2>5 DEF JournalSet, State
<1>3. journal'[i].base = journal[i].base /\ journal'[i].target = journal[i].target
  BY <1>1, StatesTurn
<1>4. ~Renders
  BY <1>1, NotRendered
<1>5. ~Reprojects
  <2>1. SUFFICES ASSUME Reprojects PROVE FALSE
    OBVIOUS
  <2>2. op.pc = "journals" /\ startup.todo = {} /\ startup.manual = "no"
    BY <2>1 DEF Reprojects
  <2>3. up = "starting"
    BY <2>2, Recovers
  <2>4. Announced(i)
    BY <1>1, <2>2, <2>3, Decided
  <2> QED
    BY <1>1, <2>4 DEF Announced
<1>6. ~Configures
  <2>1. op.pc = "configure" => up = "up" /\ op.id = None
    BY InRun, OwnerOfNobody DEF InRecovery
  <2> QED
    BY <1>1, <2>1, ClosedAlone DEF Configures
<1>7. Projects => op.id = i /\ op.pc = "project"
  BY <1>1, SwapsOwner DEF Projects, Projection
<1>8. ~Projects => db'.head = db.head /\ db'.live = db.live /\ db'.headLive = db.headLive
  BY <1>5, <1>6, ShowTurns DEF Settles
<1>9. Projects => db'.head = op.id
  BY DEF Projects
<1> QED
  BY <1>2, <1>3, <1>4, <1>5, <1>6, <1>7, <1>8, <1>9

\* Base and target are where they can be found again.
LEMMA PlacesKept ==
    ASSUME TypeOK, OpTypes, Knows, PcFits, StateFits, PermitFits, ReceiptsFit, PublishedFits,
           VersionsFit, OpenFits, BackupFits, ShownFits, HeadFits, OpTrees, TreesFit,
           TypeOK', VersionsFit', Next, NEW i \in Id, InSwap(i)'
    PROVE  Places(i)'
<1>0. i # None
  BY Someone
<1>1. CASE ~InSwap(i)
  BY <1>1, SwapOpens DEF Places, Near
<1>2. CASE InSwap(i)
  <2>1. /\ journal'[i].base = journal[i].base /\ journal'[i].target = journal[i].target
        /\ ~Renders /\ (db.head = i => db'.head = i)
    BY <1>2, SwapGoesOn
  <2>2. Places(i) /\ Open(i)
    BY <1>2 DEF TreesFit, Open
  <2>3. op.pc \in {"vacate", "fill", "undo"} => op.id = i
    BY <2>2, SwapsOwner DEF Swapping
  <2>4. CASE op.pc = "vacate" /\ Exchanges
    <3>1. Near(ws, journal[i].base)
      BY <1>0, <2>3, <2>4 DEF OpTrees, Swapping
    <3>2. ws' = None /\ backup'[i] = ws
      BY <2>3, <2>4 DEF Exchanges
    <3> QED
      BY <2>1, <3>1, <3>2 DEF Places, Near
  <2>5. CASE op.pc = "fill" /\ Exchanges
    <3>1. ws = None
      BY <2>5 DEF BackupFits
    <3>2. Near(backup[i], journal[i].base)
      BY <2>2, <3>1 DEF Places, Near
    <3>3. ws' = journal[i].target
      BY <2>3, <2>5 DEF Exchanges
    <3>4. journal[i].target # None
      BY <2>2, <1>2, JournalKnown, TreeIs DEF InSwap
    <3>5. backup' = backup
      BY <2>5, Quiet
    <3> QED
      BY <2>1, <3>2, <3>3, <3>4, <3>5 DEF Places, Near
  <2>6. CASE op.pc = "undo" /\ Exchanges
    BY <2>1, <2>2, <2>3, <2>6 DEF Exchanges, Places, Near
  <2>7. CASE ~Exchanges
    <3>1. ws' = ws \/ (ws # None /\ ws' # None /\ ws'.v = Edited /\ ws'.p = ws.p)
      BY <2>1, <2>7, WorkspaceTurns DEF Edits
    <3>2. backup'[i] = backup[i]
       \/ (op.id = i /\ op.pc = "dropBackup" /\ op'.pc = "acknowledge" /\ backup'[i] = None /\ ws' = ws)
      BY <2>7, BackupsTurn DEF BackupTurns, Exchanges
    <3>3. CASE backup'[i] = backup[i]
      BY <2>1, <2>2, <3>1, <3>3 DEF Places, Near
    <3>4. CASE op.id = i /\ op.pc = "dropBackup" /\ op'.pc = "acknowledge" /\ backup'[i] = None /\ ws' = ws
      <4>1. ws # None /\ db.head = i
        BY <3>4 DEF BackupFits, ShownFits, Acknowledgement
      <4> QED
        BY <2>1, <2>2, <3>4, <4>1 DEF Places, Near
    <3> QED
      BY <3>2, <3>3, <3>4
  <2> QED
    BY <2>4, <2>5, <2>6, <2>7 DEF Exchanges
<1> QED
  BY <1>1, <1>2

----------------------------------------------------------------------------
(* The swap, the version and the row. *)

LEMMA SameTree ==
    ASSUME NEW t \in Tree \cup {None}, NEW u \in Tree, Near(t, u), t.v # Edited
    PROVE  t = u
<1>1. t \in Tree /\ t.p = u.p /\ t.v = u.v
  BY DEF Near
<1> QED
  BY <1>1 DEF Tree

LEMMA SwapVersionKept ==
    ASSUME TypeOK, OpTypes, Knows, PcFits, StateFits, PermitFits, ReceiptsFit, PublishedFits,
           VersionsFit, OpenFits, BackupFits, ShownFits, HeadFits, OpTrees, TreesFit,
           TypeOK', VersionsFit', Next, NEW i \in Id, InSwap(i)', Committed(i)'
    PROVE  /\ Latest'.v \in {journal'[i].target.v, Edited}
           /\ i \in Run => Latest'.v = journal'[i].target.v
<1>0. i # None
  BY Someone
<1>1. InSwap(i)
  BY SwapOpens DEF Committed
<1>2. journal'[i].target = journal[i].target /\ Open(i) /\ State(i) # "ACKNOWLEDGED"
  BY <1>1, SwapGoesOn, SwapState DEF Open
<1>3. CASE Committed(i)
  <2>1. ~Appended
    BY <1>2, <1>3, <1>0, SwapsOwner DEF Appended, VersionsFit, Projection
  <2>2. ~Reverted
    <3>1. SUFFICES ASSUME Reverted PROVE FALSE
      OBVIOUS
    <3>2. op.id = i
      BY <1>2, <1>3, <3>1, PendingIsLatest DEF Reverted
    <3> QED
      BY <1>1, <3>1, <3>2, SwapState DEF Reverted, StateFits
  <2>3. Latest' = Latest
    BY <2>1, <2>2, IndexTurns
  <2> QED
    BY <1>1, <1>2, <1>3, <2>3 DEF TreesFit
<1>4. CASE ~Committed(i)
  <2>1. Appended /\ i = op.id
    BY <1>4, IndexTurns
  <2>2. op.pc = "append" /\ Latest'.v = IF i \in Run THEN op.tree.v ELSE ws.v
    BY <2>1 DEF Appended
  <2>3. journal[i].target = op.tree /\ Near(ws, op.tree)
    BY <1>0, <2>1, <2>2 DEF OpTrees, Projection
  <2> QED
    BY <1>2, <2>2, <2>3 DEF Near
<1> QED
  BY <1>3, <1>4

LEMMA SwapHeadKept ==
    ASSUME TypeOK, OpTypes, Knows, PcFits, StateFits, PermitFits, ReceiptsFit, PublishedFits,
           VersionsFit, OpenFits, BackupFits, ShownFits, HeadFits, OpTrees, TreesFit, Untouched,
           TypeOK', VersionsFit', Next, NEW i \in Id, InSwap(i)', db'.head = i
    PROVE  /\ State(i)' = "PROMOTED_PENDING_DB"
           /\ drifts' = 0 => ws' = journal'[i].target /\ db'.headLive = ws' /\ db'.live = ws'
<1>0. i # None
  BY Someone
<1>1. InSwap(i)
  BY SwapOpens
<1>2. /\ journal'[i].target = journal[i].target /\ Open(i) /\ ~Renders
      /\ (db.head = i \/ Projects) /\ (Projects => op.id = i /\ op.pc = "project")
      /\ ~Projects => db'.live = db.live /\ db'.headLive = db.headLive
  BY <1>1, SwapGoesOn DEF Open
<1>3. drifts' = 0 => drifts = 0 /\ ~Edits
  BY BoundsTurn DEF TypeOK, Edits
<1>4. CASE db.head = i
  <2>1. State(i) = "PROMOTED_PENDING_DB"
    BY <1>1, <1>4 DEF TreesFit
  <2>2. State(i)' = "PROMOTED_PENDING_DB"
    BY <2>1, StatesTurn, SwapState DEF StateTurns
  <2>3. ~Projects
    <3>1. op.pc = "project" => up = "up" /\ op.id \in Id /\ op.id # None
      BY InRun, Owner DEF InRecovery
    <3> QED
      BY <1>2, <1>4, <3>1 DEF ShownFits, Shown, Acknowledgement, Cleanup, Projects
  <2>4. drifts = 0 => ~Exchanges
    <3>1. op.pc \in {"vacate", "fill", "undo"} => op.id = i
      BY <1>2, SwapsOwner DEF Swapping
    <3>2. op.pc \notin {"vacate", "fill"}
      BY <2>1, <3>1 DEF StateFits, Swapping
    <3> QED
      BY <1>4, <3>1, <3>2 DEF TreesFit, Exchanges
  <2>5. drifts = 0 => ws = journal[i].target /\ db.headLive = ws /\ db.live = ws
    BY <1>1, <1>4 DEF TreesFit
  <2> QED
    BY <1>2, <1>3, <2>2, <2>3, <2>4, <2>5, WorkspaceTurns
<1>5. CASE db.head # i
  <2>1. Projects /\ op.id = i /\ op.pc = "project" /\ op'.pc = "dropBackup"
    BY <1>2, <1>5 DEF Projects
  <2>2. State(i)' = State(i) /\ State(i) = "PROMOTED_PENDING_DB"
    BY <2>1, Quiet, SameStates DEF StateFits, Projection
  <2>3. ws' = ws
    BY <1>2, <2>1, WorkspaceTurns DEF Edits, Exchanges
  <2>4. Near(ws, op.tree) /\ op.tree \in Tree /\ ws \in Tree \cup {None} /\ journal[i].target = op.tree
    <3>1. Near(ws, op.tree) /\ journal[i].target = op.tree
      BY <1>0, <2>1 DEF OpTrees, Projection
    <3>2. op.tree \in Tree
      BY <2>1 DEF OpTypes, Knows, Projection
    <3> QED
      BY <3>1, <3>2 DEF TypeOK
  <2>5. drifts = 0 => ws = op.tree
    BY <2>4, SameTree DEF Untouched, Near
  <2>6. i \in Run => Near(receipt[i].final, op.tree) /\ receipt[i] # None
                     /\ receipt[i].final \in Tree \cup {None}
    BY <1>1, <2>1, PhaseKnown DEF OpTrees, Projection, ReceiptsFit, Accepts
  <2>7. drifts = 0 /\ i \in Run => receipt[i].final = op.tree
    BY <2>4, <2>6, SameTree DEF Untouched, Near
  <2>8. db'.live = (IF i \in Run THEN receipt[i].final ELSE ws) /\ db'.headLive = db'.live
    BY <2>1 DEF Projects
  <2> QED
    BY <1>2, <1>3, <2>2, <2>3, <2>4, <2>5, <2>7, <2>8
<1> QED
  BY <1>4, <1>5

LEMMA FinalRenderedKept ==
    ASSUME TypeOK, OpTypes, Knows, PcFits, StateFits, PermitFits, ReceiptsFit, PublishedFits,
           VersionsFit, OpenFits, BackupFits, ShownFits, HeadFits, OpTrees, TreesFit,
           TypeOK', VersionsFit', Next, NEW i \in Run, InSwap(i)'
    PROVE  receipt'[i].final.p = journal'[i].target.p
<1>0. i # None /\ i \in Id
  BY Someone
<1>1. CASE ~InSwap(i)
  BY <1>0, <1>1, SwapOpens DEF OpTrees, Comparison
<1>2. CASE InSwap(i)
  <2>1. journal'[i].target = journal[i].target /\ receipt[i].final.p = journal[i].target.p
    BY <1>0, <1>2, SwapGoesOn DEF TreesFit
  <2>2. State(i) \in {"PROMOTING", "PROMOTED_PENDING_DB"}
    BY <1>2, SwapState
  <2>3. CASE op.id = i /\ ReceiptTurns(i)
    <3>1. op.pc \notin {"admission", "record", "rejectReceipt", "abortReceipt"}
      BY <2>2, <2>3 DEF StateFits, Admission, Preparation, Refusal
    <3>2. op.pc = "final" => Near(ws, journal[i].target)
      BY <1>0, <2>3 DEF OpTrees, Projection
    <3> QED
      BY <2>1, <2>3, <3>1, <3>2 DEF ReceiptTurns, ReceiptIs, Near
  <2>4. CASE RecoveryTurns(i)
    BY <2>1, <2>2, <2>4 DEF RecoveryTurns, ReceiptIs, State
  <2> QED
    BY <2>1, <2>3, <2>4, ReceiptsTurn
<1> QED
  BY <1>1, <1>2

LEMMA SwapBaseKept ==
    ASSUME TypeOK, OpTypes, Knows, PcFits, StateFits, PermitFits, ReceiptsFit, PublishedFits,
           VersionsFit, OpenFits, BackupFits, ShownFits, HeadFits, OpTrees, TreesFit,
           TypeOK', VersionsFit', Next, NEW i \in Id, InSwap(i)'
    PROVE  Holds(journal'[i].base, AcceptedHead'.v)
<1>1. CASE ~InSwap(i)
  <2>1. /\ op.pc = "promoting" /\ op.id = i /\ journal'[i].base = op.base
        /\ AcceptedHead = Latest /\ db.head = Latest.id
    BY <1>1, SwapOpens
  <2>2. AcceptedHead' = AcceptedHead
    BY <2>1, HeadTurns
  <2>3. op.base # None
    BY <2>1, InRun DEF Knows, Id, InRecovery, OfRollbacks
  <2>4. i \in Run => op.base = db.live
    BY <2>1 DEF OpTrees, Comparison
  <2>5. Holds(db.live, Latest.v)
    <3>1. Len(versions) \in DOMAIN versions
      BY IndexTyped
    <3> QED
      BY <2>1, <3>1 DEF TreesFit, Latest
  <2>6. i \in Rollback => Holds(op.base, AcceptedHead.v)
    BY <2>1 DEF OpTrees, Comparison
  <2> QED
    BY <2>1, <2>2, <2>4, <2>5, <2>6 DEF Id
<1>2. CASE InSwap(i)
  BY <1>2, SwapGoesOn DEF TreesFit
<1> QED
  BY <1>1, <1>2

----------------------------------------------------------------------------
(* The bytes of what is shown. *)

\* Only one version has the identity of the latest.
LEMMA LatestIs ==
    ASSUME TypeOK, VersionsFit, NEW k \in DOMAIN versions, versions[k].id = Latest.id
    PROVE  versions[k] = Latest
<1>1. Len(versions) \in DOMAIN versions
  BY IndexTyped
<1> QED
  BY <1>1 DEF VersionsFit, Latest

\* At rest, what is shown of the head is what is in the workspace.
LEMMA ShownBytesKept ==
    ASSUME TypeOK, OpTypes, Knows, PcFits, StateFits, PermitFits, ReceiptsFit, PublishedFits,
           VersionsFit, OpenFits, BackupFits, ShownFits, HeadFits, OpTrees, TreesFit,
           TypeOK', VersionsFit', Next, NEW k \in DOMAIN versions', versions'[k].id = db'.head
    PROVE  Holds(db'.live, versions'[k].v) /\ Holds(db'.headLive, versions'[k].v)
<1>1. CASE db'.head = db.head /\ db'.live = db.live /\ db'.headLive = db.headLive
  <2>1. Len(versions) \in Nat /\ DOMAIN versions = 1..Len(versions)
    BY IndexTyped
  <2>2. Len(versions') \in Nat /\ DOMAIN versions' = 1..Len(versions')
    BY DEF TypeOK
  <2>3. CASE versions' = versions
    BY <1>1, <2>3 DEF TreesFit
  <2>4. CASE Appended
    <3>1. up = "up" /\ op.id # None
      BY <2>4, InRun, Someone DEF Appended, InRecovery
    <3>2. db.head # op.id
      BY <2>4, <3>1 DEF Appended, ShownFits, Shown, Acknowledgement, Cleanup
    <3>3. k # Len(versions) + 1
      BY <1>1, <2>4, <3>2 DEF Appended
    <3>4. k \in 1..Len(versions) /\ versions'[k] = versions[k]
      BY <2>1, <2>2, <2>4, <3>3 DEF Appended
    <3> QED
      BY <1>1, <2>1, <3>4 DEF TreesFit
  <2>5. CASE Reverted
    <3>1. k \in 1..(Len(versions) - 1)
      BY <2>1, <2>2, <2>5 DEF Reverted
    <3>2. k \in 1..Len(versions) /\ versions'[k] = versions[k]
      BY <2>1, <2>5, <3>1 DEF Reverted
    <3> QED
      BY <1>1, <2>1, <3>2 DEF TreesFit
  <2> QED
    BY <2>3, <2>4, <2>5, IndexTurns
<1>2. CASE Projects
  <2>1. op.pc = "project" /\ op.id \in Id /\ op.id # None
    BY <1>2, Someone DEF Projects
  <2>2. versions' = versions
    BY <2>1, Quiet
  <2>3. PICK i \in Id : i = op.id
    BY <2>1
  <2>4. Committed(i) /\ State(i) = "PROMOTED_PENDING_DB" /\ InSwap(i)
    BY <2>1, <2>3, SwapState DEF VersionsFit, StateFits, Projection
  <2>5. Latest.id = i
    BY <2>4, PendingIsLatest
  <2>6. versions'[k] = Latest
    BY <1>2, <2>2, <2>3, <2>5, LatestIs DEF Projects
  <2>7. Holds(ws, Latest.v)
    BY <2>1 DEF TreesFit
  <2>8. i \in Run => Holds(receipt[i].final, Latest.v)
    <3>1. SUFFICES ASSUME i \in Run PROVE Holds(receipt[i].final, Latest.v)
      OBVIOUS
    <3>2. Latest.v = journal[i].target.v
      BY <2>4, <3>1 DEF TreesFit
    <3>3. Near(receipt[i].final, op.tree) /\ journal[i].target = op.tree
      BY <2>1, <2>3, <3>1 DEF OpTrees, Projection
    <3> QED
      BY <3>2, <3>3 DEF Near, Holds
  <2> QED
    BY <1>2, <2>3, <2>6, <2>7, <2>8 DEF Projects
<1>3. CASE Reprojects
  <2>1. op.pc = "journals" /\ startup.todo = {} /\ startup.manual = "no"
    BY <1>3 DEF Reprojects
  <2>2. up = "starting" /\ versions' = versions
    BY <2>1, Recovers, Quiet
  <2>3. \A i \in Id : ~InSwap(i)
    <3>1. SUFFICES ASSUME NEW i \in Id, InSwap(i) PROVE FALSE
      OBVIOUS
    <3>2. Announced(i)
      BY <2>1, <2>2, <3>1, Decided DEF Open
    <3> QED
      BY <3>1, <3>2, SwapState DEF Announced
  <2>4. AcceptedHead = Latest
    BY <2>1, <2>2, LatestDecided, AcceptedHeadIs
  <2>5. Holds(ws, Latest.v)
    BY <2>3, <2>4 DEF TreesFit
  <2>6. versions'[k] = Latest
    BY <1>3, <2>2, LatestIs DEF Reprojects
  <2> QED
    BY <1>3, <2>5, <2>6 DEF Reprojects
<1>4. CASE Configures
  <2>1. op.pc = "configure"
    BY <1>4 DEF Configures
  <2>2. up = "up" /\ op.id = None /\ versions' = versions
    BY <2>1, InRun, OwnerOfNobody, Quiet DEF InRecovery
  <2>3. \A i \in Id : ~Open(i)
    BY <2>1, <2>2, ClosedAlone
  <2>4. AcceptedHead = Latest /\ db.head = Latest.id
    BY <2>1, <2>2, <2>3, CalmHead
  <2>5. Holds(ws, Latest.v)
    BY <2>3, <2>4 DEF TreesFit, Open
  <2>6. versions'[k] = Latest
    BY <1>4, <2>2, <2>4, LatestIs DEF Configures
  <2>7. Holds(db.headLive, Latest.v)
    BY <1>4, <2>2, <2>6 DEF TreesFit, Configures
  <2> QED
    BY <1>4, <2>5, <2>6, <2>7 DEF Configures
<1> QED
  BY <1>1, <1>2, <1>3, <1>4, ShowTurns DEF Settles

\* The workspace has the version that is projected and acknowledged.
LEMMA LatestInPlaceKept ==
    ASSUME TypeOK, OpTypes, Knows, PcFits, StateFits, PermitFits, ReceiptsFit, PublishedFits,
           VersionsFit, OpenFits, BackupFits, ShownFits, HeadFits, OpTrees, TreesFit,
           TypeOK', VersionsFit', PcFits', Next, op'.pc \in {"project"} \cup Acknowledgement
    PROVE  Holds(ws', Latest'.v)
<1>1. ASSUME versions' = versions, Holds(ws, Latest.v), op.pc \in Projection \cup Acknowledgement \cup Cleanup
      PROVE  Holds(ws', Latest'.v)
  <2>1. ~Renders /\ ~Exchanges
    BY <1>1 DEF Renders, Exchanges, Idle, Projection, Acknowledgement, Cleanup
  <2> QED
    BY <1>1, <2>1, WorkspaceTurns DEF Holds, Edits, Latest
<1>2. CASE AppendVersion
  <2>1. Appended /\ op.pc = "append" /\ ws' = ws
    BY <1>2, Appends, AppendVersionDoes
  <2>2. Near(ws, op.tree)
    BY <2>1 DEF OpTrees, Projection
  <2> QED
    BY <2>1, <2>2 DEF Appended, Near, Holds
<1>3. CASE Stays \/ Project \/ DropBackup
  <2>1. op.pc \in {"project"} \cup Acknowledgement
    BY <1>3, ProjectDoes, DropBackupDoes DEF Stays, Acknowledgement
  <2>2. versions' = versions
    BY <2>1, Quiet DEF Acknowledgement
  <2> QED
    BY <1>1, <2>1, <2>2 DEF TreesFit, Projection
<1>4. ASSUME NEW i \in Id, Examine(i), op'.pc = "dropBackup"
      PROVE  Holds(ws', Latest'.v)
  <2>1. DatabaseCommitted(i) /\ ws = journal[i].target /\ ws' = ws /\ versions' = versions
    BY <1>4, ExamineDoes DEF Begins
  <2>2. Latest.id = db.head /\ db.headLive = ws
    BY <2>1 DEF DatabaseCommitted
  <2>3. Holds(db.headLive, Latest.v)
    <3>1. Len(versions) \in DOMAIN versions
      BY IndexTyped
    <3> QED
      BY <2>2, <3>1 DEF TreesFit, Latest
  <2> QED
    BY <2>1, <2>2, <2>3 DEF Latest
<1>5. CASE Fault /\ op'.pc = "dropBackup"
  <2>1. up = "up" /\ op.pc \in {"dropBackup", "acknowledge", "retention", "terminal"}
    BY <1>5, FaultDoes DEF FaultEarly, FaultInSwap, FaultLate, Becomes, Moves, Idle, Knows
  <2>2. versions' = versions \/ op.pc \in {"append", "revert"}
    BY Quiet
  <2>3. CASE op.pc \in {"dropBackup", "acknowledge"}
    BY <1>1, <2>2, <2>3 DEF TreesFit, Acknowledgement
  <2>4. CASE op.pc \in {"retention", "terminal"}
    <3>1. State(op.id) = "ACKNOWLEDGED" /\ op.id # None
      BY <2>4, Owner DEF StateFits, Cleanup
    <3>2. ~Open(op.id)
      BY <3>1, SwapState DEF Open, Undecided, Announced
    <3>3. \A i \in Id : ~Open(i)
      BY <2>1, <2>4, <3>2, ClosedAlone
    <3>4. AcceptedHead = Latest
      BY <2>1, <2>4, <3>3, CalmHead
    <3>5. Holds(ws, Latest.v)
      BY <3>3, <3>4 DEF TreesFit, Open
    <3> QED
      BY <1>1, <2>2, <2>4, <3>5 DEF Cleanup
  <2> QED
    BY <2>1, <2>3, <2>4
<1> QED
  BY <1>2, <1>3, <1>4, <1>5, Arrivals DEF Acknowledgement

----------------------------------------------------------------------------
(* What a step gives the row and the journals. *)

\* What an operation works with is given to it at four places.
LEMMA Gives ==
    ASSUME TypeOK, OpTypes, Knows, PcFits, StateFits, ReceiptsFit, Next
    PROVE  (op'.base \in {op.base, None} \/ Bind \/ Regenerate)
           /\ (op'.tree \in {op.tree, None} \/ RunAgent \/ (\E x \in Rollback : StartRollback(x)))
<1>1. CASE Bind \/ Prepare \/ PrepareConflict \/ RecordAdmissionFailure \/ RunAgent \/ AgentEnds
  BY <1>1, BindDoes, PrepareDoes, PrepareConflictDoes, RecordAdmissionFailureDoes, RunAgentDoes,
     AgentEndsDoes DEF Becomes, Moves
<1>2. CASE Seal \/ SealRefuses \/ Verify \/ Reject \/ RejectReceipt \/ Publish
  BY <1>2, SealDoes, SealRefusesDoes, VerifyDoes, RejectDoes, RejectReceiptDoes, PublishDoes DEF
     Moves, Becomes, HeadStays, Idle
<1>3. CASE Dispose \/ Issue \/ Claim \/ RecordPromotion \/ Stage \/ CompareBase
  BY <1>3, DisposeDoes, IssueDoes, ClaimDoes, RecordPromotionDoes, StageDoes, CompareBaseDoes DEF
     Idle, Moves, Becomes
<1>4. CASE CompareConflict \/ Consume \/ Promoting \/ Vacate \/ Fill \/ PendingDatabase
  BY <1>4, CompareConflictDoes, ConsumeDoes, PromotingDoes, VacateDoes, FillDoes,
     PendingDatabaseDoes DEF Becomes, Moves, JournalSet
<1>5. CASE \/ RecordFinal \/ AppendVersion \/ Project \/ DropBackup \/ AcknowledgeJournal
           \/ ReleaseRetention
  BY <1>5, RecordFinalDoes, AppendVersionDoes, ProjectDoes, DropBackupDoes,
     AcknowledgeJournalDoes, ReleaseRetentionDoes DEF Becomes, Moves, JournalSet
<1>6. CASE \/ DestroyProposal \/ TerminalReceipt \/ Release \/ UndoSwap \/ UndoJournal
           \/ CloseJournal
  BY <1>6, DestroyProposalDoes, TerminalReceiptDoes, ReleaseDoes, UndoSwapDoes, UndoJournalDoes,
     CloseJournalDoes DEF Moves, Becomes, HeadStays, Idle, JournalSet, LeftToAnAdministrator,
     Begins
<1>7. CASE RevertVersion
  BY <1>7, RevertVersionDoes DEF Moves, Becomes
<1>8. CASE AbortReceipt
  BY <1>8, AbortReceiptDoes DEF Becomes, Moves
<1>9. CASE Lock
  BY <1>9, LockDoes DEF HeadStays, Idle
<1>10. CASE Regenerate \/ Withdraw \/ ConfigureRow
  BY <1>10, RegenerateDoes, WithdrawDoes, ConfigureRowDoes DEF HeadStays, Idle
<1>11. CASE \E i \in Id : Examine(i)
  <2>1. PICK i \in Id : Examine(i)
    BY <1>11
  <2> QED
    BY <2>1, ExamineDoes DEF Begins, JournalSet
<1>12. CASE Acknowledged \/ RolledBack
  BY <1>12, AcknowledgedDoes, RolledBackDoes DEF Begins
<1>13. CASE \E r \in Run : ScanReceipt(r)
  <2>1. PICK r \in Run : ScanReceipt(r)
    BY <1>13
  <2> QED
    BY <2>1, ScanReceiptDoes
<1>14. CASE \E r \in Run : DisposeAtStartup(r)
  <2>1. PICK r \in Run : DisposeAtStartup(r)
    BY <1>14
  <2> QED
    BY <2>1, DisposeAtStartupDoes DEF HeadStays
<1>15. CASE Reproject \/ Settle \/ Serve
  BY <1>15, ReprojectDoes, SettleDoes, ServeDoes DEF Moves, Becomes, HeadStays, Idle
<1>16. CASE \E r \in Run : Submit(r)
  <2>1. PICK r \in Run : Submit(r)
    BY <1>16
  <2> QED
    BY <2>1, SubmitDoes DEF Begins, HeadStays, Idle
<1>17. CASE \E x \in Rollback : StartRollback(x)
  <2>1. PICK x \in Rollback : StartRollback(x)
    BY <1>17
  <2> QED
    BY <2>1, StartRollbackDoes DEF HeadStays, Idle
<1>18. CASE Configure \/ StartAgent \/ Cancel
  BY <1>18, ConfigureDoes, StartAgentDoes, CancelDoes DEF Begins, Idle, HeadStays, Becomes
<1>19. CASE Start
  BY <1>19, StartDoes DEF Begins
<1>20. CASE FaultAtStartup \/ Crash
  BY <1>20, FaultAtStartupDoes, CrashDoes DEF LeftToAnAdministrator, Begins, Idle
<1>21. CASE Drift \/ Fault
  BY <1>21, DriftDoes, FaultDoes DEF Becomes, Moves, Idle, FaultEarly, FaultInSwap, FaultLate
<1> QED
  BY <1>1, <1>2, <1>3, <1>4, <1>5, <1>6, <1>7, <1>8, <1>9, <1>10, <1>11, <1>12, <1>13, <1>14,
     <1>15, <1>16, <1>17, <1>18, <1>19, <1>20, <1>21 DEF Next, Request, Step, RunStep,
     TransitionStep, StartupStep


LEMMA JournalsWritten ==
    ASSUME TypeOK, OpTypes, Knows, PcFits, StateFits, PermitFits, ReceiptsFit, PublishedFits,
           TypeOK', Next, NEW i \in Id, journal'[i] # None
    PROVE  \/ /\ journal[i] # None
              /\ journal'[i].base = journal[i].base /\ journal'[i].target = journal[i].target
           \/ /\ op.pc = "stage" /\ op.id = i
              /\ journal'[i].base = op.base /\ journal'[i].target = op.tree
<1>1. CASE State(i) # "NONE"
  BY <1>1, StatesTurn DEF State
<1>2. CASE State(i) = "NONE" /\ State(i)' # State(i)
  <2>1. op.id = i /\ op.pc = "stage"
    BY <1>2, StatesTurn, SwapState DEF StateTurns
  <2>2. journal' # journal
    BY <1>2, SameStates
  <2>3. Stage
    BY <2>1, <2>2, Writers, CompareConflictDoes, PromotingDoes, PendingDatabaseDoes, AcknowledgeJournalDoes,
       UndoJournalDoes, CloseJournalDoes, ExamineBegins
  <2> QED
    BY <2>1, <2>3, Staged
<1>3. CASE State(i)' = "NONE"
  <2>1. journal'[i] \in Journals
    BY DEF TypeOK
  <2>2. journal'[i].state \in JournalStates
    BY <2>1 DEF Journals
  <2> QED
    BY <1>3, <2>2 DEF State, JournalStates
<1> QED
  BY <1>1, <1>2, <1>3

----------------------------------------------------------------------------
(* The trees, together. *)

\* A swap is not taken back once the database shows it.
LEMMA ShownStaysKept ==
    ASSUME TypeOK, OpTypes, Knows, PcFits, StateFits, PermitFits, ReceiptsFit, PublishedFits,
           VersionsFit, OpenFits, BackupFits, ShownFits, HeadFits, OpTrees, TreesFit,
           TypeOK', PcFits', ShownFits', Next, op'.pc = "undo", drifts' = 0
    PROVE  db'.head # op'.id
<1>0. op'.id # None /\ up' # "down"
  BY DEF PcFits, OwnerFits, OfNobody, RestFits, Idle
<1>1. CASE up' = "up"
  BY <1>0, <1>1 DEF ShownFits, Shown, Acknowledgement, Cleanup
<1>2. CASE Stays /\ up' # "up"
  <2>1. drifts = 0 /\ op.pc = "undo" /\ op'.id = op.id
    BY <1>2, BoundsTurn DEF TypeOK, Stays
  <2>2. db'.head = db.head
    BY <1>0, RowStays
  <2> QED
    BY <2>1, <2>2 DEF TreesFit
<1>3. CASE (RecordFinal \/ Fault) /\ up' # "up"
  <2>1. RecordFinal => op.pc = "final" /\ up' = up
    BY RecordFinalDoes
  <2>2. Fault => up = "up" /\ up' = up
    BY FaultDoes
  <2> QED
    BY <1>3, <2>1, <2>2, InRun DEF InRecovery
<1>4. ASSUME NEW i \in Id, Examine(i), op # op', up' # "up"
      PROVE  db'.head # op'.id
  <2>1. /\ InSwap(i) /\ Begins(i, "undo", "revert") /\ db' = db /\ drifts' = drifts
        /\ ~(State(i) = "PROMOTED_PENDING_DB" /\ DatabaseCommitted(i) /\ ws = journal[i].target)
    BY <1>4, ExamineDoes DEF Begins
  <2>2. SUFFICES ASSUME db.head = i PROVE FALSE
    BY <2>1 DEF Begins
  <2>3. State(i) = "PROMOTED_PENDING_DB" /\ ws = journal[i].target /\ db.headLive = ws
    BY <2>1, <2>2 DEF TreesFit
  <2>4. Committed(i)
    BY <2>2, <2>3 DEF ShownFits, Shown, Orphaned
  <2>5. Latest.id = i
    BY <2>3, <2>4, PendingIsLatest
  <2> QED
    BY <2>1, <2>2, <2>3, <2>5 DEF DatabaseCommitted
<1>5. op = op' => Stays \/ up' # up
  BY DEF Stays
<1>6. op = op' => db'.head # op'.id
  <2>1. SUFFICES ASSUME op = op' PROVE db'.head # op'.id
    OBVIOUS
  <2>2. drifts = 0 /\ op.pc = "undo"
    BY <2>1, BoundsTurn DEF TypeOK
  <2>3. db'.head = db.head
    BY <1>0, <2>1, <2>2, RowStays
  <2> QED
    BY <2>1, <2>2, <2>3 DEF TreesFit
<1> QED
  BY <1>1, <1>2, <1>3, <1>4, <1>6, Arrivals

\* A transition does not change what AGENTS.md is rendered from.
LEMMA RenderedJournalsKept ==
    ASSUME TypeOK, OpTypes, Knows, PcFits, StateFits, PermitFits, ReceiptsFit, PublishedFits,
           OpTrees, TreesFit, TypeOK', Next, NEW i \in Id, journal'[i] # None
    PROVE  journal'[i].target.p = journal'[i].base.p
<1>1. op.pc = "stage" => op.tree.p = op.base.p
  BY Owner DEF OpTrees, Preparation, Id
<1> QED
  BY <1>1, JournalsWritten DEF TreesFit

LEMMA TreesFitKept ==
    ASSUME TypeOK, OpTypes, Knows, PcFits, StateFits, PermitFits, ReceiptsFit, PublishedFits,
           VersionsFit, OpenFits, BackupFits, ShownFits, HeadFits, OpTrees, TreesFit, Untouched,
           TypeOK', VersionsFit', PcFits', ShownFits', Next
    PROVE  TreesFit'
<1>1. (\A i \in Id : ~InSwap(i)') => Holds(ws, AcceptedHead.v)'
  BY HeadInPlaceKept DEF Holds
<1>2. \A i \in Id : InSwap(i)' =>
         /\ Places(i)' /\ Holds(journal[i].base, AcceptedHead.v)'
         /\ Committed(i)' => /\ Latest'.v \in {journal'[i].target.v, Edited}
                             /\ i \in Run => Latest'.v = journal'[i].target.v
         /\ db'.head = i => State(i)' = "PROMOTED_PENDING_DB"
         /\ drifts' = 0 /\ db'.head = i => /\ ws' = journal'[i].target
                                           /\ db'.headLive = ws' /\ db'.live = ws'
         /\ i \in Run => receipt'[i].final.p = journal'[i].target.p
  <2>1. SUFFICES ASSUME NEW i \in Id, InSwap(i)'
        PROVE /\ Places(i)' /\ Holds(journal[i].base, AcceptedHead.v)'
              /\ Committed(i)' => /\ Latest'.v \in {journal'[i].target.v, Edited}
                                  /\ i \in Run => Latest'.v = journal'[i].target.v
              /\ db'.head = i => State(i)' = "PROMOTED_PENDING_DB"
              /\ drifts' = 0 /\ db'.head = i => /\ ws' = journal'[i].target
                                                /\ db'.headLive = ws' /\ db'.live = ws'
              /\ i \in Run => receipt'[i].final.p = journal'[i].target.p
    OBVIOUS
  <2>2. Places(i)' /\ Holds(journal[i].base, AcceptedHead.v)'
    BY <2>1, PlacesKept, SwapBaseKept DEF Holds
  <2>3. Committed(i)' => /\ Latest'.v \in {journal'[i].target.v, Edited}
                         /\ i \in Run => Latest'.v = journal'[i].target.v
    BY <2>1, SwapVersionKept
  <2>4. db'.head = i => State(i)' = "PROMOTED_PENDING_DB"
    BY <2>1, SwapHeadKept
  <2>5. drifts' = 0 /\ db'.head = i => /\ ws' = journal'[i].target
                                       /\ db'.headLive = ws' /\ db'.live = ws'
    BY <2>1, SwapHeadKept
  <2>6. i \in Run => receipt'[i].final.p = journal'[i].target.p
    BY <2>1, FinalRenderedKept
  <2> QED
    BY <2>2, <2>3, <2>4, <2>5, <2>6
<1>3. \A k \in DOMAIN versions' : versions'[k].id = db'.head =>
         Holds(db.live, versions[k].v)' /\ Holds(db.headLive, versions[k].v)'
  BY ShownBytesKept DEF Holds
<1>4. op'.pc \in {"project"} \cup Acknowledgement => Holds(ws, Latest.v)'
  BY LatestInPlaceKept DEF Holds
<1>5. op'.pc = "undo" /\ drifts' = 0 => db'.head # op'.id
  BY ShownStaysKept
<1>6. \A i \in Id : journal'[i] # None => journal'[i].target.p = journal'[i].base.p
  BY RenderedJournalsKept
<1> QED
  BY <1>1, <1>2, <1>3, <1>4, <1>5, <1>6 DEF TreesFit

----------------------------------------------------------------------------
(* Without a foreign write no tree is an edited one. *)

\* While nobody else writes, no foreign content is anywhere.
LEMMA UntouchedDiskKept ==
    ASSUME TypeOK, OpTypes, Knows, PcFits, StateFits, PermitFits, ReceiptsFit, PublishedFits,
           VersionsFit, OpenFits, BackupFits, OpTrees, Untouched, TypeOK', Next, drifts' = 0
    PROVE  /\ ws' # None => ws'.v # Edited
           /\ \A i \in Id : /\ backup'[i] # None => backup'[i].v # Edited
                            /\ journal'[i] # None => Edited \notin {journal'[i].base.v, journal'[i].target.v}
           /\ \A k \in DOMAIN versions' : versions'[k].v # Edited
<1>0. drifts = 0 /\ ~Edits
  BY BoundsTurn DEF TypeOK, Edits
<1>1. ws' # None => ws'.v # Edited
  <2>1. op.pc \in {"fill", "undo"} => op.id \in Id /\ journal[op.id] # None
    <3>1. op.pc \in {"fill", "undo"} => op.id \in Id /\ State(op.id) # "NONE"
      BY Owner DEF StateFits, Swapping
    <3> QED
      BY <3>1 DEF State
  <2> QED
    BY <1>0, <2>1, WorkspaceTurns DEF Renders, Exchanges, Untouched
<1>2. ASSUME NEW i \in Id, backup'[i] # None PROVE backup'[i].v # Edited
  BY <1>0, <1>2, BackupsTurn DEF BackupTurns, Untouched
<1>3. ASSUME NEW i \in Id, journal'[i] # None PROVE Edited \notin {journal'[i].base.v, journal'[i].target.v}
  <2>1. op.pc = "stage" => op.base # None /\ op.tree # None
    <3>1. op.pc = "stage" => up = "up" /\ op.id \in Id
      BY InRun, Owner DEF InRecovery
    <3> QED
      BY <3>1 DEF Knows, Preparation, Id, OfRollbacks
  <2> QED
    BY <1>0, <1>3, <2>1, JournalsWritten DEF Untouched
<1>4. ASSUME NEW k \in DOMAIN versions' PROVE versions'[k].v # Edited
  <2>1. Len(versions) \in Nat /\ DOMAIN versions = 1..Len(versions)
    BY IndexTyped
  <2>2. Len(versions') \in Nat /\ DOMAIN versions' = 1..Len(versions')
    BY DEF TypeOK
  <2>3. Appended => op.tree # None /\ ws # None
    BY DEF Appended, Knows, Projection, BackupFits
  <2>4. CASE versions' = versions
    BY <1>0, <2>4 DEF Untouched
  <2>5. CASE Appended
    <3>1. CASE k = Len(versions) + 1
      BY <1>0, <2>3, <2>5, <3>1 DEF Appended, Untouched
    <3>2. CASE k # Len(versions) + 1
      <4>1. k \in 1..Len(versions) /\ versions'[k] = versions[k]
        BY <2>1, <2>2, <2>5, <3>2 DEF Appended
      <4> QED
        BY <1>0, <2>1, <4>1 DEF Untouched
    <3> QED
      BY <3>1, <3>2
  <2>6. CASE Reverted
    <3>1. k \in 1..(Len(versions) - 1)
      BY <2>1, <2>2, <2>6 DEF Reverted
    <3>2. k \in 1..Len(versions) /\ versions'[k] = versions[k]
      BY <2>1, <2>6, <3>1 DEF Reverted
    <3> QED
      BY <1>0, <2>1, <3>2 DEF Untouched
  <2> QED
    BY <2>4, <2>5, <2>6, IndexTurns
<1> QED
  BY <1>1, <1>2, <1>3, <1>4

LEMMA UntouchedReceiptsKept ==
    ASSUME TypeOK, OpTypes, Knows, PcFits, StateFits, PermitFits, ReceiptsFit, PublishedFits,
           VersionsFit, OpenFits, BackupFits, OpTrees, Untouched, Next, drifts' = 0,
           NEW r \in Run, receipt'[r] # None
    PROVE  receipt'[r].base.v # Edited /\ (receipt'[r].final # None => receipt'[r].final.v # Edited)
<1>0. drifts = 0
  BY BoundsTurn DEF TypeOK
<1>1. CASE receipt'[r] = receipt[r]
  BY <1>0, <1>1 DEF Untouched
<1>2. CASE op.id = r /\ ReceiptTurns(r)
  <2>1. op.pc \in {"admission", "record", "rejectReceipt"} => op.base # None
    BY RunsBase, TreeIs
  <2>2. op.pc = "record" => op.tree # None
    BY DEF Knows, Preparation
  <2>3. op.pc = "final" => ws # None /\ receipt[r] # None
    BY <1>2 DEF BackupFits, Projection, ReceiptTurns, Accepts
  <2> QED
    BY <1>0, <1>2, <2>1, <2>2, <2>3 DEF ReceiptTurns, ReceiptIs, Untouched
<1>3. CASE RecoveryTurns(r)
  BY <1>0, <1>3 DEF RecoveryTurns, ReceiptIs, Untouched
<1> QED
  BY <1>1, <1>2, <1>3, ReceiptsTurn

LEMMA UntouchedRowKept ==
    ASSUME TypeOK, OpTypes, Knows, PcFits, StateFits, PermitFits, ReceiptsFit, PublishedFits,
           VersionsFit, OpenFits, BackupFits, OpTrees, Untouched, Next, drifts' = 0
    PROVE  db'.live.v # Edited
<1>0. drifts = 0
  BY BoundsTurn DEF TypeOK
<1>1. CASE Projects
  <2>1. ws # None
    BY <1>1 DEF Projects, BackupFits, Projection
  <2>2. op.id \in Run => receipt[op.id] # None /\ receipt[op.id].final # None
    <3>1. SUFFICES ASSUME NEW r \in Run, op.id = r PROVE receipt[r] # None /\ receipt[r].final # None
      OBVIOUS
    <3>2. InSwap(r)
      BY <1>1, <3>1, SwapState DEF Projects, StateFits, Projection
    <3> QED
      BY <1>1, <3>1, <3>2 DEF Projects, OpTrees, Projection, Near, ReceiptsFit, Accepts
  <2> QED
    BY <1>0, <1>1, <2>1, <2>2 DEF Projects, Untouched
<1>2. Configures => ws # None
  BY DEF Configures, OpTrees
<1> QED
  BY <1>0, <1>1, <1>2, ShowTurns DEF Untouched, Reprojects, Settles, Configures

LEMMA UntouchedOperationKept ==
    ASSUME TypeOK, OpTypes, Knows, PcFits, StateFits, PermitFits, ReceiptsFit, PublishedFits,
           VersionsFit, OpenFits, BackupFits, OpTrees, Untouched, TypeOK', Next, drifts' = 0
    PROVE  /\ op'.base # None => op'.base.v # Edited
           /\ op'.tree # None => op'.tree.v # Edited
<1>0. drifts = 0
  BY BoundsTurn DEF TypeOK
<1>1. Bind => op'.base = db.live
  BY BindDoes
<1>2. Regenerate => op'.base = ws' \/ op'.base = None
  BY RegenerateDoes
<1>3. op'.base # None => op'.base.v # Edited
  BY <1>0, <1>1, <1>2, Gives, UntouchedDiskKept DEF Untouched
<1>4. CASE RunAgent
  <2>1. PICK v \in {op.id, op.base.v} : op'.tree = [op.base EXCEPT !.v = v]
    BY <1>4, RunAgentDoes
  <2>2. op.id \in Run /\ up = "up" /\ op.pc = "agent"
    BY <1>4, RunAgentDoes, OwnerOfRun, InRun DEF InRecovery
  <2>3. op.base \in Tree /\ op.base # None
    BY <2>2 DEF Knows, OpTypes
  <2>4. v # Edited
    BY <1>0, <2>2, <2>3, GateAssumption DEF Untouched
  <2>5. op'.tree.v = v
    BY <2>1, <2>3 DEF Tree
  <2> QED
    BY <1>3, <2>4, <2>5
<1>5. CASE \E x \in Rollback : StartRollback(x)
  <2>1. PICK x \in Rollback : StartRollback(x)
    BY <1>5
  <2>2. PICK v \in {versions[k].v : k \in DOMAIN versions} : op'.tree = [v |-> v, p |-> db.cfg]
    BY <2>1 DEF StartRollback, Idle
  <2> QED
    BY <1>0, <1>3, <2>2 DEF Untouched
<1>6. CASE op'.tree \in {op.tree, None}
  BY <1>0, <1>3, <1>6 DEF Untouched
<1> QED
  BY <1>4, <1>5, <1>6, Gives

LEMMA UntouchedKept ==
    ASSUME TypeOK, OpTypes, Knows, PcFits, StateFits, PermitFits, ReceiptsFit, PublishedFits,
           VersionsFit, OpenFits, BackupFits, OpTrees, Untouched, TypeOK', Next
    PROVE  Untouched'
  BY UntouchedDiskKept, UntouchedReceiptsKept, UntouchedRowKept, UntouchedOperationKept DEF Untouched

----------------------------------------------------------------------------
(* Receipts without a journal; what a version may hold. *)

\* A change of the configuration is recorded, or it fails.
LEMMA ConfigureEnds ==
    ASSUME TypeOK, OpTypes, Knows, PcFits, StateFits, ReceiptsFit, op.pc = "configure", Next
    PROVE  op' = op \/ ConfigureRow \/ Fault \/ up' # "up"
<1>1. CASE Bind \/ Prepare \/ PrepareConflict \/ RecordAdmissionFailure \/ RunAgent \/ AgentEnds
  BY <1>1, BindDoes, OwnerOfNobody, Someone, PrepareDoes, PrepareConflictDoes,
     RecordAdmissionFailureDoes, RunAgentDoes, AgentEndsDoes DEF Becomes, Moves
<1>2. CASE Seal \/ SealRefuses \/ Verify \/ Reject \/ RejectReceipt \/ Publish
  BY <1>2, SealDoes, OwnerOfNobody, Someone, SealRefusesDoes, VerifyDoes, RejectDoes,
     RejectReceiptDoes, PublishDoes DEF Moves, Becomes, HeadStays, Idle
<1>3. CASE Dispose \/ Issue \/ Claim \/ RecordPromotion \/ Stage \/ CompareBase
  BY <1>3, DisposeDoes, OwnerOfNobody, Someone, IssueDoes, ClaimDoes, RecordPromotionDoes,
     StageDoes, CompareBaseDoes DEF Idle, Moves, Becomes
<1>4. CASE CompareConflict \/ Consume \/ Promoting \/ Vacate \/ Fill \/ PendingDatabase
  BY <1>4, CompareConflictDoes, OwnerOfNobody, Someone, ConsumeDoes, PromotingDoes, VacateDoes,
     FillDoes, PendingDatabaseDoes DEF Becomes, Moves, JournalSet
<1>5. CASE \/ RecordFinal \/ AppendVersion \/ Project \/ DropBackup \/ AcknowledgeJournal
           \/ ReleaseRetention
  BY <1>5, RecordFinalDoes, OwnerOfNobody, Someone, AppendVersionDoes, ProjectDoes,
     DropBackupDoes, AcknowledgeJournalDoes, ReleaseRetentionDoes DEF Becomes, Moves, JournalSet
<1>6. CASE \/ DestroyProposal \/ TerminalReceipt \/ Release \/ UndoSwap \/ UndoJournal
           \/ CloseJournal
  BY <1>6, DestroyProposalDoes, OwnerOfNobody, Someone, TerminalReceiptDoes, ReleaseDoes,
     UndoSwapDoes, UndoJournalDoes, CloseJournalDoes DEF Moves, Becomes, HeadStays, Idle,
     JournalSet, LeftToAnAdministrator, Begins
<1>7. CASE RevertVersion \/ AbortReceipt \/ Lock \/ Regenerate \/ Withdraw \/ ConfigureRow
  BY <1>7, RevertVersionDoes, OwnerOfNobody, Someone, AbortReceiptDoes, LockDoes, RegenerateDoes,
     WithdrawDoes, ConfigureRowDoes DEF Moves, Becomes, HeadStays, Idle
<1>8. CASE \E i \in Id : Examine(i)
  <2>1. PICK i \in Id : Examine(i)
    BY <1>8
  <2> QED
    BY <2>1, ExamineDoes, OwnerOfNobody, Someone DEF Begins, JournalSet
<1>9. CASE Acknowledged \/ RolledBack
  BY <1>9, AcknowledgedDoes, OwnerOfNobody, Someone, RolledBackDoes DEF Begins
<1>10. CASE \E r \in Run : ScanReceipt(r)
  <2>1. PICK r \in Run : ScanReceipt(r)
    BY <1>10
  <2> QED
    BY <2>1, ScanReceiptDoes, OwnerOfNobody, Someone
<1>11. CASE \E r \in Run : DisposeAtStartup(r)
  <2>1. PICK r \in Run : DisposeAtStartup(r)
    BY <1>11
  <2> QED
    BY <2>1, DisposeAtStartupDoes, OwnerOfNobody, Someone DEF HeadStays
<1>12. CASE Reproject \/ Settle \/ Serve
  BY <1>12, ReprojectDoes, OwnerOfNobody, Someone, SettleDoes, ServeDoes DEF Moves, Becomes,
     HeadStays, Idle
<1>13. CASE \E r \in Run : Submit(r)
  <2>1. PICK r \in Run : Submit(r)
    BY <1>13
  <2> QED
    BY <2>1, SubmitDoes, OwnerOfNobody, Someone DEF Begins, HeadStays, Idle
<1>14. CASE \E x \in Rollback : StartRollback(x)
  <2>1. PICK x \in Rollback : StartRollback(x)
    BY <1>14
  <2> QED
    BY <2>1, StartRollbackDoes, OwnerOfNobody, Someone DEF HeadStays, Idle
<1>15. CASE Configure \/ StartAgent \/ Cancel
  BY <1>15, ConfigureDoes, OwnerOfNobody, Someone, StartAgentDoes, CancelDoes DEF Begins, Idle,
     HeadStays, Becomes
<1>16. CASE Start \/ FaultAtStartup \/ Crash
  BY <1>16, StartDoes, OwnerOfNobody, Someone, FaultAtStartupDoes, CrashDoes DEF Begins,
     LeftToAnAdministrator, Idle
<1>17. CASE Drift \/ Fault
  BY <1>17, DriftDoes, OwnerOfNobody, Someone, FaultDoes DEF Becomes, Moves, Idle, FaultEarly,
     FaultInSwap, FaultLate
<1> QED
  BY <1>1, <1>2, <1>3, <1>4, <1>5, <1>6, <1>7, <1>8, <1>9, <1>10, <1>11, <1>12, <1>13, <1>14,
     <1>15, <1>16, <1>17 DEF Next, Request, Step, RunStep, TransitionStep, StartupStep


\* An Agent that is locked is unlocked by startup recovery only.
LEMMA LockStays ==
    ASSUME TypeOK, OpTypes, Knows, PcFits, StateFits, ReceiptsFit, Next, ~db'.locked
    PROVE  ~db.locked \/ op.pc = "settle"
<1>1. CASE \E r \in Run : DisposeAtStartup(r)
  BY <1>1, DisposeAtStartupDoes
<1>2. CASE \E r \in Run : Submit(r)
  BY <1>2, SubmitDoes
<1>3. CASE \E x \in Rollback : StartRollback(x)
  BY <1>3, StartRollbackDoes
<1> QED
  BY <1>1, <1>2, <1>3, Writers, PublishDoes, ProjectDoes, ReleaseDoes, LockDoes, WithdrawDoes, ConfigureRowDoes,
     ReprojectDoes, SettleDoes, StartAgentDoes

\* The bytes of an announced promotion stay in place.
LEMMA AnnouncedFitsKept ==
    ASSUME TypeOK, OpTypes, Knows, PcFits, StateFits, PermitFits, ReceiptsFit, PublishedFits,
           VersionsFit, OpenFits, BackupFits, OpTrees, AnnouncedFits, Next
    PROVE  AnnouncedFits'
<1>1. SUFFICES ASSUME NEW r \in Run, Announced(r)' PROVE Near(ws', receipt'[r].base)
  BY DEF AnnouncedFits, Near
<1>2. r \in Id /\ State(r)' = "NONE" /\ Phase(r)' = "PENDING_PROMOTION"
  BY <1>1, Someone DEF Announced
<1>3. State(r) = "NONE"
  BY <1>2, StatesTurn DEF StateTurns
<1>4. CASE Announced(r)
  <2>1. ~Renders /\ ~Exchanges
    BY <1>2, <1>3, <1>4, NotRendered, SwapsOwner, SwapState DEF Open, Exchanges, Swapping
  <2>2. Near(ws, receipt[r].base)
    BY <1>4 DEF AnnouncedFits
  <2>3. receipt'[r] = receipt[r]
    <3>1. receipt[r] # None
      BY <1>4 DEF Announced, Phase
    <3>2. op.id = r => op.pc \notin {"record", "final"}
      BY <1>3, <3>1 DEF ReceiptsFit, StateFits, Projection
    <3> QED
      BY <1>2, <3>2, ReceiptsTurn DEF ReceiptTurns, RecoveryTurns, ReceiptIs
  <2> QED
    BY <2>1, <2>2, <2>3, WorkspaceTurns DEF Near, Edits
<1>5. CASE ~Announced(r)
  <2>1. Phase(r) # "PENDING_PROMOTION"
    BY <1>1, <1>3, <1>5 DEF Announced
  <2>2. op.id = r /\ ReceiptTurns(r)
    BY <1>2, <2>1, ReceiptsTurn DEF RecoveryTurns, ReceiptIs
  <2>3. op.pc = "record" /\ receipt'[r].base = op.base
    BY <1>2, <2>1, <2>2 DEF ReceiptTurns, ReceiptIs
  <2>4. Near(ws, op.base)
    BY <2>3 DEF OpTrees, Preparation
  <2> QED
    BY <2>3, <2>4, WorkspaceTurns DEF Near, Edits, Renders, Exchanges, Idle
<1> QED
  BY <1>4, <1>5

\* What a version that is not accepted yet may be.
LEMMA ResultFitsKept ==
    ASSUME TypeOK, OpTypes, Knows, PcFits, StateFits, PermitFits, ReceiptsFit, PublishedFits,
           VersionsFit, OpenFits, BackupFits, OpTrees, TreesFit, ResultFits, TypeOK', VersionsFit', Next,
           NEW i \in Id, Latest'.id = i, State(i)' # "ACKNOWLEDGED"
    PROVE  Latest'.v \in (IF i \in Run THEN {i, AcceptedHead'.v}
                          ELSE {versions'[k].v : k \in 1..(Len(versions') - 1)}) \cup {Edited}
<1>0. Len(versions) \in Nat /\ i # None
  BY IndexTyped, Someone
<1>1. CASE Appended
  <2>1. op.id = i /\ op.pc = "append" /\ Latest'.v = IF i \in Run THEN op.tree.v ELSE ws.v
    BY <1>1 DEF Appended
  <2>2. AcceptedHead' = AcceptedHead
    BY <2>1, HeadTurns
  <2>3. CASE i \in Run
    <3>1. op.tree.v \in {i, op.base.v} /\ op.base = journal[i].base
      BY <1>0, <2>1, <2>3 DEF OpTrees, Projection
    <3>2. InSwap(i)
      BY <2>1, SwapState DEF StateFits, Projection
    <3>3. op.base.v \in {AcceptedHead.v, Edited}
      BY <3>1, <3>2 DEF TreesFit, Holds
    <3> QED
      BY <2>1, <2>2, <2>3, <3>1, <3>3
  <2>4. CASE i \notin Run
    <3>1. i \in Rollback
      BY <2>4, Someone
    <3>2. ws.v \in {op.tree.v, Edited}
      BY <2>1 DEF OpTrees, Projection, Near
    <3>3. PICK k \in 1..Len(versions) : versions[k].v = op.tree.v
      BY <2>1, <3>1, IndexTyped DEF OpTrees, Projection
    <3>4. versions'[k].v = op.tree.v /\ k \in 1..(Len(versions') - 1)
      BY <1>0, <1>1, <3>3 DEF Appended
    <3> QED
      BY <2>1, <2>4, <3>2, <3>4
  <2> QED
    BY <2>3, <2>4
<1>2. CASE Reverted
  <2>1. AcceptedHead = Latest' /\ op.pc = "revert"
    BY <1>2, HeadTurns DEF Reverted
  <2>2. Latest.id \in Id /\ Latest.id = op.id
    BY <1>2 DEF Reverted
  <2>3. State(op.id) = "ROLLED_BACK"
    BY <2>1 DEF StateFits
  <2>4. AcceptedHead = versions[Len(versions) - 1] /\ Len(versions) > 1
    BY <2>2, <2>3, AcceptedHeadIs, Someone
  <2>5. State(i) = "ACKNOWLEDGED"
    <3>1. Len(versions) - 1 # 1
      BY <2>1, <2>4, Someone DEF VersionsFit
    <3>2. Len(versions) - 1 \in 2..(Len(versions) - 1)
      BY <1>0, <2>4, <3>1
    <3> QED
      BY <2>1, <2>4, <3>2 DEF VersionsFit
  <2>6. State(i)' = "ACKNOWLEDGED"
    BY <2>5, StatesTurn, SwapState DEF StateTurns
  <2> QED
    BY <2>6
<1>3. CASE versions' = versions
  <2>1. Latest.id = i /\ Latest' = Latest
    BY <1>3 DEF Latest
  <2>2. State(i) # "ACKNOWLEDGED"
    BY StatesTurn, SwapState DEF StateTurns
  <2>3. AcceptedHead' = AcceptedHead
    <3>1. SUFFICES ASSUME op.pc = "acknowledge", op'.pc = "retention", op'.id = op.id, Latest.id = op.id
                   PROVE  FALSE
      BY HeadTurns
    <3>2. AcknowledgeJournal
      BY <3>1, Arrivals, ExamineBegins DEF Stays
    <3>3. JournalSet(op.id, "ACKNOWLEDGED")
      BY <3>2, AcknowledgeJournalDoes
    <3> QED
      BY <2>1, <3>1, <3>3 DEF JournalSet, State
  <2> QED
    BY <1>3, <2>1, <2>2, <2>3 DEF ResultFits
<1> QED
  BY <1>1, <1>2, <1>3, IndexTurns

----------------------------------------------------------------------------
(* The row has the configuration that was rendered. *)

\* The configuration in the trees stays, unless AGENTS.md is rendered.
LEMMA RenderedStays ==
    ASSUME TypeOK, OpTypes, Knows, PcFits, StateFits, PermitFits, ReceiptsFit, PublishedFits,
           VersionsFit, OpenFits, BackupFits, ShownFits, HeadFits, OpTrees, TreesFit,
           TypeOK', VersionsFit', Next, NEW p, Rendered(p), ~Renders
    PROVE  Rendered(p)'
<1>1. ASSUME \A i \in Id : ~InSwap(i)' PROVE ws'.p = p
  <2>1. CASE \A i \in Id : ~InSwap(i)
    <3>1. op.pc \notin {"vacate", "fill", "undo"}
      BY <2>1, Owner, SwapState DEF StateFits, Swapping
    <3>2. ws.p = p
      BY <2>1 DEF Rendered
    <3> QED
      BY <3>1, <3>2, WorkspaceTurns DEF Exchanges, Edits
  <2>2. ASSUME NEW i \in Id, InSwap(i) PROVE ws'.p = p
    <3>1. op.id = i /\ StateTurns(i) /\ ~InSwap(i)' /\ op' # op
      <4>1. ~InSwap(i)'
        BY <1>1
      <4>2. op.id = i /\ StateTurns(i)
        BY <2>2, <4>1, StatesTurn, SwapState
      <4> QED
        BY <4>1, <4>2, SwapState, <2>2 DEF StateTurns, Knows
    <3>2. op.pc \in {"acknowledge", "close", "undo"}
      BY <2>2, <3>1, SwapState DEF StateTurns
    <3>3. ws' = ws
      BY <3>1, <3>2, WorkspaceTurns DEF Edits, Exchanges
    <3>4. Places(i) /\ journal[i].target.p = journal[i].base.p /\ journal[i].base.p = p
      BY <2>2 DEF TreesFit, Rendered, InSwap
    <3>5. ws # None
      <4>1. CASE op.pc = "undo"
        <5>1. ws = journal[i].base
          BY <3>1, <4>1 DEF StateTurns
        <5> QED
          BY <2>2, <5>1, JournalKnown, TreeIs DEF InSwap
      <4> QED
        BY <3>2, <4>1 DEF BackupFits
    <3> QED
      BY <3>3, <3>4, <3>5 DEF Places, Near
  <2> QED
    BY <2>1, <2>2
<1>2. ASSUME NEW i \in Id, InSwap(i)' PROVE journal'[i].base.p = p
  <2>1. CASE InSwap(i)
    BY <1>2, <2>1, SwapGoesOn DEF Rendered
  <2>2. CASE ~InSwap(i)
    <3>1. /\ \A j \in Id : ~Open(j)
          /\ journal'[i].base = journal[i].base /\ journal[i].base = op.base /\ Near(ws, op.base)
      BY <1>2, <2>2, SwapOpens
    <3>2. ws.p = p
      BY <3>1 DEF Rendered, Open
    <3> QED
      BY <3>1, <3>2 DEF Near
  <2> QED
    BY <2>1, <2>2
<1> QED
  BY <1>1, <1>2 DEF Rendered

\* Where nothing is open, a step that is not a promotion's opens nothing.
LEMMA StaysClosed ==
    ASSUME TypeOK, OpTypes, Knows, PcFits, StateFits, PermitFits, ReceiptsFit, PublishedFits,
           VersionsFit, OpenFits, BackupFits, ShownFits, HeadFits, OpTrees, Next,
           op.pc # "promoting", \A i \in Id : ~InSwap(i)
    PROVE  \A i \in Id : ~InSwap(i)'
BY SwapOpens

\* The configuration of the row is the one in the trees.
LEMMA RowRenderedKept ==
    ASSUME TypeOK, OpTypes, Knows, PcFits, StateFits, PermitFits, ReceiptsFit, PublishedFits,
           VersionsFit, OpenFits, BackupFits, ShownFits, HeadFits, OpTrees, TreesFit, RowFits,
           TypeOK', PcFits', VersionsFit', Next,
           up' = "up", ~db'.locked, op'.pc # "configure", db'.live.p = db'.cfg
    PROVE  Rendered(db.live.p)'
<1>0. op'.pc \notin {"settle", "dispositions"}
  BY DEF PcFits, ProcessFits
<1>1. CASE Configures
  <2>1. op.pc = "configure" /\ up = "up" /\ op.id = None
    BY <1>1, InRun, OwnerOfNobody DEF Configures, InRecovery
  <2>2. ConfigureRow
    <3>1. ~Fault
      <4>1. db.cfg \in Nat
        BY GateAssumption DEF TypeOK, Rows
      <4> QED
        BY <1>1, <4>1, FaultDoes DEF Configures
    <3> QED
      BY <1>1, <2>1, <3>1, ConfigureEnds DEF Configures, Idle
  <2>3. ws' = ws /\ db'.live = ws
    BY <2>2, ConfigureRowDoes
  <2>4. \A i \in Id : ~InSwap(i)
    BY <2>1, ClosedAlone DEF Open
  <2>5. \A i \in Id : ~InSwap(i)'
    BY <2>1, <2>4, StaysClosed
  <2> QED
    BY <2>3, <2>5 DEF Rendered
<1>2. CASE Projects
  <2>1. PICK i \in Id : i = op.id /\ i # None
    BY <1>2, Someone DEF Projects
  <2>2. op.pc = "project" /\ op'.pc = "dropBackup" /\ InSwap(i) /\ Open(i)
    BY <1>2, <2>1, SwapState DEF Projects, StateFits, Projection, Open
  <2>3. journal' = journal
    BY <2>2, Quiet
  <2>4. journal[i].target.p = journal[i].base.p
    BY <2>2 DEF TreesFit, InSwap
  <2>5. db'.live.p = journal[i].base.p
    <3>1. CASE i \in Run
      <4>1. db'.live = receipt[i].final
        BY <1>2, <2>1, <3>1 DEF Projects
      <4>2. receipt[i].final.p = journal[i].target.p
        BY <2>2, <3>1 DEF TreesFit
      <4> QED
        BY <2>4, <4>1, <4>2
    <3>2. CASE i \notin Run
      <4>1. db'.live = ws
        BY <1>2, <2>1, <3>2 DEF Projects
      <4>2. Near(ws, op.tree) /\ journal[i].target = op.tree
        BY <2>1, <2>2 DEF OpTrees, Projection
      <4> QED
        BY <2>4, <4>1, <4>2 DEF Near
    <3> QED
      BY <3>1, <3>2
  <2>6. \A j \in Id : InSwap(j)' => j = i
    BY <2>1, <2>2, <2>3 DEF InSwap, OpenFits, Open
  <2>7. InSwap(i)'
    BY <2>2, <2>3 DEF InSwap
  <2> QED
    BY <2>3, <2>5, <2>6, <2>7 DEF Rendered
<1>3. CASE ~Configures /\ ~Projects
  <2>1. db'.live = db.live /\ db'.cfg = db.cfg
    BY <1>0, <1>3, ShowTurns DEF Reprojects, Settles
  <2>2. PICK p : p = db.live.p
    OBVIOUS
  <2>3. Rendered(p)' => Rendered(db.live.p)'
    BY <2>1, <2>2 DEF Rendered
  <2>4. CASE Renders
    <3>1. op.pc # "promoting" /\ \A i \in Id : ~InSwap(i)
      BY <2>4, NotRendered DEF Open, Renders, Idle
    <3>2. \A i \in Id : ~InSwap(i)'
      BY <3>1, StaysClosed
    <3>3. ws'.p = p
      BY <2>1, <2>2, <2>4 DEF Renders
    <3> QED
      BY <2>3, <3>2, <3>3 DEF Rendered
  <2>5. CASE ~Renders /\ up = "up"
    <3>1. op.pc # "configure"
      <4>1. SUFFICES ASSUME op.pc = "configure" PROVE FALSE
        OBVIOUS
      <4>2. db.cfg \in 0..MaxConfigs /\ MaxConfigs \in Nat
        BY GateAssumption DEF TypeOK, Rows
      <4>3. op' # op /\ ~ConfigureRow
        BY <2>1, <4>1, <4>2, ConfigureRowDoes
      <4>4. Fault
        BY <4>1, <4>3, ConfigureEnds
      <4>5. op' = Idle /\ ws' = [ws EXCEPT !.p = db.cfg]
        BY <4>1, <4>4, FaultDoes DEF FaultEarly, FaultInSwap, FaultLate
      <4>6. ws \in Tree /\ ws # None
        BY <4>1, WorkspaceThere
      <4>7. ws' # None /\ ws'.v = ws.v /\ ws'.p = db.cfg
        <5>1. ws' \in Tree
          <6>1. ws.v \in Content
            BY <4>6 DEF Tree
          <6> QED
            BY <4>2, <4>5, <4>6, <6>1, TreeEdited
        <5>2. ws.v \in Content
          BY <4>6 DEF Tree
        <5> QED
          BY <4>2, <4>5, <4>6, <5>1, <5>2, TreeEdited, TreeIs
      <4> QED
        BY <2>5, <4>1, <4>5, <4>6, <4>7 DEF Renders
    <3>2. op.pc # "settle"
      BY <2>5, Recovers
    <3>3. Rendered(p)
      BY <2>1, <2>2, <2>5, <3>1, <3>2, LockStays DEF RowFits
    <3> QED
      BY <2>3, <2>5, <3>3, RenderedStays
  <2>6. CASE ~Renders /\ up # "up"
    <3>1. Serve
      BY <2>6, Writers, StartDoes, FaultAtStartupDoes, CrashDoes
    <3>2. op.pc = "dispositions" /\ db' = db
      BY <3>1, ServeDoes
    <3>3. Rendered(p)
      BY <2>2, <3>2 DEF RowFits
    <3> QED
      BY <2>3, <2>6, <3>3, RenderedStays
  <2> QED
    BY <2>4, <2>5, <2>6
<1> QED
  BY <1>1, <1>2, <1>3

\* ... and startup recovery makes it so.
LEMMA ReprojectedKept ==
    ASSUME TypeOK, OpTypes, Knows, PcFits, StateFits, PermitFits, ReceiptsFit, PublishedFits,
           VersionsFit, OpenFits, BackupFits, ShownFits, HeadFits, OpTrees, TreesFit, RowFits,
           TypeOK', VersionsFit', Next,
           \/ op'.pc = "settle" /\ startup'.manual = "no"
           \/ op'.pc = "dispositions" /\ ~db'.locked
    PROVE  Rendered(db.live.p)'
<1>1. PICK p : p = db'.live.p
  OBVIOUS
<1>2. Rendered(p)' => Rendered(db.live.p)'
  BY <1>1 DEF Rendered
<1>3. ~Projects /\ ~Configures
  BY DEF Projects, Configures, Idle
<1>4. op.pc \in {"settle", "dispositions"} => ~Renders
  <2>1. op'.pc \notin {"issue", "configure", "idle"}
    OBVIOUS
  <2> QED
    BY <2>1 DEF Renders, Idle
<1>5. CASE Reprojects
  <2>1. op.pc = "journals" /\ up = "starting" /\ startup.todo = {} /\ startup.manual = "no" /\ ws # None
    BY <1>5, Recovers DEF Reprojects
  <2>2. \A i \in Id : ~InSwap(i)
    BY <2>1, Decided, SwapState DEF Open, Announced
  <2>3. \A i \in Id : ~InSwap(i)'
    BY <2>1, <2>2, StaysClosed
  <2>4. ws' = ws /\ db'.live = ws
    BY <1>5, <2>1, WorkspaceTurns DEF Reprojects, Edits, Renders, Exchanges, Idle
  <2> QED
    BY <2>3, <2>4 DEF Rendered
<1>6. CASE Settles
  <2>1. op.pc = "settle" /\ op'.pc = "dispositions" /\ startup.manual = "no" /\ db'.live = db.live
    BY <1>6 DEF Settles
  <2>2. Rendered(p)
    BY <1>1, <2>1 DEF RowFits
  <2> QED
    BY <1>2, <1>4, <2>1, <2>2, RenderedStays
<1>7. CASE ~Reprojects /\ ~Settles
  <2>1. /\ db'.live = db.live
        /\ op'.pc = "settle" => (op.pc = "settle" /\ startup' = startup) \/ startup'.manual # "no"
        /\ op'.pc # "dispositions" \/ op.pc = "dispositions"
    BY <1>3, <1>7, ShowTurns
  <2>2. \/ op.pc = "settle" /\ startup.manual = "no"
        \/ op.pc = "dispositions" /\ ~db.locked
    BY <2>1, LockStays
  <2>3. Rendered(p)
    BY <1>1, <2>1, <2>2 DEF RowFits
  <2> QED
    BY <1>2, <1>4, <2>2, <2>3, RenderedStays
<1> QED
  BY <1>5, <1>6, <1>7

\* A process that never died has the row it configured.
LEMMA ConfiguredKept ==
    ASSUME TypeOK, OpTypes, Knows, PcFits, StateFits, PermitFits, ReceiptsFit, PublishedFits,
           VersionsFit, OpenFits, BackupFits, ShownFits, HeadFits, OpTrees, TreesFit, RowFits,
           TypeOK', VersionsFit', Next, crashes' = 0
    PROVE  /\ up' = "up" /\ db'.live.p = db'.cfg
           /\ \A i \in Id : InSwap(i)' => journal'[i].target.p = db'.cfg
<1>1. crashes = 0
  BY BoundsTurn DEF TypeOK
<1>2. up = "up" /\ db.live.p = db.cfg /\ \A i \in Id : InSwap(i) => journal[i].target.p = db.cfg
  BY <1>1 DEF RowFits
<1>3. up' = "up"
  BY <1>1, <1>2, Writers, ServeDoes, StartDoes, FaultAtStartupDoes, CrashDoes
<1>4. op.pc \notin {"journals", "settle", "dispositions"}
  BY <1>2, Recovers
<1>5. CASE Configures
  <2>1. op.pc = "configure" /\ db'.live = ws /\ db'.cfg = db.cfg + 1 /\ op.id = None
    BY <1>5, OwnerOfNobody DEF Configures
  <2>2. ws.p = db.cfg + 1
    BY <2>1 DEF OpTrees
  <2>3. \A i \in Id : ~InSwap(i)
    BY <1>2, <2>1, ClosedAlone DEF Open
  <2>4. \A i \in Id : ~InSwap(i)'
    BY <2>1, <2>3, StaysClosed
  <2> QED
    BY <1>3, <2>1, <2>2, <2>4
<1>6. CASE ~Configures
  <2>1. db'.cfg = db.cfg
    <3>1. CASE Project
      BY <3>1, ProjectDoes
    <3>2. Projects => Project
      BY Arrivals, FaultDoes, ExamineBegins DEF Projects, Stays, FaultEarly, FaultInSwap, FaultLate, Becomes, Moves, Idle
    <3> QED
      BY <1>6, <3>1, <3>2, ShowTurns DEF Reprojects, Settles
  <2>2. db'.live.p = db'.cfg
    <3>1. CASE Projects
      <4>1. PICK i \in Id : i = op.id /\ i # None
        BY <3>1, Someone DEF Projects
      <4>2. op.pc = "project" /\ InSwap(i)
        BY <3>1, <4>1, SwapState DEF Projects, StateFits, Projection
      <4>3. journal[i].target.p = db.cfg
        BY <1>2, <4>2
      <4>4. CASE i \in Run
        BY <2>1, <3>1, <4>1, <4>2, <4>3, <4>4 DEF Projects, TreesFit
      <4>5. CASE i \notin Run
        <5>1. Near(ws, op.tree) /\ journal[i].target = op.tree
          BY <4>1, <4>2 DEF OpTrees, Projection
        <5> QED
          BY <2>1, <3>1, <4>1, <4>3, <4>5, <5>1 DEF Projects, Near
      <4> QED
        BY <4>4, <4>5
    <3>2. CASE ~Projects
      BY <1>2, <1>4, <1>6, <2>1, <3>2, ShowTurns DEF Reprojects, Settles
    <3> QED
      BY <3>1, <3>2
  <2>3. ASSUME NEW i \in Id, InSwap(i)' PROVE journal'[i].target.p = db'.cfg
    <3>1. CASE InSwap(i)
      BY <1>2, <2>1, <2>3, <3>1, SwapGoesOn
    <3>2. CASE ~InSwap(i)
      <4>1. /\ op.pc = "promoting" /\ op.id = i /\ journal'[i].target = op.tree
        BY <2>3, <3>2, SwapOpens
      <4>2. op.tree.p = db.cfg
        <5>1. CASE i \in Run
          BY <1>2, <4>1, <5>1 DEF OpTrees, Comparison
        <5>2. CASE i \notin Run
          <6>1. i \in Rollback
            BY <5>2, Someone
          <6> QED
            BY <4>1, <6>1 DEF OpTrees, Comparison
        <5> QED
          BY <5>1, <5>2
      <4> QED
        BY <2>1, <4>1, <4>2
    <3> QED
      BY <3>1, <3>2
  <2> QED
    BY <1>3, <2>2, <2>3
<1> QED
  BY <1>5, <1>6

LEMMA RowFitsKept ==
    ASSUME TypeOK, OpTypes, Knows, PcFits, StateFits, PermitFits, ReceiptsFit, PublishedFits,
           VersionsFit, OpenFits, BackupFits, ShownFits, HeadFits, OpTrees, TreesFit, RowFits,
           TypeOK', PcFits', VersionsFit', Next
    PROVE  RowFits'
<1>1. up' = "up" /\ ~db'.locked /\ op'.pc # "configure" /\ db'.live.p = db'.cfg => Rendered(db.live.p)'
  BY RowRenderedKept
<1>2. op'.pc = "settle" /\ startup'.manual = "no" => Rendered(db.live.p)'
  BY ReprojectedKept
<1>3. op'.pc = "dispositions" /\ ~db'.locked => Rendered(db.live.p)'
  BY ReprojectedKept
<1>4. crashes' = 0 => /\ up' = "up" /\ db'.live.p = db'.cfg
                      /\ \A i \in Id : InSwap(i)' => journal'[i].target.p = db'.cfg
  BY ConfiguredKept
<1> QED
  BY <1>1, <1>2, <1>3, <1>4 DEF RowFits, Rendered

----------------------------------------------------------------------------
(* The invariant is inductive. *)

LEMMA ResultFitsNext ==
    ASSUME TypeOK, OpTypes, Knows, PcFits, StateFits, PermitFits, ReceiptsFit, PublishedFits,
           VersionsFit, OpenFits, BackupFits, OpTrees, TreesFit, ResultFits, TypeOK', VersionsFit', Next
    PROVE  ResultFits'
<1>1. SUFFICES ASSUME NEW i \in Id, Latest'.id = i, State(i)' # "ACKNOWLEDGED"
               PROVE  Latest'.v \in (IF i \in Run THEN {i, AcceptedHead'.v}
                                     ELSE {versions'[k].v : k \in 1..(Len(versions') - 1)}) \cup {Edited}
  BY DEF ResultFits, State
<1> QED
  BY <1>1, ResultFitsKept

LEMMA GateIInvKept ==
    ASSUME GateIInv, Next
    PROVE  GateIInv'
<1>1. /\ TypeOK /\ OpTypes /\ Knows /\ PcFits /\ StateFits /\ PermitFits
      /\ VersionsFit /\ OpenFits /\ BackupFits
      /\ ReceiptsFit /\ ShownFits /\ HeadFits /\ PublishedFits
      /\ TreesFit /\ Untouched /\ OpTrees /\ AnnouncedFits /\ RowFits
      /\ SnapshotsFit /\ ResultFits
  BY DEF GateIInv
<1>2. TypeOK'
  BY <1>1, TypeOKKept
<1>3. OpTypes' /\ Knows' /\ PcFits'
  BY <1>1, OpTypesKept, KnowsKept, PcFitsKept
<1>4. StateFits' /\ PermitFits' /\ VersionsFit'
  BY <1>1, <1>2, StateFitsKept, PermitFitsKept, VersionsFitKept
<1>5. OpenFits' /\ BackupFits' /\ ReceiptsFit'
  BY <1>1, <1>2, <1>3, OpenFitsKept, BackupFitsKept, ReceiptsFitKept
<1>6. ShownFits' /\ HeadFits' /\ PublishedFits'
  BY <1>1, <1>2, <1>3, ShownFitsKept, HeadFitsKept, PublishedFitsKept
<1>7. TreesFit'
  BY <1>1, <1>2, <1>3, <1>4, <1>6, TreesFitKept
<1>8. Untouched' /\ OpTrees' /\ AnnouncedFits'
  BY <1>1, <1>2, <1>3, <1>4, UntouchedKept, OpTreesKept, AnnouncedFitsKept
<1>9. RowFits' /\ SnapshotsFit' /\ ResultFits'
  BY <1>1, <1>2, <1>3, <1>4, RowFitsKept, SnapshotsFitKept, ResultFitsNext
<1> QED
  BY <1>2, <1>3, <1>4, <1>5, <1>6, <1>7, <1>8, <1>9 DEF GateIInv

LEMMA InvariantIsStable ==
    ASSUME GateIInv, UNCHANGED vars
    PROVE  GateIInv'
<1>1. /\ ws' = ws /\ backup' = backup /\ journal' = journal /\ permit' = permit /\ proposal' = proposal
      /\ receipt' = receipt /\ versions' = versions /\ snapshots' = snapshots /\ db' = db
      /\ published' = published /\ spoken' = spoken /\ up' = up /\ reserved' = reserved
      /\ startup' = startup /\ op' = op /\ crashes' = crashes /\ faults' = faults /\ drifts' = drifts
  BY DEF vars, diskVars, dbVars, processVars, boundVars
<1>2. TypeOK' /\ OpTypes' /\ Knows' /\ PcFits'
  BY <1>1 DEF GateIInv, TypeOK, OpTypes, Knows, PcFits, OwnerFits, RestFits, ProcessFits, TodoFits, RecoveryFits
<1>3. StateFits' /\ PermitFits'
  BY <1>1 DEF GateIInv, StateFits, PermitFits, State
<1>4. VersionsFit' /\ HeadFits'
  BY <1>1 DEF GateIInv, VersionsFit, HeadFits, State, Committed, Latest, Orphaned
<1>5. OpenFits' /\ BackupFits'
  BY <1>1 DEF GateIInv, OpenFits, BackupFits, Open, InSwap, Undecided, Announced, State, Committed, Phase, AwaitsRecovery
<1>6. ReceiptsFit' /\ PublishedFits'
  BY <1>1 DEF GateIInv, ReceiptsFit, PublishedFits, Unpublished, CompletedFits, Accepts, Phase, State, Committed, InSwap, AwaitsAck
<1>7. ShownFits'
  BY <1>1 DEF GateIInv, ShownFits, Shown, Orphaned, State, Committed, AwaitsRecovery
<1>8. /\ Latest' = Latest /\ AcceptedHead' = AcceptedHead /\ Restorable' = Restorable
      /\ \A i : /\ State(i)' = State(i) /\ InSwap(i)' = InSwap(i) /\ Places(i)' = Places(i)
               /\ Committed(i)' = Committed(i) /\ Announced(i)' = Announced(i)
  <2>1. Latest' = Latest /\ \A i : State(i)' = State(i) /\ Settled(i)' = Settled(i) /\ InSwap(i)' = InSwap(i)
    BY <1>1 DEF Latest, State, Settled, InSwap
  <2>2. AcceptedHead' = AcceptedHead
    <3>1. Settled(Latest.id)' = Settled(Latest.id)
      BY <1>1, <2>1 DEF Settled
    <3>2. Accepted' = Accepted
      BY <1>1, <2>1, <3>1 DEF Accepted
    <3> QED
      BY <3>2 DEF AcceptedHead
  <2>3. Restorable' = Restorable
    BY <1>1 DEF Restorable, Available
  <2>4. \A i : /\ Places(i)' = Places(i) /\ Committed(i)' = Committed(i) /\ Announced(i)' = Announced(i)
    BY <1>1, <2>1 DEF Places, Near, Committed, Announced, Phase
  <2> QED
    BY <2>1, <2>2, <2>3, <2>4
<1>9. TreesFit'
  <2>1. TreesFit
    BY DEF GateIInv
  <2> QED
    BY <1>1, <1>8, <2>1 DEF TreesFit, Holds
<1>10. Untouched'
  BY <1>1 DEF GateIInv, Untouched
<1>11. OpTrees' /\ AnnouncedFits'
  <2>1. OpTrees /\ AnnouncedFits
    BY DEF GateIInv
  <2>2. OpTrees'
    BY <1>1, <1>8, <2>1 DEF OpTrees, Holds, Near
  <2>3. AnnouncedFits'
    BY <1>1, <1>8, <2>1 DEF AnnouncedFits, Near
  <2> QED
    BY <2>2, <2>3
<1>12. RowFits'
  <2>1. RowFits
    BY DEF GateIInv
  <2> QED
    BY <1>1, <1>8, <2>1 DEF RowFits, Rendered
<1>13. SnapshotsFit' /\ ResultFits'
  <2>1. SnapshotsFit /\ ResultFits
    BY DEF GateIInv
  <2>2. State(Latest.id)' = State(Latest.id)
    BY <1>1, <1>8 DEF State
  <2>3. SnapshotsFit'
    BY <1>1, <1>8, <2>1 DEF SnapshotsFit, RecoveryKeepsAll
  <2>4. ResultFits'
    BY <1>1, <1>8, <2>1, <2>2 DEF ResultFits
  <2> QED
    BY <2>3, <2>4
<1> QED
  BY <1>2, <1>3, <1>4, <1>5, <1>6, <1>7, <1>9, <1>10, <1>11, <1>12, <1>13 DEF GateIInv

----------------------------------------------------------------------------
(* It holds at first. *)

LEMMA InitialStores ==
    ASSUME Init
    PROVE  /\ ws \in Tree /\ ws.v = Initial /\ ws.p = 0 /\ ws # None /\ db.headLive = ws /\ db.live = ws
           /\ db.head = Initial /\ db.cfg = 0 /\ ~db.locked /\ db.thread = None
           /\ \A i \in Id : backup[i] = None /\ journal[i] = None /\ permit[i] = "NONE" /\ State(i) = "NONE"
           /\ \A r \in Run : receipt[r] = None /\ published[r] = "none" /\ Phase(r) = "NONE"
                             /\ proposal[r] = "NONE"
           /\ versions = <<[id |-> Initial, v |-> Initial]>> /\ Len(versions) = 1
           /\ versions[1].id = Initial /\ versions[1].v = Initial
           /\ DOMAIN versions = {1} /\ Latest.id = Initial /\ Latest.v = Initial
           /\ AcceptedHead = Latest
           /\ \A i \in Id : ~InSwap(i) /\ ~Committed(i) /\ ~Open(i)
           /\ spoken = {} /\ up = "up" /\ reserved = FALSE /\ op = Idle /\ startup = NoReport
           /\ crashes = 0 /\ faults = 0 /\ drifts = 0
<1>1. /\ \A i \in Id : backup[i] = None /\ journal[i] = None /\ permit[i] = "NONE" /\ State(i) = "NONE"
      /\ \A r \in Run : receipt[r] = None /\ published[r] = "none" /\ Phase(r) = "NONE" /\ proposal[r] = "NONE"
  BY DEF Init, State, Phase
<1>2. /\ ws \in Tree /\ ws.v = Initial /\ ws.p = 0 /\ ws # None /\ db.headLive = ws /\ db.live = ws
      /\ db.head = Initial /\ db.cfg = 0 /\ ~db.locked /\ db.thread = None
  <2>1. ws = [v |-> Initial, p |-> 0] /\ Initial \in Content /\ 0 \in 0..MaxConfigs
    BY GateAssumption DEF Init, Content
  <2>2. ws \in Tree /\ ws.v = Initial /\ ws.p = 0
    BY <2>1 DEF Tree
  <2> QED
    BY <2>2, TreeIs DEF Init
<1>3. /\ versions = <<[id |-> Initial, v |-> Initial]>> /\ Len(versions) = 1
      /\ versions[1].id = Initial /\ versions[1].v = Initial /\ DOMAIN versions = {1}
  BY DEF Init
<1>4. Latest = versions[1]
  BY <1>3 DEF Latest
<1>5. AcceptedHead = Latest
  BY <1>3, <1>4 DEF AcceptedHead, Accepted
<1>6. \A i \in Id : ~InSwap(i) /\ ~Committed(i) /\ ~Open(i)
  BY <1>1, <1>3, Someone DEF InSwap, Committed, Open, Undecided, Announced
<1> QED
  BY <1>1, <1>2, <1>3, <1>4, <1>5, <1>6 DEF Init

LEMMA InitialTyped ==
    ASSUME Init
    PROVE  TypeOK
<1>1. ws \in Tree
  BY InitialStores
<1>2. /\ backup \in [Id -> Tree \cup {None}] /\ journal \in [Id -> Journals \cup {None}]
      /\ permit \in [Id -> Permits] /\ proposal \in [Run -> {"NONE", "SEALED", "DESTROYED"}]
      /\ receipt \in [Run -> Receipts \cup {None}]
  BY DEF Init, Permits
<1>3. versions \in Seq(Versions) /\ versions # <<>> /\ snapshots \in Seq(Snapshots)
  <2>1. [id |-> Initial, v |-> Initial] \in Versions
    BY DEF Versions, Content
  <2>2. [v |-> Initial, pruned |-> FALSE] \in Snapshots
    BY DEF Snapshots, Content
  <2> QED
    BY <2>1, <2>2 DEF Init
<1>4. db \in Rows
  <2>1. 0 \in 0..MaxConfigs
    BY GateAssumption
  <2>2. db = [status |-> "ready", head |-> Initial, headLive |-> ws, live |-> ws, gen |-> 1,
              cfg |-> 0, locked |-> FALSE, thread |-> None]
    BY DEF Init
  <2> QED
    BY <1>1, <2>1, <2>2 DEF Rows
<1>5. /\ published \in [Run -> {"none", "queued", "running", "completed", "failed", "cancelled"}]
      /\ spoken \subseteq Run /\ up \in {"up", "down", "starting"} /\ reserved \in BOOLEAN
      /\ op.id \in Id \cup {None} /\ startup \in Reports
      /\ crashes \in Nat /\ faults \in Nat /\ drifts \in Nat
  BY DEF Init, Idle, NoReport, Reports
<1> QED
  BY <1>1, <1>2, <1>3, <1>4, <1>5 DEF TypeOK

LEMMA InitialInvariant ==
    ASSUME Init
    PROVE  GateIInv
<1>1. TypeOK
  BY InitialTyped
<1>2. OpTypes /\ Knows /\ PcFits
  BY InitialStores, Someone DEF OpTypes, Knows, PcFits, OwnerFits, RestFits, ProcessFits, TodoFits, RecoveryFits, Idle,
     OfRuns, OfRollbacks, OfNobody, InRecovery, Admission, Preparation, Comparison, Swapping, Projection
<1>3. StateFits /\ PermitFits
  BY InitialStores DEF StateFits, PermitFits, Idle, Admission, Preparation, Comparison, Swapping, Projection, Acknowledgement,
     Cleanup, Refusal
<1>4. VersionsFit
  <2>1. /\ op.id = None /\ Len(versions) = 1 /\ DOMAIN versions = {1} /\ versions[1].id = Initial
        /\ \A i \in Id : State(i) = "NONE" /\ ~Committed(i)
    BY InitialStores DEF Idle
  <2>2. 2..(Len(versions) - 1) = {}
    BY <2>1
  <2> QED
    BY <2>1, <2>2 DEF VersionsFit
<1>5. OpenFits /\ BackupFits
  BY InitialStores DEF OpenFits, BackupFits, Idle, Projection
<1>6. ReceiptsFit
  <2>1. /\ op.id = None /\ op.pc = "idle" /\ up = "up" /\ startup.rolled = {} /\ None \notin Run
        /\ \A i \in Id : State(i) = "NONE" /\ ~Committed(i) /\ ~InSwap(i)
        /\ \A r \in Run : r \in Id /\ Phase(r) = "NONE" /\ ~Accepts(r)
    BY InitialStores, Someone DEF Idle, NoReport, Accepts
  <2> QED
    BY <2>1 DEF ReceiptsFit, Admission, Comparison
<1>7. ShownFits /\ HeadFits
  BY InitialStores, Someone DEF ShownFits, HeadFits, Shown, Idle, Acknowledgement, Cleanup
<1>8. PublishedFits
  BY InitialStores, Someone DEF PublishedFits, Unpublished, CompletedFits, Accepts, Idle
<1>9. TreesFit
  BY InitialStores DEF TreesFit, Holds, Idle, Acknowledgement
<1>10. Untouched
  BY InitialStores, GateAssumption DEF Untouched, Idle
<1>11. OpTrees /\ AnnouncedFits
  BY InitialStores, Someone DEF OpTrees, AnnouncedFits, Announced, Idle, Admission, Preparation, Comparison, Swapping, Projection
<1>12. RowFits
  BY InitialStores DEF RowFits, Rendered, Idle
<1>13. SnapshotsFit
  <2>1. snapshots = <<[v |-> Initial, pruned |-> FALSE]>> /\ DOMAIN snapshots = {1}
    BY DEF Init
  <2>2. Initial \in Restorable
    BY <2>1 DEF Restorable, Available
  <2> QED
    BY <2>1, <2>2, InitialStores DEF SnapshotsFit
<1>14. ResultFits
  BY InitialStores, Someone DEF ResultFits
<1> QED
  BY <1>1, <1>2, <1>3, <1>4, <1>5, <1>6, <1>7, <1>8, <1>9, <1>10, <1>11, <1>12, <1>13, <1>14 DEF GateIInv

----------------------------------------------------------------------------
(* What follows from it. *)

\* An Agent that takes requests has nothing open and the row has its head.
LEMMA CalmAtRest ==
    ASSUME GateIInv, Unlocked
    PROVE  /\ \A i \in Id : ~Open(i) /\ (Shown(i) => ~Orphaned(i))
           /\ AcceptedHead = Latest /\ db.head = Latest.id
<1>0. TypeOK /\ PcFits /\ VersionsFit /\ OpenFits /\ ShownFits /\ HeadFits
  BY DEF GateIInv
<1>1. up = "up" /\ op = Idle /\ ~db.locked /\ ~reserved /\ op.id = None
  BY DEF Unlocked, AtRest, Idle
<1>2. \A i \in Id : ~AwaitsRecovery(i) /\ i # None
  BY <1>1, Someone DEF AwaitsRecovery
<1>3. \A i \in Id : ~Open(i)
  BY <1>0, <1>1, <1>2 DEF OpenFits
<1>4. \A i \in Id : Shown(i) => ~Orphaned(i)
  BY <1>0, <1>1, <1>2 DEF ShownFits
<1>5. Latest.id = Initial \/ (Latest.id \in Id /\ State(Latest.id) = "ACKNOWLEDGED")
  BY <1>0, <1>3, LatestCommitted, PendingIsOpen
<1>6. AcceptedHead = Latest
  BY <1>0, <1>5, AcceptedHeadIs
<1>7. Len(versions) > 1 => Latest.id # Initial
  <2>1. Len(versions) \in Nat /\ DOMAIN versions = 1..Len(versions)
    BY <1>0, IndexTyped
  <2> QED
    BY <1>0, <2>1 DEF VersionsFit, Latest
<1>8. ~(db.head \in Id /\ Orphaned(db.head))
  BY <1>4 DEF Shown
<1>9. db.head = Latest.id
  BY <1>0, <1>5, <1>7, <1>8 DEF HeadFits
<1> QED
  BY <1>3, <1>4, <1>6, <1>9

LEMMA StoresAgreeThen ==
    ASSUME GateIInv
    PROVE  StoresAgree
<1>0. TypeOK /\ BackupFits /\ TreesFit /\ Untouched /\ RowFits
  BY DEF GateIInv
<1>1. SUFFICES ASSUME Unlocked, drifts = 0
               PROVE  /\ Latest.id = db.head /\ ws.v = Latest.v /\ db.live.v = ws.v
                      /\ db.live.p = db.cfg => ws = db.live
                      /\ crashes = 0 => db.live.p = db.cfg
                      /\ \A i \in Id : backup[i] = None
  BY DEF StoresAgree
<1>2. /\ \A i \in Id : ~Open(i) /\ ~InSwap(i)
      /\ AcceptedHead = Latest /\ db.head = Latest.id
  BY <1>1, CalmAtRest DEF Open
<1>3. ws # None /\ ws.v = Latest.v
  BY <1>0, <1>1, <1>2 DEF TreesFit, Holds, Untouched
<1>4. db.live.v = Latest.v
  <2>1. Len(versions) \in DOMAIN versions /\ versions[Len(versions)].id = db.head
    BY <1>0, <1>2, IndexTyped DEF Latest
  <2>2. Holds(db.live, Latest.v)
    BY <1>0, <2>1 DEF TreesFit, Latest
  <2> QED
    BY <1>0, <1>1, <2>2 DEF Holds, Untouched
<1>5. db.live.p = db.cfg => ws = db.live
  <2>1. SUFFICES ASSUME db.live.p = db.cfg PROVE ws = db.live
    OBVIOUS
  <2>2. ws.p = db.live.p
    BY <1>0, <1>1, <1>2, <2>1 DEF RowFits, Rendered, Unlocked, AtRest, Idle
  <2>3. ws \in Tree /\ db.live \in Tree
    BY <1>0, <1>3 DEF TypeOK, Rows
  <2> QED
    BY <1>3, <1>4, <2>2, <2>3 DEF Tree
<1>6. \A i \in Id : backup[i] = None
  BY <1>0, <1>2 DEF BackupFits
<1> QED
  BY <1>0, <1>2, <1>3, <1>4, <1>5, <1>6 DEF RowFits

LEMMA GateInvThen ==
    ASSUME GateIInv
    PROVE  GateInv
<1>0. TypeOK /\ VersionsFit /\ ReceiptsFit /\ ShownFits /\ PublishedFits
  BY DEF GateIInv
<1>1. ThreadIsHead
  BY <1>0 DEF ThreadIsHead, AtRest, ShownFits
<1>2. \A r \in Run : Phase(r) = "TERMINAL" /\ Accepts(r) => Committed(r) /\ Settled(r)
  BY <1>0, SwapState, Someone DEF ReceiptsFit, VersionsFit
<1>3. PublishedIsAcknowledged
  <2>1. \A r \in Run : published[r] = "completed" /\ Accepts(r) =>
           Phase(r) = "TERMINAL" /\ State(r) = "ACKNOWLEDGED"
    BY <1>0 DEF PublishedFits, CompletedFits, ReceiptsFit
  <2> QED
    BY <1>0, <1>2, <2>1 DEF PublishedIsAcknowledged, Accepts, ShownFits
<1>4. ReceiptsMatchHistory
  <2>1. SUFFICES ASSUME Unlocked, NEW r \in Run
                 PROVE  /\ Phase(r) = "TERMINAL" => (receipt[r].decision = "COMMITTED" <=> Committed(r))
                        /\ r \in spoken => Committed(r)
    BY DEF ReceiptsMatchHistory
  <2>2. Phase(r) = "TERMINAL" => (receipt[r].decision = "COMMITTED" <=> Committed(r))
    BY <1>0, <1>2 DEF ReceiptsFit, Accepts, Phase
  <2>3. r \in spoken => Committed(r)
    <3>1. r \in Id
      BY Someone
    <3>2. r \in spoken => ~Orphaned(r)
      BY <2>1, <3>1, CalmAtRest DEF Shown
    <3> QED
      BY <1>0, <3>1, <3>2 DEF ShownFits, Shown
  <2> QED
    BY <2>2, <2>3
<1> QED
  BY <1>0, <1>1, <1>3, <1>4, StoresAgreeThen DEF GateInv

\* The base of an open swap that is not the head's.
LEMMA BaseIsThere ==
    ASSUME GateIInv, drifts = 0, NEW i \in Id, InSwap(i), db.head # i
    PROVE  /\ ws = journal[i].base \/ backup[i] = journal[i].base
           /\ backup[i] = None => ws = journal[i].base
<1>0. TypeOK /\ TreesFit /\ Untouched
  BY DEF GateIInv
<1>1. journal[i] # None /\ journal[i].base \in Tree /\ journal[i].base # None
  BY <1>0, JournalKnown, TreeIs DEF InSwap
<1>2. ws \in Tree \cup {None} /\ backup[i] \in Tree \cup {None}
  BY <1>0 DEF TypeOK
<1>3. Near(ws, journal[i].base) => ws = journal[i].base
  <2>1. ws # None => ws.v # Edited
    BY <1>0 DEF Untouched
  <2> QED
    BY <1>1, <1>2, <2>1, SameTree DEF Near
<1>4. Near(backup[i], journal[i].base) => backup[i] = journal[i].base
  <2>1. backup[i] # None => backup[i].v # Edited
    BY <1>0 DEF Untouched
  <2> QED
    BY <1>1, <1>2, <2>1, SameTree DEF Near
<1> QED
  BY <1>0, <1>1, <1>3, <1>4 DEF TreesFit, Places

LEMMA BaseRecoverableThen ==
    ASSUME GateIInv
    PROVE  BaseRecoverable
BY BaseIsThere DEF BaseRecoverable

LEMMA HeadRestorableThen ==
    ASSUME GateIInv, crashes = 0 \/ RecoveryKeepsAll
    PROVE  HeadRestorable
BY DEF GateIInv, SnapshotsFit, HeadRestorable

\* Startup recovery does not come upon what it cannot reconcile.
LEMMA DecidesUnlessEditedKept ==
    ASSUME GateIInv, DecidesUnlessEdited, Next
    PROVE  DecidesUnlessEdited'
<1>0. /\ TypeOK /\ OpTypes /\ Knows /\ PcFits /\ StateFits /\ PermitFits
      /\ ReceiptsFit /\ PublishedFits /\ OpenFits /\ BackupFits /\ TreesFit /\ Untouched /\ AnnouncedFits
  BY DEF GateIInv
<1>1. SUFFICES ASSUME startup'.manual = "ambiguous", ~(drifts' > 0) PROVE FALSE
  BY DEF DecidesUnlessEdited
<1>2. drifts = 0
  BY <1>0, <1>1, BoundsTurn DEF TypeOK
<1>3. startup.manual # "ambiguous"
  BY <1>2 DEF DecidesUnlessEdited
<1>4. UndoJournal \/ Reproject
  <2>1. ASSUME NEW i \in Id, Examine(i) PROVE startup'.manual = startup.manual
    BY <1>0, <2>1, ExamineDoes
  <2>2. ASSUME NEW r \in Run, ScanReceipt(r) \/ DisposeAtStartup(r) PROVE startup'.manual = startup.manual
    BY <1>0, <2>2, ScanReceiptDoes, DisposeAtStartupDoes
  <2>3. Acknowledged \/ RolledBack \/ Settle => startup'.manual = startup.manual
    BY <1>0, AcknowledgedDoes, RolledBackDoes, SettleDoes
  <2>4. Serve \/ Start \/ Crash => startup'.manual = "no"
    <3>1. Serve \/ Crash => startup' = NoReport
      BY <1>0, ServeDoes, CrashDoes
    <3>2. Start => startup'.manual = "no"
      BY <1>0, StartDoes
    <3> QED
      BY <3>1, <3>2 DEF NoReport
  <2>5. FaultAtStartup => startup'.manual \in {"no", "fault", startup.manual}
    BY <1>0, FaultAtStartupDoes DEF NoReport, LeftToAnAdministrator
  <2> QED
    BY <1>0, <1>1, <1>3, <2>1, <2>2, <2>3, <2>4, <2>5, Writers
<1>5. CASE UndoJournal
  <2>1. /\ op.pc = "undo" /\ backup[op.id] = None /\ ws # journal[op.id].base
    BY <1>0, <1>1, <1>3, <1>5, UndoJournalDoes DEF LeftToAnAdministrator
  <2>2. op.id \in Id /\ InSwap(op.id) /\ db.head # op.id
    BY <1>0, <1>2, <2>1, Owner, SwapState DEF StateFits, TreesFit
  <2> QED
    BY <1>2, <2>1, <2>2, BaseIsThere
<1>6. CASE Reproject
  <2>1. /\ op.pc = "journals" /\ up = "starting" /\ startup.todo = {} /\ startup.manual = "no"
        /\ Unaccounted # {} \/ ws = None
        /\ \A r \in Unaccounted : ws # receipt[r].base
    BY <1>0, <1>1, <1>3, <1>6, ReprojectDoes, Recovers DEF Reproject
  <2>2. \A i \in Id : Open(i) => Announced(i)
    BY <1>0, <2>1, Decided
  <2>3. ws # None
    <3>1. \A i \in Id : ~InSwap(i)
      BY <2>2, SwapState DEF Open, Announced
    <3> QED
      BY <1>0, <3>1 DEF BackupFits
  <2>4. PICK r \in Run : r \in Unaccounted
    BY <2>1, <2>3 DEF Unaccounted
  <2>5. Announced(r) /\ receipt[r] # None
    BY <2>4 DEF Unaccounted, Announced, State, Phase
  <2>6. Near(ws, receipt[r].base) /\ ws # receipt[r].base
    BY <1>0, <2>1, <2>4, <2>5 DEF AnnouncedFits
  <2>7. ws \in Tree \cup {None} /\ receipt[r].base \in Tree
    BY <1>0, <2>5 DEF TypeOK, Receipts
  <2>8. ws.v # Edited
    BY <1>0, <1>2, <2>3 DEF Untouched
  <2> QED
    BY <2>6, <2>7, <2>8, SameTree
<1> QED
  BY <1>4, <1>5, <1>6

----------------------------------------------------------------------------
(* Swaps are authorized, and decisions are made one at a time. *)

\* How the permit of one identity turns.
LEMMA PermitsTurn ==
    ASSUME TypeOK, OpTypes, Knows, PcFits, StateFits, PermitFits, ReceiptsFit, Next, NEW i \in Id
    PROVE  \/ permit'[i] = permit[i]
           \/ /\ op.id = i
              /\ \/ op.pc = "issue" /\ permit[i] = "NONE"
                 \/ op.pc = "claim" /\ permit[i] = "ISSUED"
                 \/ op.pc = "consume" /\ permit[i] = "CONSUMING"
                 \/ op.pc \in {"reject", "withdraw"} /\ permit[i] \in {"ISSUED", "CONSUMING"}
<1>0. permit \in [Id -> Permits]
  BY DEF TypeOK
<1>1. CASE Reject
  BY <1>0, <1>1, RejectDoes
<1>2. CASE Issue
  BY <1>0, <1>2, IssueDoes DEF PermitFits
<1>3. CASE Claim
  BY <1>0, <1>3, ClaimDoes
<1>4. CASE Consume
  BY <1>0, <1>4, ConsumeDoes
<1>5. CASE Withdraw
  BY <1>0, <1>5, WithdrawDoes
<1> QED
  BY <1>1, <1>2, <1>3, <1>4, <1>5, Writers

LEMMA PermitsSpentKept ==
    ASSUME GateIInv, PermitsSpent, Next
    PROVE  PermitsSpent'
<1>0. /\ TypeOK /\ OpTypes /\ Knows /\ PcFits /\ StateFits /\ PermitFits
      /\ ReceiptsFit /\ PublishedFits
  BY DEF GateIInv
<1>1. SUFFICES ASSUME NEW i \in Id, State(i)' \in {"PROMOTING", "PROMOTED_PENDING_DB", "ACKNOWLEDGED"}
               PROVE  permit'[i] = "CONSUMED"
  BY DEF PermitsSpent, State
<1>2. CASE State(i) \in {"PROMOTING", "PROMOTED_PENDING_DB", "ACKNOWLEDGED"}
  BY <1>0, <1>2, PermitsTurn DEF PermitsSpent
<1>3. CASE State(i) \notin {"PROMOTING", "PROMOTED_PENDING_DB", "ACKNOWLEDGED"}
  <2>1. op.id = i /\ op.pc = "promoting"
    BY <1>0, <1>1, <1>3, StatesTurn DEF StateTurns
  <2>2. permit[i] = "CONSUMED"
    BY <1>0, <2>1 DEF PermitFits
  <2> QED
    BY <1>0, <2>2, PermitsTurn
<1> QED
  BY <1>2, <1>3

LEMMA SwapAuthorizedStep ==
    ASSUME GateIInv, Next, ws' # None, ws'.v # Edited, ws = None \/ ws'.v # ws.v
    PROVE  \/ \E i \in Id : ws' = backup[i]
           \/ \E i \in Id :
                 /\ InSwap(i) /\ journal[i].state = "PROMOTING" /\ journal[i].target = ws'
                 /\ permit[i] = "CONSUMED"
                 /\ IsRun(i) => AwaitsAck(i) /\ receipt[i].final = ws'
<1>0. /\ TypeOK /\ OpTypes /\ Knows /\ PcFits /\ StateFits /\ PermitFits
      /\ ReceiptsFit /\ PublishedFits /\ OpenFits /\ BackupFits /\ OpTrees
  BY DEF GateIInv
<1>1. Exchanges
  BY <1>0, WorkspaceTurns DEF Edits, Renders
<1>2. PICK i \in Id : i = op.id /\ i # None
  BY <1>0, <1>1, Owner DEF Exchanges
<1>3. CASE op.pc = "fill"
  <2>1. ws' = journal[i].target
    BY <1>1, <1>2, <1>3 DEF Exchanges
  <2>2. State(i) = "PROMOTING" /\ InSwap(i) /\ journal[i].state = "PROMOTING" /\ permit[i] = "CONSUMED"
    BY <1>0, <1>2, <1>3 DEF StateFits, PermitFits, Swapping, State, InSwap
  <2>3. ASSUME i \in Run PROVE AwaitsAck(i) /\ receipt[i].final = ws'
    <3>1. Accepts(i) /\ Phase(i) = "PENDING_PROMOTION"
      <4>1. Accepts(i)
        BY <1>0, <2>2, <2>3 DEF ReceiptsFit
      <4>2. Phase(i) \in {"PENDING_PROMOTION", "PENDING_DISPOSITION", "TERMINAL"}
        BY <1>0, <2>3, <4>1 DEF Accepts, Phase, TypeOK, Receipts
      <4> QED
        BY <1>0, <2>2, <2>3, <4>1, <4>2 DEF ReceiptsFit
    <3>2. receipt[i].final = op.tree /\ journal[i].target = op.tree
      BY <1>0, <1>2, <1>3, <2>3 DEF OpTrees, Swapping
    <3> QED
      BY <2>1, <3>1, <3>2 DEF AwaitsAck, Accepts
  <2> QED
    BY <2>1, <2>2, <2>3 DEF IsRun
<1>4. CASE op.pc # "fill"
  BY <1>1, <1>2, <1>4 DEF Exchanges
<1> QED
  BY <1>3, <1>4

----------------------------------------------------------------------------
(* The contract. *)

\* What a decision is read off.
Alike(j) ==
    /\ State(j)' = State(j) /\ permit'[j] = permit[j]
    /\ j \in Run => receipt'[j] = receipt[j]

LEMMA AlikeDecides ==
    ASSUME NEW j \in Id, Alike(j)
    PROVE  Decision(j)' = Decision(j)
<1>1. /\ Settled(j)' <=> Settled(j)
      /\ journal'[j] # None /\ journal'[j].state = "ROLLED_BACK" <=> journal[j] # None /\ journal[j].state = "ROLLED_BACK"
  BY DEF Alike, Settled, State
<1> QED
  BY <1>1 DEF Decision, Alike, IsRun

\* A step decides of one identity at most.
LEMMA OneAtATime ==
    ASSUME GateIInv, Next
    PROVE  \E i \in Id \cup {None} : \A j \in Id \ {i} : Alike(j)
<1>0. /\ TypeOK /\ OpTypes /\ Knows /\ PcFits /\ StateFits /\ PermitFits
      /\ ReceiptsFit /\ PublishedFits
  BY DEF GateIInv
<1>1. \A j \in Id : permit'[j] = permit[j] \/ op.id = j
  BY <1>0, PermitsTurn
<1>2. CASE op.id # None
  <2>1. op.id \in Id /\ op.pc \notin {"journals", "dispositions"}
    BY <1>0, <1>2, OwnerOfNobody DEF TypeOK
  <2>2. \A j \in Id \ {op.id} : State(j)' = State(j)
    BY <1>0, <2>1, StatesTurn
  <2>3. \A r \in Run \ {op.id} : receipt'[r] = receipt[r]
    BY <1>0, <2>1, ReceiptsTurn DEF RecoveryTurns
  <2> QED
    BY <1>1, <2>1, <2>2, <2>3 DEF Alike
<1>3. CASE op.id = None
  <2>0. \A j \in Id : permit'[j] = permit[j] /\ j # None
    BY <1>1, <1>3, Someone
  <2>1. ASSUME NEW i \in Id, Examine(i) PROVE \A j \in Id \ {i} : Alike(j)
    BY <1>0, <2>0, <2>1, ExamineDoes DEF Alike, JournalSet, State
  <2>2. ASSUME NEW r \in Run, ScanReceipt(r) \/ DisposeAtStartup(r) PROVE \A j \in Id \ {r} : Alike(j)
    <3>1. journal' = journal /\ \A s \in Run \ {r} : receipt'[s] = receipt[s]
      <4>1. CASE ScanReceipt(r)
        BY <4>1 DEF ScanReceipt, SetReceipt
      <4>2. CASE DisposeAtStartup(r)
        <5>1. journal' = journal /\ (receipt' = receipt \/ Disposed(r))
          BY <4>2 DEF DisposeAtStartup
        <5>2. Disposed(r) => \A s \in Run \ {r} : receipt'[s] = receipt[s]
          <6>1. receipt \in [Run -> Receipts \cup {None}]
            BY <1>0 DEF TypeOK
          <6> QED
            BY <6>1 DEF Disposed, SetReceipt
        <5> QED
          BY <5>1, <5>2
      <4> QED
        BY <2>2, <4>1, <4>2
    <3> QED
      BY <2>0, <3>1 DEF Alike, State
  <2>3. CASE journal' = journal /\ receipt' = receipt
    BY <2>0, <2>3 DEF Alike, State
  <2>4. journal' = journal \/ \E i \in Id : Examine(i)
    <3>1. op.pc \in {"idle", "configure", "journals", "settle", "dispositions"}
      BY <1>0, <1>3, Owner
    <3> QED
      BY <1>0, <3>1, Writers, StageDoes, CompareConflictDoes, PromotingDoes, PendingDatabaseDoes, AcknowledgeJournalDoes,
         UndoJournalDoes, CloseJournalDoes
  <2>5. \/ receipt' = receipt
        \/ \E r \in Run : ScanReceipt(r) \/ DisposeAtStartup(r)
    <3>1. op.pc \in {"idle", "configure", "journals", "settle", "dispositions"}
      BY <1>0, <1>3, Owner
    <3> QED
      BY <1>0, <3>1, Writers, RecordAdmissionFailureDoes, RejectReceiptDoes, DisposeDoes, RecordPromotionDoes, RecordFinalDoes,
         TerminalReceiptDoes, AbortReceiptDoes
  <2>6. \A r \in Run : r \in Id
    BY Someone
  <2> QED
    BY <2>1, <2>2, <2>3, <2>4, <2>5, <2>6
<1> QED
  BY <1>2, <1>3

\* No decision is revised, and a commit is an acknowledgement.
LEMMA DecisionTurns ==
    ASSUME GateIInv, PermitsSpent, Next, NEW i \in Id
    PROVE  \/ Decision(i)' = Decision(i)
           \/ Decision(i) = "OPEN" /\ Decision(i)' = "REFUSED"
           \/ /\ Decision(i) = "OPEN" /\ Decision(i)' = "COMMITTED"
              /\ op.id = i /\ op.pc = "acknowledge" /\ op'.pc = "retention"
              /\ State(i) = "PROMOTED_PENDING_DB" /\ State(i)' = "ACKNOWLEDGED"
<1>0. /\ TypeOK /\ OpTypes /\ Knows /\ PcFits /\ StateFits /\ PermitFits
      /\ ReceiptsFit /\ PublishedFits
  BY DEF GateIInv
<1>1. /\ Settled(i) <=> State(i) = "ACKNOWLEDGED"
      /\ Settled(i)' <=> State(i)' = "ACKNOWLEDGED"
      /\ journal[i] # None /\ journal[i].state = "ROLLED_BACK" <=> State(i) = "ROLLED_BACK"
      /\ (journal[i] # None /\ journal[i].state = "ROLLED_BACK")' <=> State(i)' = "ROLLED_BACK"
  BY SwapState DEF State
<1>2. /\ Decision(i) \in {"COMMITTED", "REFUSED", "OPEN"} /\ Decision(i)' \in {"COMMITTED", "REFUSED", "OPEN"}
      /\ Decision(i) = "COMMITTED" <=> State(i) = "ACKNOWLEDGED"
      /\ Decision(i)' = "COMMITTED" <=> State(i)' = "ACKNOWLEDGED"
  BY <1>1 DEF Decision
<1>3. i \in Run => /\ Decision(i) = "REFUSED" <=> State(i) # "ACKNOWLEDGED" /\ receipt[i] # None /\ receipt[i].decision # "COMMITTED"
                   /\ Decision(i)' = "REFUSED" <=> State(i)' # "ACKNOWLEDGED" /\ receipt'[i] # None /\ receipt'[i].decision # "COMMITTED"
  BY <1>1 DEF Decision, IsRun
<1>4. i \notin Run => /\ Decision(i) = "REFUSED" <=> State(i) # "ACKNOWLEDGED" /\ (permit[i] = "REVOKED" \/ State(i) = "ROLLED_BACK")
                      /\ Decision(i)' = "REFUSED" <=> State(i)' # "ACKNOWLEDGED" /\ (permit'[i] = "REVOKED" \/ State(i)' = "ROLLED_BACK")
  BY <1>1 DEF Decision, IsRun
<1>5. CASE State(i) = "ACKNOWLEDGED"
  <2>1. State(i)' = "ACKNOWLEDGED"
    BY <1>0, <1>5, StatesTurn, SwapState DEF StateTurns
  <2> QED
    BY <1>2, <1>5, <2>1
<1>6. CASE State(i) # "ACKNOWLEDGED" /\ State(i)' = "ACKNOWLEDGED"
  <2>1. op.id = i /\ op.pc = "acknowledge" /\ op'.pc = "retention" /\ State(i) = "PROMOTED_PENDING_DB"
    BY <1>0, <1>6, StatesTurn DEF StateTurns
  <2>2. Decision(i) # "REFUSED"
    <3>1. CASE i \in Run
      BY <1>0, <1>3, <2>1, <3>1, SwapState DEF ReceiptsFit, Accepts
    <3>2. CASE i \notin Run
      BY <1>4, <2>1, <3>2 DEF PermitsSpent
    <3> QED
      BY <3>1, <3>2
  <2> QED
    BY <1>2, <1>6, <2>1, <2>2
<1>7. CASE State(i) # "ACKNOWLEDGED" /\ State(i)' # "ACKNOWLEDGED"
  <2>1. SUFFICES ASSUME Decision(i) = "REFUSED" PROVE Decision(i)' = "REFUSED"
    BY <1>2, <1>7
  <2>2. CASE i \in Run
    <3>1. receipt[i] # None /\ receipt[i].decision # "COMMITTED" /\ ~Accepts(i)
      BY <1>3, <2>1, <2>2 DEF Accepts
    <3>2. receipt'[i] = receipt[i] \/ (op.id = i /\ ReceiptTurns(i)) \/ RecoveryTurns(i)
      BY <1>0, <2>2, ReceiptsTurn
    <3>3. op.id = i => op.pc # "record"
      BY <1>0, <2>2, <3>1 DEF ReceiptsFit
    <3>4. receipt'[i] # None /\ receipt'[i].decision # "COMMITTED"
      BY <3>1, <3>2, <3>3 DEF ReceiptTurns, RecoveryTurns, ReceiptIs, Refusals
    <3> QED
      BY <1>3, <1>7, <2>2, <3>4
  <2>3. CASE i \notin Run
    <3>1. permit[i] = "REVOKED" => permit'[i] = "REVOKED"
      BY <1>0, PermitsTurn
    <3>2. State(i) = "ROLLED_BACK" => State(i)' = "ROLLED_BACK"
      BY <1>0, StatesTurn, SwapState DEF StateTurns
    <3> QED
      BY <1>4, <1>7, <2>1, <2>3, <3>1, <3>2
  <2> QED
    BY <2>2, <2>3
<1> QED
  BY <1>5, <1>6, <1>7

----------------------------------------------------------------------------
(* How the history turns. *)

LEMMA FrontIs ==
    ASSUME NEW S, NEW s \in Seq(S), NEW t \in Seq(S), NEW n \in Nat, n = Len(s), Len(t) = n + 1,
           \A k \in 1..n : t[k] = s[k]
    PROVE  SubSeq(t, 1, Len(t) - 1) = s
OBVIOUS

LEMMA LastIs ==
    ASSUME NEW S, NEW t \in Seq(S), NEW n \in Nat, n = Len(t), n > 0
    PROVE  t = Append(SubSeq(t, 1, n - 1), t[n])
OBVIOUS

\* The accepted history, at a head with the given journal.
LEMMA AcceptedIs ==
    ASSUME NEW l, l = Latest
    PROVE  /\ l.id = Initial \/ State(l.id) = "ACKNOWLEDGED" => Accepted = versions
           /\ l.id # Initial /\ State(l.id) # "ACKNOWLEDGED" =>
                 Accepted = SubSeq(versions, 1, Len(versions) - 1)
BY SwapState DEF Accepted

LEMMA AcceptedIsNext ==
    ASSUME NEW l, l = Latest'
    PROVE  /\ l.id = Initial \/ State(l.id)' = "ACKNOWLEDGED" => Accepted' = versions'
           /\ l.id # Initial /\ State(l.id)' # "ACKNOWLEDGED" =>
                 Accepted' = SubSeq(versions', 1, Len(versions') - 1)
<1>1. Settled(Latest.id)' <=> State(l.id)' = "ACKNOWLEDGED"
  BY DEF Settled, State
<1> QED
  BY <1>1 DEF Accepted

\* Only an acknowledgement adds to the accepted history.
LEMMA HistoryTurns ==
    ASSUME GateIInv, TypeOK', VersionsFit', Next
    PROVE  \/ /\ Accepted' = Accepted
              /\ \A i \in Id : op.id = i /\ op.pc = "acknowledge" => State(i)' = State(i)
           \/ /\ op.pc = "acknowledge" /\ op.id \in Id /\ Latest.id = op.id
              /\ Accepted' = Append(Accepted, Latest)
              /\ Accepted = SubSeq(versions, 1, Len(versions) - 1)
<1>0. /\ TypeOK /\ OpTypes /\ Knows /\ PcFits /\ StateFits /\ PermitFits
      /\ ReceiptsFit /\ PublishedFits /\ VersionsFit /\ OpenFits
  BY DEF GateIInv
<1>1. /\ Len(versions) \in Nat /\ Len(versions) >= 1 /\ versions \in Seq(Versions) /\ versions' \in Seq(Versions)
      /\ Len(versions') \in Nat /\ Len(versions') >= 1
      /\ Latest.id \in Id \cup {Initial} /\ Initial \notin Id /\ versions[1].id = Initial
  BY <1>0, IndexTyped, LatestCommitted, Someone DEF TypeOK, VersionsFit
<1>2. PICK l : l = Latest
  OBVIOUS
<1>3. CASE versions' = versions
  <2>1. Latest' = l
    BY <1>2, <1>3 DEF Latest
  <2>2. CASE l.id = Initial
    <3>1. Accepted' = Accepted
      BY <1>2, <1>3, <2>1, <2>2, AcceptedIs, AcceptedIsNext
    <3>2. ASSUME NEW i \in Id, op.id = i, op.pc = "acknowledge", State(i)' # State(i) PROVE FALSE
      <4>1. Committed(i) /\ State(i) = "PROMOTED_PENDING_DB"
        BY <1>0, <3>2, Someone, StatesTurn DEF VersionsFit, Acknowledgement, StateTurns
      <4> QED
        BY <1>0, <1>1, <1>2, <2>2, <4>1, PendingIsLatest
    <3> QED
      BY <3>1, <3>2
  <2>3. CASE l.id \in Id /\ State(l.id)' = State(l.id)
    <3>1. Accepted' = Accepted
      BY <1>1, <1>2, <1>3, <2>1, <2>3, AcceptedIs, AcceptedIsNext
    <3>2. ASSUME NEW i \in Id, op.id = i, op.pc = "acknowledge", State(i)' # State(i) PROVE FALSE
      <4>1. Committed(i) /\ State(i) = "PROMOTED_PENDING_DB"
        BY <1>0, <3>2, Someone, StatesTurn DEF VersionsFit, Acknowledgement, StateTurns
      <4> QED
        BY <1>0, <1>2, <2>3, <3>2, <4>1, PendingIsLatest
    <3> QED
      BY <3>1, <3>2
  <2>4. CASE l.id \in Id /\ State(l.id)' # State(l.id)
    <3>1. Committed(l.id)
      BY <1>0, <1>2, LatestCommitted
    <3>2. State(l.id) \in {"PROMOTED_PENDING_DB", "ACKNOWLEDGED", "ROLLED_BACK"}
      BY <1>0, <2>4, <3>1 DEF VersionsFit
    <3>3. op.id = l.id /\ StateTurns(l.id)
      BY <1>0, <2>4, <3>2, StatesTurn
    <3>4. CASE op.pc = "acknowledge"
      <4>1. State(l.id) = "PROMOTED_PENDING_DB" /\ State(l.id)' = "ACKNOWLEDGED"
        BY <3>3, <3>4 DEF StateTurns
      <4>2. Accepted = SubSeq(versions, 1, Len(versions) - 1) /\ Accepted' = versions
        BY <1>1, <1>2, <1>3, <2>1, <2>4, <4>1, AcceptedIs, AcceptedIsNext
      <4>3. versions = Append(SubSeq(versions, 1, Len(versions) - 1), Latest)
        BY <1>1, LastIs DEF Latest
      <4> QED
        BY <1>2, <2>4, <3>3, <3>4, <4>2, <4>3
    <3>5. CASE op.pc # "acknowledge"
      <4>1. State(l.id) # "ACKNOWLEDGED" /\ State(l.id)' # "ACKNOWLEDGED"
        BY <3>2, <3>3, <3>5, SwapState DEF StateTurns
      <4>2. Accepted' = Accepted
        BY <1>1, <1>2, <1>3, <2>1, <2>4, <4>1, AcceptedIs, AcceptedIsNext
      <4> QED
        BY <3>5, <4>2
    <3> QED
      BY <3>4, <3>5
  <2> QED
    BY <1>1, <1>2, <2>2, <2>3, <2>4
<1>4. CASE Appended
  <2>1. PICK i \in Id : i = op.id /\ i # None
    BY <1>4, Someone DEF Appended
  <2>2. op.pc = "append" /\ Latest'.id = i /\ State(i) = "PROMOTED_PENDING_DB" /\ ~Committed(i) /\ Open(i)
    BY <1>0, <1>4, <2>1, SwapState DEF Appended, StateFits, VersionsFit, Projection, Open
  <2>3. State(i)' = State(i)
    BY <1>0, <2>2, StatesTurn DEF StateTurns
  <2>4. l.id = Initial \/ State(l.id) = "ACKNOWLEDGED"
    <3>1. SUFFICES ASSUME l.id \in Id, State(l.id) # "ACKNOWLEDGED" PROVE FALSE
      BY <1>1, <1>2
    <3>2. Committed(l.id)
      BY <1>0, <1>2, LatestCommitted
    <3>3. Open(l.id)
      BY <1>0, <3>1, <3>2, PendingIsOpen
    <3> QED
      BY <1>0, <2>2, <3>1, <3>2, <3>3 DEF OpenFits
  <2>5. Accepted = versions
    BY <1>2, <2>4, AcceptedIs
  <2>6. Accepted' = SubSeq(versions', 1, Len(versions') - 1)
    BY <2>2, <2>3, AcceptedIsNext, Someone
  <2>7. SubSeq(versions', 1, Len(versions') - 1) = versions
    BY <1>1, <1>4, FrontIs DEF Appended
  <2> QED
    BY <2>2, <2>5, <2>6, <2>7
<1>5. CASE Reverted
  <2>1. PICK i \in Id : i = op.id
    BY <1>5 DEF Reverted
  <2>2. op.pc = "revert" /\ l.id = i /\ State(i) = "ROLLED_BACK" /\ Len(versions) > 1 /\ Len(versions') = Len(versions) - 1
    BY <1>0, <1>2, <1>5, <2>1 DEF Reverted, StateFits
  <2>3. Accepted = SubSeq(versions, 1, Len(versions) - 1)
    BY <1>1, <1>2, <2>2, AcceptedIs
  <2>4. SubSeq(versions, 1, Len(versions) - 1) = versions'
    <3>1. Len(versions') = Len(versions) - 1 /\ \A k \in 1..Len(versions') : versions[k] = versions'[k]
      BY <1>5, <2>2 DEF Reverted
    <3>2. Len(versions) = Len(versions') + 1
      BY <1>1, <3>1
    <3> QED
      BY <1>1, <3>1, <3>2, FrontIs
  <2>5. PICK m : m = Latest'
    OBVIOUS
  <2>6. m = versions[Len(versions) - 1]
    BY <1>1, <1>5, <2>2, <2>5 DEF Reverted, Latest
  <2>7. m.id = Initial \/ State(m.id) = "ACKNOWLEDGED"
    <3>1. CASE Len(versions) - 1 = 1
      BY <1>1, <2>6, <3>1
    <3>2. CASE Len(versions) - 1 # 1
      <4>1. Len(versions) - 1 \in 2..(Len(versions) - 1)
        BY <1>1, <2>2, <3>2
      <4> QED
        BY <1>0, <2>6, <4>1 DEF VersionsFit
    <3> QED
      BY <3>1, <3>2
  <2>8. m.id = Initial \/ State(m.id)' = "ACKNOWLEDGED"
    <3>1. journal' = journal
      BY <1>0, <2>2, Quiet
    <3> QED
      BY <2>7, <3>1 DEF State
  <2>9. Accepted' = versions'
    BY <2>5, <2>8, AcceptedIsNext
  <2> QED
    BY <2>2, <2>3, <2>4, <2>9
<1> QED
  BY <1>0, <1>3, <1>4, <1>5, IndexTurns

----------------------------------------------------------------------------
(* The steps of GateContract. *)

Contracted == [Contract!Next]_(Contract!contractVars)
Outcomes == [i \in Id |-> Decision(i)]

LEMMA ContractInit ==
    ASSUME Init
    PROVE  Contract!Init
<1>1. Accepted = <<[id |-> Initial, v |-> Initial]>>
  BY InitialStores DEF Accepted
<1>2. \A i \in Id : Decision(i) = "OPEN"
  BY InitialStores, SwapState DEF Decision, IsRun
<1>3. Outcomes = [i \in Run \cup Rollback |-> "OPEN"]
  BY <1>2 DEF Outcomes, Id
<1> QED
  BY <1>1, <1>3 DEF Contract!Init, Outcomes

\* An acknowledgement is a decision.
LEMMA AcknowledgementDecides ==
    ASSUME GateIInv, Next, NEW j \in Id, op.id = j, op.pc = "acknowledge",
           Decision(j)' = Decision(j) \/ Decision(j)' # "COMMITTED"
    PROVE  State(j)' = State(j)
<1>0. /\ TypeOK /\ OpTypes /\ Knows /\ PcFits /\ StateFits /\ PermitFits /\ ReceiptsFit /\ PublishedFits
  BY DEF GateIInv
<1>1. SUFFICES ASSUME State(j)' # State(j) PROVE FALSE
  OBVIOUS
<1>2. State(j) = "PROMOTED_PENDING_DB" /\ State(j)' = "ACKNOWLEDGED"
  BY <1>0, <1>1, StatesTurn DEF StateTurns
<1>3. Decision(j) # "COMMITTED" /\ Decision(j)' = "COMMITTED"
  BY <1>2, SwapState DEF Decision
<1> QED
  BY <1>3

LEMMA ContractStep ==
    ASSUME GateIInv, PermitsSpent, GateIInv', Next
    PROVE  Contracted
<1>0. /\ TypeOK /\ VersionsFit /\ TypeOK' /\ VersionsFit' /\ ResultFits
  BY DEF GateIInv
<1>1. PICK i \in Id \cup {None} : \A j \in Id \ {i} : Decision(j)' = Decision(j)
  BY OneAtATime, AlikeDecides
<1>2. Outcomes' = [j \in Id |-> Decision(j)']
  BY DEF Outcomes
<1>3. CASE i \notin Id \/ Decision(i)' = Decision(i)
  <2>1. Outcomes' = Outcomes
    BY <1>1, <1>2, <1>3 DEF Outcomes
  <2>2. Accepted' = Accepted
    <3>1. ASSUME op.pc = "acknowledge", op.id \in Id, Accepted' # Accepted PROVE FALSE
      <4>1. PICK j \in Id : j = op.id
        BY <3>1
      <4>2. Decision(j)' = Decision(j)
        BY <1>1, <1>3
      <4>3. State(j)' = State(j)
        BY <3>1, <4>1, <4>2, AcknowledgementDecides
      <4>4. Latest.id = j /\ versions' = versions
        BY <1>0, <3>1, <4>1, HistoryTurns, Quiet DEF GateIInv
      <4>5. Latest' = Latest
        BY <4>4 DEF Latest
      <4>6. Settled(Latest.id)' <=> Settled(Latest.id)
        BY <4>3, <4>4, <4>5, SwapState DEF Settled, State
      <4> QED
        BY <3>1, <4>4, <4>5, <4>6 DEF Accepted
    <3> QED
      BY <1>0, <3>1, HistoryTurns
  <2> QED
    BY <2>1, <2>2 DEF Contracted, Contract!contractVars, Outcomes
<1>4. CASE i \in Id /\ Decision(i)' # Decision(i)
  <2>1. Decision(i) = "OPEN"
    BY <1>4, DecisionTurns
  <2>2. \A decision : Decision(i)' = decision => Contract!Decide(i, decision)
    <3>1. SUFFICES ASSUME NEW decision, Decision(i)' = decision
                   PROVE  Outcomes[i] = "OPEN" /\ Outcomes' = [Outcomes EXCEPT ![i] = decision]
      BY DEF Contract!Decide, Outcomes
    <3>2. Outcomes[i] = "OPEN"
      BY <1>4, <2>1 DEF Outcomes
    <3> QED
      BY <1>1, <1>2, <3>1, <3>2 DEF Outcomes
  <2>3. CASE Decision(i)' = "REFUSED"
    <3>1. Accepted' = Accepted
      <4>1. SUFFICES ASSUME op.pc = "acknowledge", op.id \in Id, Latest.id = op.id,
                            Accepted' # Accepted
                     PROVE  FALSE
        BY <1>0, HistoryTurns
      <4>2. PICK j \in Id : j = op.id
        BY <4>1
      <4>3. State(j)' = State(j)
        <5>1. j # i => Decision(j)' = Decision(j)
          BY <1>1
        <5>2. Decision(j)' = Decision(j) \/ Decision(j)' # "COMMITTED"
          BY <2>3, <5>1
        <5> QED
          BY <4>1, <4>2, <5>2, AcknowledgementDecides
      <4>4. versions' = versions
        BY <1>0, <4>1, Quiet DEF GateIInv
      <4>5. Latest' = Latest
        BY <4>4 DEF Latest
      <4>6. Settled(Latest.id)' <=> Settled(Latest.id)
        BY <4>1, <4>2, <4>3, <4>5, SwapState DEF Settled, State
      <4> QED
        BY <4>1, <4>4, <4>5, <4>6 DEF Accepted
    <3>2. Contract!Refuse(i)
      BY <2>2, <2>3, <3>1 DEF Contract!Refuse
    <3> QED
      BY <1>4, <3>2 DEF Contracted, Contract!Next, Id
  <2>4. CASE Decision(i)' # "REFUSED"
    <3>1. /\ Decision(i)' = "COMMITTED" /\ op.id = i /\ op.pc = "acknowledge"
          /\ State(i) = "PROMOTED_PENDING_DB" /\ State(i)' = "ACKNOWLEDGED"
      BY <1>4, <2>4, DecisionTurns
    <3>2. /\ Latest.id = i /\ Accepted' = Append(Accepted, Latest)
          /\ Accepted = SubSeq(versions, 1, Len(versions) - 1)
      BY <1>0, <1>4, <3>1, HistoryTurns
    <3>3. /\ versions \in Seq(Versions) /\ Len(versions) \in Nat /\ Len(versions) > 1
          /\ Latest \in Versions
      <4>1. Latest.id # Initial /\ State(Latest.id) # "ACKNOWLEDGED"
        BY <1>4, <3>1, <3>2, Someone
      <4> QED
        BY <1>0, <4>1, IndexTyped, AcceptedHeadIs DEF TypeOK, Latest
    <3>4. Latest = [id |-> i, v |-> Latest.v] /\ Latest.v \in Content
      BY <3>2, <3>3 DEF Versions
    <3>5. Latest.v \in Contract!Results(i)
      <4>1. State(Latest.id) # "ACKNOWLEDGED"
        BY <3>1, <3>2
      <4>2. Latest.v \in (IF i \in Run THEN {i, AcceptedHead.v}
                          ELSE {versions[k].v : k \in 1..(Len(versions) - 1)}) \cup {Edited}
        BY <1>0, <1>4, <3>2, <4>1 DEF ResultFits
      <4>3. DOMAIN Accepted = 1..(Len(versions) - 1) /\ \A k \in 1..(Len(versions) - 1) : Accepted[k] = versions[k]
        BY <3>2, <3>3
      <4>4. {versions[k].v : k \in 1..(Len(versions) - 1)} = Contract!Accepted
        BY <4>3 DEF Contract!Accepted
      <4> QED
        BY <4>2, <4>4 DEF Contract!Results, AcceptedHead
    <3>6. Contract!Commit(i, Latest.v)
      BY <2>2, <3>1, <3>2, <3>4, <3>5 DEF Contract!Commit
    <3>7. Latest.v \in Run \cup {Initial} \cup {Edited}
      BY <3>4 DEF Content
    <3> QED
      BY <1>4, <3>6, <3>7 DEF Contracted, Contract!Next, Id
  <2> QED
    BY <2>3, <2>4
<1> QED
  BY <1>3, <1>4

LEMMA ContractStutters ==
    ASSUME UNCHANGED vars
    PROVE  Contracted
<1>1. /\ journal' = journal /\ permit' = permit /\ receipt' = receipt /\ versions' = versions
  BY DEF vars, diskVars
<1>2. Latest' = Latest
  BY <1>1 DEF Latest
<1>3. Accepted' = Accepted
  BY <1>1, <1>2 DEF Accepted, Settled
<1>4. \A i \in Id : Decision(i)' = Decision(i)
  BY <1>1, AlikeDecides DEF Alike, State
<1>5. Outcomes' = Outcomes
  BY <1>4 DEF Outcomes
<1> QED
  BY <1>3, <1>5 DEF Contracted, Contract!contractVars, Outcomes

----------------------------------------------------------------------------
(* Theorems. *)

\* Between any two durable writes of a run, a rollback, a configuration change
\* or a startup recovery, whatever has failed or died before, the stores, the
\* database and the operation in progress are as GateInvariant says.
THEOREM Invariant == Spec => []GateIInv
<1>1. Init => GateIInv
  BY InitialInvariant
<1>2. GateIInv /\ [Next]_vars => GateIInv'
  BY GateIInvKept, InvariantIsStable
<1> QED
  BY <1>1, <1>2, PTL DEF Spec

\* The stores, the row, the reports of recovery and the operation in progress
\* have the shapes their schemas promise.
THEOREM Types == Spec => []TypeOK
<1>1. GateIInv => TypeOK
  BY DEF GateIInv
<1> QED
  BY <1>1, Invariant, PTL

\* Whenever a new run may be admitted, workspace, index, row and receipts tell
\* the same story, and a run is published as completed only when its journal is
\* acknowledged and its receipt terminal, whatever died or failed before
\* (AgentService.initialize, recoverCommitGate, persistCompletedRun).
THEOREM StoresFit == Spec => []GateInv
<1>1. GateIInv => GateInv
  BY GateInvThen
<1> QED
  BY <1>1, Invariant, PTL

\* Until the row has the new head, the bytes a swap started from are in the
\* workspace or in its backup, wherever promote, its catch or a recovery was
\* interrupted, unless somebody else writes to the workspace.
THEOREM BaseKept == Spec => []BaseRecoverable
<1>1. GateIInv => BaseRecoverable
  BY BaseRecoverableThen
<1> QED
  BY <1>1, Invariant, PTL

\* The head can be rolled back to, its snapshot is there, while promotions are
\* pending, revoked and undone in one process, however many snapshots the
\* retention keeps (VersionStore.prune).
THEOREM HeadKept == Spec => [](crashes = 0 => HeadRestorable)
<1>1. GateIInv => (crashes = 0 => HeadRestorable)
  BY HeadRestorableThen
<1> QED
  BY <1>1, Invariant, PTL

\* No bytes are lost that somebody may want back, whatever dies and recovers,
\* where a recovery prunes no snapshot because its limit is not below the number
\* of contents (recovery.ts:45, version-store.ts).
THEOREM NothingLost == RecoveryKeepsAll => (Spec => []Recoverable)
<1> SUFFICES ASSUME RecoveryKeepsAll
             PROVE  Spec => []Recoverable
  OBVIOUS
<1>1. GateIInv => Recoverable
  BY BaseRecoverableThen, HeadRestorableThen DEF Recoverable
<1> QED
  BY <1>1, Invariant, PTL

\* A startup recovery that finds hashes it cannot reconcile has met somebody
\* else's write: deaths and failures alone always leave it one outcome
\* (recovery.ts, examination of the journals).
THEOREM RecoveryDecides == Spec => []DecidesUnlessEdited
<1>1. Init => DecidesUnlessEdited
  BY DEF Init, NoReport, DecidesUnlessEdited
<1>2. GateIInv /\ DecidesUnlessEdited /\ [Next]_vars => DecidesUnlessEdited'
  <2>1. UNCHANGED vars /\ DecidesUnlessEdited => DecidesUnlessEdited'
    BY DEF vars, processVars, boundVars, DecidesUnlessEdited
  <2> QED
    BY <2>1, DecidesUnlessEditedKept
<1> QED
  BY <1>1, <1>2, Invariant, PTL DEF Spec

\* The workspace changes by a promotion that was authorized, for the very tree
\* the receipt or the journal names, or back to a backup (promote, its catch).
THEOREM Authorized == Spec => SwapAuthorized
<1> DEFINE Swaps == ws' # None /\ ws'.v # Edited /\ (ws = None \/ ws'.v # ws.v) =>
        \/ \E i \in Id : ws' = backup[i]
        \/ \E i \in Id :
              /\ InSwap(i) /\ journal[i].state = "PROMOTING" /\ journal[i].target = ws'
              /\ permit[i] = "CONSUMED"
              /\ IsRun(i) => AwaitsAck(i) /\ receipt[i].final = ws'
<1>1. GateIInv /\ [Next]_vars => [Swaps]_vars
  BY SwapAuthorizedStep
<1> HIDE DEF Swaps
<1>2. Spec => [][Swaps]_vars
  BY <1>1, Invariant, PTL DEF Spec
<1> QED
  BY <1>2 DEF SwapAuthorized, Swaps

\* Every run and rollback is decided once, and only a commit adds to the history
\* (CommitGateCoordinator, over all its stores and its recovery).
THEOREM KeepsContract == Spec => ImplementsContract
<1>1. Init => PermitsSpent
  BY InitialStores DEF PermitsSpent
<1>2. GateIInv /\ PermitsSpent /\ [Next]_vars => PermitsSpent'
  <2>1. UNCHANGED vars /\ PermitsSpent => PermitsSpent'
    BY DEF vars, diskVars, PermitsSpent, State
  <2> QED
    BY <2>1, PermitsSpentKept
<1>3. GateIInv /\ PermitsSpent /\ GateIInv' /\ [Next]_vars => Contracted
  BY ContractStep, ContractStutters
<1>4. Init => Contract!Init
  BY ContractInit
<1>5. Contracted => [Contract!Next]_(Contract!contractVars)
  BY DEF Contracted
<1> QED
  BY <1>1, <1>2, <1>3, <1>4, <1>5, Invariant, PTL DEF Spec, ImplementsContract, Contract!Spec
=============================================================================
