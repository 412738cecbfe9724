---------------------------- MODULE ProductProofs ----------------------------
(***************************************************************************)
(* ProductInvariant is inductive: for any messages and rollbacks, any      *)
(* number of requests, lost calls and deaths, the product claims only what *)
(* the Worker has decided and takes nothing back that it has told.         *)
(***************************************************************************)
EXTENDS ProductInvariant, TLAPS

----------------------------------------------------------------------------
(* What serving a request may do to the Worker. *)

LEMMA ServeMoves ==
    ASSUME TypeOK, NEW q, IsRequest(q), Serve(q)
    PROVE
      \/ UNCHANGED workerVars
      \/ /\ q.kind = "prepare" /\ q.txn \in Txn /\ base' = [base EXCEPT ![q.txn] = q.view]
         /\ base[q.txn] \in {None, q.view}
         /\ UNCHANGED <<head, decision, archived, cancelled, torn>>
      \/ /\ q.kind = "cancel" /\ q.txn \in Run /\ Open(q.txn) /\ cancelled' = cancelled \cup {q.txn}
         /\ UNCHANGED <<head, decision, archived, base, torn>>
      \/ /\ q.kind = "apply" /\ q.txn \in Txn /\ Open(q.txn) /\ q.txn \notin cancelled
         /\ decision' = [decision EXCEPT ![q.txn] = "COMMITTED"]
         /\ head' = [head EXCEPT !.ver = q.txn, !.gen = @ + 1, !.tree = Target(q.txn),
                            !.epoch = IF q.txn \in Rollback THEN @ + 1 ELSE @]
         /\ UNCHANGED <<archived, base, cancelled, torn>>
      \/ /\ q.kind \in {"apply", "dispose"} /\ q.txn \in Run /\ Open(q.txn)
         /\ \E outcome \in {"QUARANTINED", "CONFLICTED", "ABORTED"}, named \in BOOLEAN :
               /\ Reject(q.txn, outcome, named)
               /\ q.kind = "apply" => q.txn \notin cancelled
               /\ q.kind = "dispose" => ~archived /\ outcome = q.outcome /\ named = q.named
      \/ /\ q.kind = "configure" /\ q.view = head
         /\ head' = [head EXCEPT !.gen = @ + 1, !.tree.p = head.cfg + 1, !.epoch = @ + 1,
                                 !.cfg = @ + 1]
         /\ UNCHANGED <<decision, archived, base, cancelled, torn>>
      \/ /\ q.kind = "archive" /\ archived' = TRUE
         /\ UNCHANGED <<head, decision, base, cancelled, torn>>
<1> USE DEF IsRequest, Serve, Accepts, HoldsPermit, Open, workerVars
<1>1. CASE q.kind = "prepare"
  BY <1>1 DEF TypeOK
<1>2. CASE q.kind = "cancel"
  BY <1>2
<1>3. CASE q.kind = "apply"
  BY <1>3 DEF Authority!Commit, Authority!Decide
<1>4. CASE q.kind = "dispose"
  BY <1>4 DEF TypeOK
<1>5. CASE q.kind = "configure"
  BY <1>5 DEF Authority!Configure
<1>6. CASE q.kind = "archive"
  BY <1>6 DEF Authority!Retire
<1> QED
  BY <1>1, <1>2, <1>3, <1>4, <1>5, <1>6

WorkerTypeOK ==
    /\ head \in Views /\ base \in [Txn -> Views \cup {None}]
    /\ decision \in [Txn -> Decisions \cup {"OPEN"}] /\ archived \in BOOLEAN
    /\ cancelled \subseteq Run /\ torn \subseteq Run

\* What no step takes back, and what follows for a View that was HEAD.
Lasting ==
    /\ WorkerTypeOK'
    /\ \A v \in Views : Behind(v) => Behind(v)'
    /\ \A t \in Txn : decision[t] # "OPEN" =>
           decision'[t] = decision[t] /\ (t \in cancelled' <=> t \in cancelled)
    /\ \A t \in Txn : base[t] # None => base'[t] # None
    /\ torn \subseteq torn' /\ (archived => archived')
    /\ head'.cfg \in {head.cfg, head.cfg + 1}

LEMMA ViewFields ==
    ASSUME NEW v \in Views
    PROVE  /\ v.ver \in Txn \cup {None} /\ v.gen \in Nat /\ v.tree \in Tree
           /\ v.epoch \in Nat /\ v.cfg \in Platform
           /\ v.tree.v \in Txn \cup {None} /\ v.tree.p \in Platform
           /\ v.cfg \in Nat
BY DEF Views, Tree, Platform

LEMMA TargetType == ASSUME TypeOK, NEW t \in Txn PROVE Target(t) \in Tree
BY ViewFields, ProductAssumption DEF TypeOK, Target, Tree, InitialView, Platform

LEMMA ConfigureHead ==
    ASSUME NEW h \in Views, NEW n, h.cfg + 1 \in Platform,
           n = [h EXCEPT !.gen = @ + 1, !.tree.p = h.cfg + 1, !.epoch = @ + 1, !.cfg = @ + 1]
    PROVE  n \in Views /\ n.gen = h.gen + 1 /\ n.cfg = h.cfg + 1
<1> DEFINE tree == [h.tree EXCEPT !.p = h.cfg + 1]
<1>1. tree \in Tree
  BY ViewFields DEF Tree
<1>2. n = [ver |-> h.ver, gen |-> h.gen + 1, tree |-> tree, epoch |-> h.epoch + 1, cfg |-> h.cfg + 1]
  BY DEF Views
<1> HIDE DEF tree
<1> QED
  BY <1>1, <1>2, ViewFields DEF Views

LEMMA EpochHead ==
    ASSUME NEW h \in Views, NEW n, n = [h EXCEPT !.epoch = @ + 1]
    PROVE  n \in Views /\ n.gen = h.gen /\ n.ver = h.ver /\ n.tree = h.tree /\ n.cfg = h.cfg
BY DEF Views


LEMMA StillLasts ==
    ASSUME TypeOK, torn \subseteq torn', torn' \subseteq Run,
           UNCHANGED <<head, decision, archived, base, cancelled>>
    PROVE  Lasting
BY DEF TypeOK, Lasting, WorkerTypeOK, Behind, Platform

LEMMA RejectLasts ==
    ASSUME TypeOK, NEW t \in Txn, decision[t] = "OPEN",
           NEW outcome \in {"QUARANTINED", "CONFLICTED", "ABORTED"}, NEW named \in BOOLEAN,
           named => t \in Run, Reject(t, outcome, named)
    PROVE  /\ Lasting /\ head'.cfg = head.cfg
           /\ decision' = [decision EXCEPT ![t] = outcome]
           /\ cancelled' = IF named THEN cancelled \cup {t} ELSE cancelled \ {t}
           /\ UNCHANGED <<base, torn, archived>>
<1>1. /\ head' = [head EXCEPT !.epoch = @ + 1]
      /\ decision' = [decision EXCEPT ![t] = outcome]
      /\ cancelled' = IF named THEN cancelled \cup {t} ELSE cancelled \ {t}
      /\ UNCHANGED <<base, torn, archived>>
  BY DEF Reject, Authority!Reject, Authority!Decide, TypeOK
<1>2. head' \in Views /\ \A v \in Views : Behind(v) => Behind(v)'
  BY <1>1, EpochHead DEF TypeOK, Behind
<1>3. WorkerTypeOK'
  BY <1>1, <1>2 DEF WorkerTypeOK, TypeOK, Decisions
<1>4. head'.cfg = head.cfg
  BY <1>1, EpochHead DEF TypeOK
<1> QED
  BY <1>1, <1>2, <1>3, <1>4 DEF Lasting, TypeOK

LEMMA ServeLasts ==
    ASSUME TypeOK, NEW q, IsRequest(q), Serve(q),
           q.kind = "configure" => head.cfg + 1 \in Platform
    PROVE  Lasting /\ (q.kind # "configure" => head'.cfg = head.cfg)
<1> USE DEF TypeOK
<1>1. CASE UNCHANGED workerVars
  BY <1>1, StillLasts DEF workerVars
<1>2. CASE /\ q.kind = "prepare" /\ q.txn \in Txn /\ base' = [base EXCEPT ![q.txn] = q.view]
           /\ base[q.txn] \in {None, q.view}
           /\ UNCHANGED <<head, decision, archived, cancelled, torn>>
  <2>1. q.view \in Views
    BY <1>2 DEF IsRequest
  <2> QED
    BY <1>2, <2>1 DEF Lasting, WorkerTypeOK, Behind
<1>3. CASE /\ q.kind = "cancel" /\ q.txn \in Run /\ Open(q.txn)
           /\ cancelled' = cancelled \cup {q.txn}
           /\ UNCHANGED <<head, decision, archived, base, torn>>
  BY <1>3 DEF Lasting, WorkerTypeOK, Behind, Open
<1>4. CASE /\ q.kind = "apply" /\ q.txn \in Txn /\ Open(q.txn) /\ q.txn \notin cancelled
           /\ decision' = [decision EXCEPT ![q.txn] = "COMMITTED"]
           /\ head' = [head EXCEPT !.ver = q.txn, !.gen = @ + 1, !.tree = Target(q.txn),
                              !.epoch = IF q.txn \in Rollback THEN @ + 1 ELSE @]
           /\ UNCHANGED <<archived, base, cancelled, torn>>
  <2> DEFINE epoch == IF q.txn \in Rollback THEN head.epoch + 1 ELSE head.epoch
             tree == Target(q.txn)
  <2>3. tree \in Tree /\ epoch \in Nat /\ head \in Views /\ q.txn \in Txn
    BY <1>4, TargetType, ViewFields
  <2>4. head' = [head EXCEPT !.ver = q.txn, !.gen = @ + 1, !.tree = tree, !.epoch = epoch]
    BY <1>4
  <2> HIDE DEF epoch, tree
  <2>5. head' = [ver |-> q.txn, gen |-> head.gen + 1, tree |-> tree, epoch |-> epoch,
                 cfg |-> head.cfg]
    BY <2>3, <2>4 DEF Views
  <2>1. head' \in Views /\ head'.gen = head.gen + 1 /\ head'.cfg = head.cfg
    BY <2>3, <2>5, ViewFields DEF Views
  <2>2. \A v \in Views : Behind(v) => Behind(v)'
    BY <2>1, ViewFields DEF Behind
  <2> QED
    BY <1>4, <2>1, <2>2 DEF Lasting, WorkerTypeOK, Open, Decisions
<1>5. CASE /\ q.kind \in {"apply", "dispose"} /\ q.txn \in Run /\ Open(q.txn)
           /\ \E outcome \in {"QUARANTINED", "CONFLICTED", "ABORTED"}, named \in BOOLEAN :
                 Reject(q.txn, outcome, named)
  BY <1>5, RejectLasts DEF Open, Txn
<1>6. CASE /\ q.kind = "configure" /\ q.view = head
           /\ head' = [head EXCEPT !.gen = @ + 1, !.tree.p = head.cfg + 1, !.epoch = @ + 1,
                                   !.cfg = @ + 1]
           /\ UNCHANGED <<decision, archived, base, cancelled, torn>>
  <2>1. head' \in Views /\ head'.gen = head.gen + 1 /\ head'.cfg = head.cfg + 1
    BY <1>6, ConfigureHead
  <2>2. \A v \in Views : Behind(v) => Behind(v)'
    BY <2>1, ViewFields DEF Behind
  <2> QED
    BY <1>6, <2>1, <2>2 DEF Lasting, WorkerTypeOK
<1>7. CASE q.kind = "archive" /\ archived' = TRUE
           /\ UNCHANGED <<head, decision, base, cancelled, torn>>
  BY <1>7 DEF Lasting, WorkerTypeOK, Behind
<1> QED
  BY <1>1, <1>2, <1>3, <1>4, <1>5, <1>6, <1>7, ServeMoves

\* A request that does not undo what a cancelled run is in for.
Harmless(q, r) ==
    /\ q.kind = "dispose" /\ q.txn = r => archived \/ (q.named /\ q.outcome = "ABORTED")
    /\ Unknown(r) => q.txn # r

LEMMA ServeDooms ==
    ASSUME TypeOK, NEW q, IsRequest(q), Serve(q), late' = None,
           NEW r \in Run, Doomed(r), decision[r] = "OPEN" => Harmless(q, r)
    PROVE  Doomed(r)'
<1> USE DEF TypeOK, Doomed, LateHarmless, Unknown, Harmless, Open, Txn
<1>1. CASE UNCHANGED workerVars
  BY <1>1 DEF workerVars
<1>2. CASE /\ q.kind = "prepare" /\ q.txn \in Txn /\ base' = [base EXCEPT ![q.txn] = q.view]
           /\ base[q.txn] \in {None, q.view}
           /\ UNCHANGED <<head, decision, archived, cancelled, torn>>
  BY <1>2
<1>3. CASE /\ q.kind = "cancel" /\ q.txn \in Run /\ Open(q.txn)
           /\ cancelled' = cancelled \cup {q.txn}
           /\ UNCHANGED <<head, decision, archived, base, torn>>
  BY <1>3
<1>4. CASE /\ q.kind = "apply" /\ q.txn \in Txn /\ Open(q.txn) /\ q.txn \notin cancelled
           /\ decision' = [decision EXCEPT ![q.txn] = "COMMITTED"]
           /\ UNCHANGED <<archived, base, cancelled, torn>>
  BY <1>4
<1>5. CASE /\ q.kind \in {"apply", "dispose"} /\ q.txn \in Run /\ Open(q.txn)
           /\ \E outcome \in {"QUARANTINED", "CONFLICTED", "ABORTED"}, named \in BOOLEAN :
               /\ Reject(q.txn, outcome, named)
               /\ q.kind = "apply" => q.txn \notin cancelled
               /\ q.kind = "dispose" => ~archived /\ outcome = q.outcome /\ named = q.named
  <2>1. PICK outcome \in {"QUARANTINED", "CONFLICTED", "ABORTED"}, named \in BOOLEAN :
               /\ Reject(q.txn, outcome, named)
               /\ q.kind = "apply" => q.txn \notin cancelled
               /\ q.kind = "dispose" => ~archived /\ outcome = q.outcome /\ named = q.named
    BY <1>5
  <2>2. /\ decision' = [decision EXCEPT ![q.txn] = outcome]
        /\ cancelled' = IF named THEN cancelled \cup {q.txn} ELSE cancelled \ {q.txn}
        /\ UNCHANGED <<base, torn, archived>>
    BY <1>5, <2>1, RejectLasts
  <2> QED
    BY <1>5, <2>1, <2>2
<1>6. CASE UNCHANGED <<decision, base, cancelled>>
  BY <1>6
<1> QED
  BY <1>1, <1>2, <1>3, <1>4, <1>5, <1>6, ServeMoves

LEMMA ServeSpares ==
    ASSUME TypeOK, NEW q, IsRequest(q), Serve(q), late' \in {late, None},
           NEW r \in Run, Unknown(r), q.txn # r
    PROVE  Unknown(r)'
<1> USE DEF TypeOK, Unknown, Open, Txn
<1>5. CASE /\ q.kind \in {"apply", "dispose"} /\ q.txn \in Run /\ Open(q.txn)
           /\ \E outcome \in {"QUARANTINED", "CONFLICTED", "ABORTED"}, named \in BOOLEAN :
               Reject(q.txn, outcome, named)
  BY <1>5, RejectLasts
<1> QED
  BY <1>5, ServeMoves DEF workerVars

----------------------------------------------------------------------------
(* What a step may do to the Worker as far as the invariant is concerned. *)

\* Nothing happens to the runs R that what was told of them did not allow for.
WorkerMoves(R) ==
    /\ Lasting
    /\ late' # None => IsRequest(late')
    /\ \A r \in R : (Unknown(r) => Unknown(r)') /\ (Doomed(r) => Doomed(r)')
    /\ head'.cfg + LateOwed' <= head.cfg + LateOwed

LEMMA TornMoves ==
    ASSUME TypeOK, torn \subseteq torn', torn' \subseteq Run,
           UNCHANGED <<head, decision, archived, base, cancelled, late>>
    PROVE  WorkerMoves(Run)
BY StillLasts, ViewFields DEF TypeOK, WorkerMoves, Unknown, Doomed, LateHarmless, LateOwed, IsRequest

LEMMA LocalMoves == ASSUME TypeOK, UNCHANGED <<workerVars, late>> PROVE WorkerMoves(Run)
BY TornMoves DEF TypeOK, workerVars

LEMMA CallMoves ==
    ASSUME TypeOK, NEW q, IsRequest(q), q.kind # "configure", Served(q) \/ Lost(q)
    PROVE  /\ WorkerMoves(Run \ {q.txn})
           /\ \A r \in Run : Doomed(r) /\ (decision[r] = "OPEN" => Harmless(q, r)) => Doomed(r)'
           /\ late' = None \/ (late' = q /\ Lost(q)) \/ late' = late
<1>1. CASE Served(q)
  <2>1. late = None /\ late' = None /\ Serve(q)
    BY <1>1 DEF Served
  <2>2. Lasting /\ head'.cfg = head.cfg
    BY <2>1, ServeLasts
  <2>3. \A r \in Run : q.txn # r /\ Unknown(r) => Unknown(r)'
    BY <2>1, ServeSpares
  <2>4. \A r \in Run : Doomed(r) /\ (decision[r] = "OPEN" => Harmless(q, r)) => Doomed(r)'
    BY <2>1, ServeDooms
  <2>5. \A r \in Run \ {q.txn} : Harmless(q, r)
    BY DEF Harmless
  <2> QED
    BY <2>1, <2>2, <2>3, <2>4, <2>5, ViewFields DEF WorkerMoves, LateOwed, TypeOK
<1>2. CASE Lost(q)
  <2>1. UNCHANGED workerVars /\ late' \in {None, q, late} /\ (late' = q => late = None \/ late = q)
    BY <1>2 DEF Lost
  <2>2. Lasting /\ head'.cfg = head.cfg
    BY <2>1, StillLasts DEF TypeOK, workerVars
  <2>3. \A r \in Run : q.txn # r /\ Unknown(r) => Unknown(r)'
    BY <2>1 DEF workerVars, Unknown
  <2>4. \A r \in Run : Doomed(r) /\ (decision[r] = "OPEN" => Harmless(q, r)) => Doomed(r)'
    BY <2>1 DEF workerVars, Unknown, Doomed, LateHarmless, Harmless
  <2>5. \A r \in Run \ {q.txn} : Harmless(q, r)
    BY DEF Harmless
  <2>6. (late' # None => IsRequest(late')) /\ LateOwed' <= LateOwed
    BY <2>1 DEF TypeOK, LateOwed
  <2> QED
    BY <1>2, <2>1, <2>2, <2>3, <2>4, <2>5, <2>6, ViewFields DEF WorkerMoves, TypeOK, LateOwed
<1> QED
  BY <1>1, <1>2

\* An abort by the Worker itself says that the run was cancelled, if it was.
LEMMA AbortMoves ==
    ASSUME TypeOK, NEW t \in Txn, Open(t), late' \in {late, None},
           Reject(t, "ABORTED", t \in cancelled)
    PROVE  WorkerMoves(Run)
<1>1. /\ Lasting /\ head'.cfg = head.cfg
      /\ decision' = [decision EXCEPT ![t] = "ABORTED"] /\ cancelled' = cancelled
      /\ UNCHANGED <<base, torn, archived>>
  <2>1. CASE t \in cancelled
    <3>1. Reject(t, "ABORTED", TRUE)
      BY <2>1 DEF Reject
    <3>2. t \in Run /\ decision[t] = "OPEN"
      BY <2>1 DEF TypeOK, Open
    <3>3. /\ Lasting /\ head'.cfg = head.cfg
          /\ decision' = [decision EXCEPT ![t] = "ABORTED"] /\ cancelled' = cancelled \cup {t}
          /\ UNCHANGED <<base, torn, archived>>
      BY <3>1, <3>2, RejectLasts
    <3> QED
      BY <2>1, <3>3
  <2>2. CASE t \notin cancelled
    <3>1. Reject(t, "ABORTED", FALSE)
      BY <2>2 DEF Reject
    <3>2. decision[t] = "OPEN"
      BY DEF Open
    <3>3. /\ Lasting /\ head'.cfg = head.cfg
          /\ decision' = [decision EXCEPT ![t] = "ABORTED"] /\ cancelled' = cancelled \ {t}
          /\ UNCHANGED <<base, torn, archived>>
      BY <3>1, <3>2, RejectLasts
    <3> QED
      BY <2>2, <3>3
  <2> QED
    BY <2>1, <2>2
<1>4. \A r \in Run : (Unknown(r) => Unknown(r)') /\ (Doomed(r) => Doomed(r)')
  BY <1>1 DEF Unknown, Doomed, LateHarmless, Open, TypeOK
<1> QED
  BY <1>1, <1>4, ViewFields DEF WorkerMoves, LateOwed, TypeOK

----------------------------------------------------------------------------
(* The steps of an execution. *)

\* A step of a bound execution that neither ends it nor writes the database.
Proceeds ==
    /\ Bound /\ exec' \in Executions /\ exec'.run = exec.run /\ exec'.base = exec.base
    /\ exec'.pc \notin {"idle", "bind", "prepare"} /\ (exec'.pc = "retry" => exec.pc = "prepare")
    /\ UNCHANGED <<dbVars, processVars, requests>> /\ launched' \subseteq Run
    /\ UNCHANGED mut \/ (mut.pc = "cancel" /\ MutGoto("await"))

LEMMA ProceedKeeps ==
    ASSUME Inductive, Proceeds, WorkerMoves(Run \ {exec.run}),
           exec'.pc \in {"reject", "record"} => exec'.seen \in Views /\ Behind(exec.seen)',
           StopFits', DisposalFits', GateFits'
    PROVE  Inductive'
<1> USE DEF Inductive, ExecutionInv, Proceeds, WorkerMoves
<1>0. exec.run \in Run /\ exec.pc # "idle" /\ exec.pc # "bind" /\ writing = None /\ up = "up"
  BY DEF Bound, ProcessFits, NoExec
<1>9. /\ mut \in Mutations /\ mut' \in Mutations /\ mut'.kind = mut.kind /\ mut'.view = mut.view
      /\ mut.kind # "rollback" /\ (mut.kind = "update" => mut' = mut)
      /\ mut' # mut => mut'.pc = "await"
  BY <1>0 DEF TypeOK, Mutations, MutGoto, MutationFits, NoExec
<1>1. TypeOK'
  BY <1>9 DEF TypeOK, Lasting, WorkerTypeOK, dbVars, processVars
<1>2. ProcessFits'
  BY <1>0 DEF ProcessFits, Bound, dbVars, processVars
<1>3. MutationFits'
  BY <1>9 DEF MutationFits
<1>4. UnknownFits'
  BY <1>0, ProductAssumption DEF UnknownFits, Bound, ProcessFits, dbVars, processVars
<1>5. RowsFit'
  <2>1. \A r \in Run : decision[r] # "OPEN" => decision'[r] = decision[r]
    BY DEF Lasting, Txn
  <2>2. \A r \in Run : rows[r].status = "cancelled" => r # exec.run
    BY DEF ProcessFits
  <2> QED
    BY <2>1, <2>2 DEF RowsFit, dbVars
<1>6. ViewsFit'
  <2>1. \A v \in Views : Behind(v) => Behind(v)'
    BY DEF Lasting
  <2>2. db' = db /\ (mut.kind = "update" => mut' = mut) /\ mut'.kind = mut.kind /\ db.view \in Views
    BY <1>9 DEF dbVars, TypeOK, AgentRows
  <2>3. Behind(db.view)'
    BY <2>1, <2>2 DEF ViewsFit, Behind
  <2>4. MutAt("update", "record") => Regenerated(mut.view) \in Views /\ Behind(Regenerated(mut.view))'
    BY <2>1, <2>2 DEF ViewsFit, Behind, MutAt
  <2> QED
    BY <1>9, <2>2, <2>3, <2>4 DEF ViewsFit, MutAt
<1>7. ConfigurationsAsked'
  BY <1>9, ViewFields DEF ConfigurationsAsked, ConfigurationsOwed, TypeOK, MutAt, LateOwed, Lasting, WorkerTypeOK
<1>8. StartupFits'
  BY <1>0 DEF StartupFits, processVars
<1> QED
  BY <1>1, <1>2, <1>3, <1>4, <1>5, <1>6, <1>7, <1>8

LEMMA PrepareKeeps == ASSUME Inductive, PrepareRun \/ PrepareAgain PROVE Inductive'
<1> DEFINE q == Request("prepare", exec.run, exec.base)
<1>1. /\ TypeOK /\ ProcessFits /\ StopFits /\ DisposalFits
      /\ exec.pc \in {"prepare", "retry"} /\ exec \in Executions
  BY DEF Inductive, ExecutionInv, PrepareRun, PrepareAgain, At, TypeOK
<1>2. exec.run \in Run /\ exec.base \in Views /\ ~exec.stopped /\ ~exec.accepted
  BY <1>1 DEF ProcessFits, StopFits
<1>3. q.kind = "prepare" /\ q.txn = exec.run /\ q.view = exec.base
  BY DEF Request
<1>4. IsRequest(q)
  BY <1>2, <1>3 DEF IsRequest, Txn
<1>5. /\ UNCHANGED <<dbVars, processVars, mut, requests, launched>>
      /\ \/ Served(q) /\ Accepts(q) /\ \E pc \in {"launch", "resolve"} :
               exec' = [exec EXCEPT !.prepared = TRUE, !.pc = pc]
         \/ (Served(q) \/ Lost(q)) /\ exec' = [exec EXCEPT !.pc = "fail"]
         \/ Lost(q) /\ At("prepare") /\ exec' = [exec EXCEPT !.pc = "retry"]
  BY DEF PrepareRun, PrepareAgain, ExecutionOnly, Goto
<1> HIDE DEF q
<1>6. WorkerMoves(Run \ {exec.run}) /\ late' \in {None, q, late}
  BY <1>1, <1>3, <1>4, <1>5, CallMoves
<1>7. Served(q) /\ Accepts(q) => base'[exec.run] # None
  BY <1>1, <1>2, <1>3, ViewAssumption DEF Served, Serve, Accepts, TypeOK, Txn
<1>8. Proceeds
  <2>1. exec' \in Executions
    BY <1>1, <1>5 DEF Executions
  <2>2. exec'.run = exec.run /\ exec'.base = exec.base /\ exec'.pc \in {"launch", "resolve", "fail", "retry"}
    BY <1>1, <1>5 DEF Executions
  <2>3. exec'.pc = "retry" => exec.pc = "prepare"
    BY <1>1, <1>5 DEF Executions, At
  <2> QED
    BY <1>1, <1>5, <2>1, <2>2, <2>3 DEF Proceeds, Bound, TypeOK
<1>9. StopFits'
  BY <1>1, <1>2, <1>5, <1>7 DEF StopFits, Stopping, Running, Executions
<1>10. DisposalFits'
  BY <1>1, <1>3, <1>6, <1>8 DEF DisposalFits, Proceeds
<1>11. GateFits' /\ exec'.pc \notin {"reject", "record"}
  BY <1>1, <1>5 DEF GateFits, Executions
<1> QED
  BY <1>6, <1>8, <1>9, <1>10, <1>11, ProceedKeeps

LEMMA LaunchKeeps == ASSUME Inductive, Launch PROVE Inductive'
<1>1. /\ TypeOK /\ ProcessFits /\ StopFits /\ DisposalFits
      /\ exec.pc = "launch" /\ exec \in Executions
  BY DEF Inductive, ExecutionInv, Launch, At, TypeOK
<1>2. exec.run \in Run /\ ~exec.stopped /\ base[exec.run] # None /\ exec.prepared
  BY <1>1 DEF ProcessFits, StopFits
<1>3. /\ UNCHANGED <<dbVars, processVars, mut, requests, workerVars, late>> /\ launched' \subseteq Run
      /\ \/ exec' = [exec EXCEPT !.pc = "close", !.gate = "ABORTED"]
         \/ exec' = [exec EXCEPT !.pc = "work"]
  BY <1>1, <1>2 DEF Launch, ExecutionOnly, Goto, Throws, TypeOK
<1>4. WorkerMoves(Run)
  BY <1>1, <1>3, LocalMoves
<1>5. Proceeds
  <2>1. exec' \in Executions
    BY <1>1, <1>3 DEF Executions, Decisions
  <2>2. exec'.run = exec.run /\ exec'.base = exec.base /\ exec'.pc \in {"close", "work"}
    BY <1>1, <1>3 DEF Executions
  <2> QED
    BY <1>1, <1>3, <2>1, <2>2 DEF Proceeds, Bound
<1>6. StopFits'
  BY <1>1, <1>2, <1>3, <1>4 DEF StopFits, Stopping, Running, Executions, WorkerMoves, workerVars
<1>7. DisposalFits'
  BY <1>1, <1>3 DEF DisposalFits, Executions
<1>8. GateFits' /\ exec'.pc \notin {"reject", "record"}
  BY <1>1, <1>2, <1>3 DEF GateFits, Executions
<1> QED
  BY <1>4, <1>5, <1>6, <1>7, <1>8, ProceedKeeps DEF WorkerMoves

LEMMA WorkKeeps == ASSUME Inductive, Work PROVE Inductive'
<1>1. /\ TypeOK /\ ProcessFits /\ StopFits /\ DisposalFits
      /\ exec.pc = "work" /\ exec \in Executions
  BY DEF Inductive, ExecutionInv, Work, At, TypeOK
<1> PICK r \in Run : r = exec.run
  BY <1>1 DEF ProcessFits
<1>2. ~exec.stopped /\ base[r] # None /\ exec.prepared /\ (exec.accepted => Doomed(r))
  BY <1>1 DEF ProcessFits, StopFits, Stopping, Running
<1>3. UNCHANGED <<dbVars, processVars, mut, requests, launched, late>>
  BY DEF Work, ExecutionOnly
<1>4. /\ UNCHANGED <<head, decision, archived, base, cancelled>>
      /\ \/ torn' = torn /\ \E stopped \in BOOLEAN :
               /\ stopped => Open(r) /\ r \in cancelled
               /\ exec' = [exec EXCEPT !.pc = "close", !.gate = "ABORTED", !.stopped = stopped]
         \/ torn' = torn /\ exec' = [exec EXCEPT !.pc = "close", !.gate = "ABORTED"]
         \/ torn' = torn \cup {r} /\ ~exec.accepted /\ exec' = [exec EXCEPT !.pc = "promote"]
         \/ /\ torn' = torn \cup {r} /\ ~exec.accepted
            /\ exec' = [exec EXCEPT !.pc = "dispose", !.gate = "QUARANTINED"]
         \/ torn' = torn /\ exec' = [exec EXCEPT !.pc = "resolve"]
  <2>1. CASE exec.accepted \/ r \in cancelled \/ ~Open(r)
    BY <2>1 DEF Work, Refused, workerVars
  <2>2. CASE ~(exec.accepted \/ r \in cancelled \/ ~Open(r))
    BY <2>2 DEF Work, Throws, Goto, workerVars
  <2> QED
    BY <2>1, <2>2
<1>5. WorkerMoves(Run)
  BY <1>1, <1>2, <1>3, <1>4, TornMoves DEF TypeOK
<1>6. Proceeds
  <2>1. exec' \in Executions
    BY <1>1, <1>4 DEF Executions, Decisions
  <2>2. exec'.run = exec.run /\ exec'.base = exec.base
        /\ exec'.pc \in {"close", "promote", "dispose", "resolve"}
    BY <1>1, <1>4 DEF Executions
  <2> QED
    BY <1>1, <1>3, <2>1, <2>2 DEF Proceeds, Bound, TypeOK
<1>7. StopFits'
  <2>1. exec'.stopped \/ exec'.accepted => Doomed(r)'
    <3>1. exec'.accepted => exec.accepted
      BY <1>1, <1>4 DEF Executions
    <3>2. exec'.stopped => Open(r) /\ r \in cancelled
      BY <1>1, <1>2, <1>4 DEF Executions
    <3>3. LateHarmless(r)
      BY <1>1 DEF LateHarmless, DisposalFits
    <3>4. Open(r) /\ r \in cancelled => Doomed(r)
      BY <3>3 DEF Open, Doomed
    <3> QED
      BY <1>2, <1>5, <3>1, <3>2, <3>4 DEF WorkerMoves
  <2> QED
    BY <1>1, <1>2, <1>4, <2>1 DEF StopFits, Stopping, Executions
<1>8. DisposalFits'
  BY <1>1, <1>3, <1>6 DEF DisposalFits, Proceeds
<1>9. GateFits' /\ exec'.pc \notin {"reject", "record"}
  BY <1>1, <1>2, <1>4 DEF GateFits, Executions
<1> QED
  BY <1>5, <1>6, <1>7, <1>8, <1>9, ProceedKeeps DEF WorkerMoves

LEMMA ApplyKeeps == ASSUME Inductive, ApplyPromotion PROVE Inductive'
<1>1. /\ TypeOK /\ ProcessFits /\ StopFits /\ DisposalFits /\ GateFits
      /\ exec.pc = "promote" /\ exec \in Executions
  BY DEF Inductive, ExecutionInv, ApplyPromotion, At, TypeOK
<1> PICK r \in Run : r = exec.run
  BY <1>1 DEF ProcessFits
<1> DEFINE q == Request("apply", r, None)
<1>2. /\ ~exec.stopped /\ base[r] # None /\ exec.prepared /\ (exec.accepted => Doomed(r))
      /\ r \in torn
  BY <1>1 DEF StopFits, Stopping, Running, GateFits
<1>3. q.kind = "apply" /\ q.txn = r /\ IsRequest(q)
  BY DEF Request, IsRequest, Txn
<1>4. /\ UNCHANGED <<dbVars, processVars, mut, requests, launched>>
      /\ \/ /\ Served(q) /\ Accepts(q)
            /\ exec' = [exec EXCEPT !.pc = "publish", !.gate = "COMMITTED"]
         \/ /\ Served(q) /\ ~Accepts(q)
            /\ \E gate \in {"CONFLICTED", "ABORTED"}, stopped \in BOOLEAN :
                  /\ gate = "CONFLICTED" => Open(r) /\ r \notin cancelled
                  /\ stopped => Open(r) /\ r \in cancelled
                  /\ exec' = [exec EXCEPT !.pc = "close", !.gate = gate, !.stopped = stopped]
         \/ /\ Accepts(q) /\ Reject(r, "ABORTED", FALSE) /\ late' = late
            /\ exec' = [exec EXCEPT !.pc = "close", !.gate = "ABORTED"]
         \/ Lost(q) /\ exec' = [exec EXCEPT !.pc = "resolve"]
  BY <1>3 DEF ApplyPromotion, ExecutionOnly, Refused, Throws, Goto
<1> HIDE DEF q
<1>5. WorkerMoves(Run \ {exec.run}) /\ late' \in {None, q, late}
      /\ (exec.accepted => Doomed(r)')
  <2>1. CASE Served(q) \/ Lost(q)
    <3>1. Harmless(q, r)
      BY <1>2, <1>3 DEF Harmless, Unknown
    <3> QED
      BY <1>1, <1>2, <1>3, <2>1, <3>1, CallMoves
  <2>2. CASE Accepts(q) /\ Reject(r, "ABORTED", FALSE) /\ late' = late
    <3>1. Open(r) /\ r \notin cancelled
      BY <1>3, <2>2 DEF Accepts, HoldsPermit
    <3>2. Reject(r, "ABORTED", r \in cancelled)
      BY <2>2, <3>1 DEF Reject
    <3>3. WorkerMoves(Run)
      BY <1>1, <2>2, <3>1, <3>2, AbortMoves DEF Txn
    <3> QED
      BY <1>2, <2>2, <3>3 DEF WorkerMoves
  <2> QED
    BY <1>4, <2>1, <2>2
<1>6. Proceeds
  <2>2. exec' \in Executions
    BY <1>1, <1>4 DEF Executions, Decisions
  <2>3. exec'.run = exec.run /\ exec'.base = exec.base
        /\ exec'.pc \in {"publish", "close", "resolve"}
    BY <1>1, <1>4 DEF Executions
  <2> QED
    BY <1>1, <1>4, <2>2, <2>3 DEF Proceeds, Bound, TypeOK
<1>7. StopFits'
  <2>1. exec'.stopped => Doomed(r)'
    <3>1. exec'.stopped => Served(q) /\ ~Accepts(q) /\ Open(r) /\ r \in cancelled
      BY <1>1, <1>2, <1>4 DEF Executions
    <3>2. Served(q) /\ ~Accepts(q) /\ r \in cancelled => UNCHANGED workerVars /\ late' = None
      BY <1>3 DEF Served, Serve, HoldsPermit
    <3> QED
      BY <1>2, <3>1, <3>2 DEF workerVars, Doomed, LateHarmless, Open
  <2>2. exec'.accepted = exec.accepted /\ exec'.prepared /\ base'[r] # None
    BY <1>1, <1>2, <1>4, <1>5 DEF Executions, WorkerMoves, Lasting, Txn
  <2>3. exec'.stopped => exec'.pc = "close"
    BY <1>1, <1>2, <1>4 DEF Executions
  <2> QED
    BY <1>1, <1>5, <1>6, <2>1, <2>2, <2>3 DEF StopFits, Stopping, Proceeds
<1>8. DisposalFits'
  BY <1>1, <1>3, <1>5, <1>6 DEF DisposalFits, Proceeds
<1>9. GateFits' /\ exec'.pc \notin {"reject", "record"}
  <2>1. Served(q) /\ Accepts(q) => decision'[r] = "COMMITTED"
    BY <1>1, <1>3 DEF Served, Serve, Authority!Commit, Authority!Decide, TypeOK, Txn
  <2>2. Served(q) /\ ~Accepts(q) /\ Open(r) /\ r \notin cancelled => archived' \/ decision'[r] # "OPEN"
    BY <1>2, <1>3 DEF Served, Serve, HoldsPermit, Quiet, Reject, workerVars
  <2>3. exec'.run = r
    BY <1>6 DEF Proceeds
  <2>4. \/ exec'.pc = "publish" /\ decision'[r] = "COMMITTED"
        \/ /\ exec'.pc = "close" /\ exec'.gate \in {"CONFLICTED", "ABORTED"}
           /\ exec'.gate = "CONFLICTED" => archived' \/ decision'[r] # "OPEN"
        \/ exec'.pc = "resolve"
    BY <1>1, <1>4, <2>1, <2>2 DEF Executions
  <2> QED
    BY <2>3, <2>4 DEF GateFits
<1> QED
  BY <1>5, <1>6, <1>7, <1>8, <1>9, ProceedKeeps

LEMMA ResolveKeeps == ASSUME Inductive, RecoverAcknowledgedCommit PROVE Inductive'
<1>1. /\ TypeOK /\ ProcessFits /\ StopFits /\ DisposalFits
      /\ exec.pc = "resolve" /\ exec \in Executions
  BY DEF Inductive, ExecutionInv, RecoverAcknowledgedCommit, At, TypeOK
<1> PICK r \in Run : r = exec.run
  BY <1>1 DEF ProcessFits
<1>2. ~exec.stopped /\ base[r] # None /\ exec.prepared /\ (exec.accepted => Doomed(r))
  BY <1>1 DEF StopFits, Stopping, Running
<1>3. /\ UNCHANGED <<dbVars, processVars, mut, requests, launched, workerVars, late>>
      /\ \/ decision[r] = "COMMITTED" /\ exec' = [exec EXCEPT !.pc = "publish", !.gate = "COMMITTED"]
         \/ exec' = [exec EXCEPT !.pc = "close", !.gate = "ABORTED"]
  BY DEF RecoverAcknowledgedCommit, ExecutionOnly, Throws
<1>4. WorkerMoves(Run)
  BY <1>1, <1>3, LocalMoves
<1>5. Proceeds
  <2>1. exec' \in Executions
    BY <1>1, <1>3 DEF Executions, Decisions
  <2>2. exec'.run = exec.run /\ exec'.base = exec.base /\ exec'.pc \in {"publish", "close"}
    BY <1>1, <1>3 DEF Executions
  <2> QED
    BY <1>1, <1>3, <2>1, <2>2 DEF Proceeds, Bound, TypeOK
<1>6. StopFits'
  BY <1>1, <1>2, <1>3, <1>4 DEF StopFits, Stopping, Executions, WorkerMoves, workerVars
<1>7. DisposalFits'
  BY <1>1, <1>3, <1>5 DEF DisposalFits, Proceeds
<1>8. GateFits' /\ exec'.pc \notin {"reject", "record"}
  BY <1>1, <1>2, <1>3 DEF GateFits, Executions, workerVars
<1> QED
  BY <1>4, <1>5, <1>6, <1>7, <1>8, ProceedKeeps DEF WorkerMoves

LEMMA CloseKeeps == ASSUME Inductive, CloseRuntime PROVE Inductive'
<1>1. /\ TypeOK /\ ProcessFits /\ StopFits /\ DisposalFits /\ GateFits
      /\ exec.pc = "close" /\ exec \in Executions
  BY DEF Inductive, ExecutionInv, CloseRuntime, At, TypeOK
<1> PICK r \in Run : r = exec.run
  BY <1>1 DEF ProcessFits
<1>2. base[r] # None /\ exec.prepared /\ (exec.accepted \/ exec.stopped => Doomed(r))
  BY <1>1 DEF StopFits, Stopping, Running
<1>3. /\ UNCHANGED <<dbVars, processVars, mut, requests, launched, late>>
      /\ UNCHANGED <<head, decision, archived, base, cancelled>> /\ torn' \in {torn, torn \cup {r}}
      /\ exec' = [exec EXCEPT !.pc = "dispose", !.stopped = exec.accepted \/ exec.stopped,
                              !.again = exec.accepted \/ exec.stopped]
  BY DEF CloseRuntime, ExecutionOnly, Reconcile, workerVars
<1>4. WorkerMoves(Run)
  BY <1>1, <1>3, TornMoves DEF TypeOK
<1>5. Proceeds
  <2>1. exec' \in Executions
    BY <1>1, <1>3 DEF Executions
  <2>2. exec'.run = exec.run /\ exec'.base = exec.base /\ exec'.pc = "dispose"
    BY <1>1, <1>3 DEF Executions
  <2> QED
    BY <1>1, <1>3, <2>1, <2>2 DEF Proceeds, Bound, TypeOK
<1>6. StopFits'
  BY <1>1, <1>2, <1>3, <1>4 DEF StopFits, Stopping, Running, Executions, WorkerMoves
<1>7. DisposalFits'
  BY <1>1, <1>3 DEF DisposalFits, Executions
<1>8. GateFits' /\ exec'.pc \notin {"reject", "record"}
  BY <1>1, <1>2, <1>3 DEF GateFits, Executions
<1> QED
  BY <1>4, <1>5, <1>6, <1>7, <1>8, ProceedKeeps DEF WorkerMoves

LEMMA FinalizeKeeps ==
    ASSUME Inductive, FinalizeDisposition, exec'.pc # "idle"
    PROVE  Inductive'
<1>1. /\ TypeOK /\ ProcessFits /\ StopFits /\ DisposalFits /\ GateFits
      /\ exec.pc = "dispose" /\ exec \in Executions /\ head \in Views
  BY DEF Inductive, ExecutionInv, FinalizeDisposition, At, TypeOK
<1> PICK r \in Run : r = exec.run
  BY <1>1 DEF ProcessFits
<1>2. base[r] # None /\ exec.prepared /\ (exec.stopped => Doomed(r))
  BY <1>1 DEF StopFits, Stopping
<1>3. /\ UNCHANGED <<dbVars, processVars, mut, requests, launched, late>>
      /\ UNCHANGED <<head, decision, archived, base, cancelled>> /\ torn' \in {torn, torn \cup {r}}
      /\ \/ /\ decision[r] # "OPEN"
            /\ exec' = [exec EXCEPT !.pc = "confirm", !.settled = TRUE, !.seen = head]
         \/ exec' = [exec EXCEPT !.pc = "disposing", !.seen = head]
         \/ exec' = [exec EXCEPT !.pc = "fail", !.lock = TRUE]
         \/ exec' = [exec EXCEPT !.pc = "dispose", !.again = TRUE]
  BY DEF FinalizeDisposition, DispositionFails, Reconcile, workerVars, Ends, NoExec
<1>4. WorkerMoves(Run)
  BY <1>1, <1>3, TornMoves DEF TypeOK
<1>5. Proceeds
  <2>1. exec' \in Executions
    BY <1>1, <1>3 DEF Executions
  <2>2. exec'.run = exec.run /\ exec'.base = exec.base
        /\ exec'.pc \in {"confirm", "disposing", "fail", "dispose"}
    BY <1>1, <1>3 DEF Executions
  <2> QED
    BY <1>1, <1>3, <2>1, <2>2 DEF Proceeds, Bound, TypeOK
<1>6. exec'.pc \in {"confirm", "disposing", "fail", "dispose"}
      /\ exec'.stopped = exec.stopped /\ exec'.prepared
      /\ exec'.gate = exec.gate /\ (exec'.pc = "confirm" => decision[r] # "OPEN")
  BY <1>1, <1>2, <1>3 DEF Executions
<1>7. StopFits'
  BY <1>2, <1>3, <1>4, <1>5, <1>6 DEF StopFits, Stopping, Running, WorkerMoves, Proceeds
<1>8. DisposalFits'
  BY <1>6 DEF DisposalFits
<1>9. GateFits' /\ exec'.pc \notin {"reject", "record"}
  BY <1>1, <1>3, <1>5, <1>6 DEF GateFits, Proceeds
<1> QED
  BY <1>4, <1>5, <1>7, <1>8, <1>9, ProceedKeeps DEF WorkerMoves

LEMMA DisposeKeeps == ASSUME Inductive, DisposeRun PROVE Inductive'
<1>1. /\ TypeOK /\ ProcessFits /\ StopFits /\ DisposalFits /\ GateFits
      /\ exec.pc = "disposing" /\ exec \in Executions
  BY DEF Inductive, ExecutionInv, DisposeRun, At, TypeOK
<1> PICK r \in Run : r = exec.run
  BY <1>1 DEF ProcessFits
<1> DEFINE q == [kind |-> "dispose", txn |-> r, view |-> exec.seen, outcome |-> exec.gate,
                 named |-> exec.stopped]
<1>2. base[r] # None /\ exec.prepared /\ (exec.stopped => Doomed(r))
  BY <1>1 DEF StopFits, Stopping
<1>3. q.kind = "dispose" /\ q.txn = r /\ q.outcome = exec.gate /\ q.named = exec.stopped
  OBVIOUS
<1>4. /\ UNCHANGED <<dbVars, processVars, mut, requests, launched>>
      /\ Served(q) \/ Lost(q)
      /\ \/ /\ Served(q) /\ Accepts(q)
            /\ exec' = [exec EXCEPT !.pc = "confirm", !.settled = TRUE, !.seen = head']
         \/ exec' = [exec EXCEPT !.pc = "fail", !.lock = TRUE]
         \/ exec' = [exec EXCEPT !.pc = "dispose", !.again = TRUE]
  BY DEF DisposeRun, ExecutionOnly, DispositionFails
<1> HIDE DEF q
<1>5. IsRequest(q)
  BY <1>1, <1>3 DEF IsRequest, GateFits, Executions
<1>6. /\ WorkerMoves(Run \ {exec.run}) /\ (exec.stopped => Doomed(r)')
  <2>1. exec.stopped /\ decision[r] = "OPEN" => Harmless(q, r)
    BY <1>1, <1>2, <1>3 DEF Harmless, GateFits, Unknown
  <2> QED
    BY <1>1, <1>2, <1>3, <1>4, <1>5, <2>1, CallMoves
<1>7. head' \in Views /\ base'[r] # None /\ (archived => archived')
      /\ (decision[r] # "OPEN" => decision'[r] # "OPEN")
  BY <1>2, <1>6 DEF WorkerMoves, Lasting, WorkerTypeOK, Txn
<1>8. Served(q) /\ Accepts(q) => decision'[r] # "OPEN"
  BY <1>1, <1>3 DEF Served, Serve, Accepts, Open, Reject, workerVars, GateFits
<1>9. Proceeds
  <2>1. exec' \in Executions
    BY <1>1, <1>4, <1>7 DEF Executions
  <2>2. exec'.run = exec.run /\ exec'.base = exec.base
        /\ exec'.pc \in {"confirm", "fail", "dispose"}
    BY <1>1, <1>4 DEF Executions
  <2> QED
    BY <1>1, <1>4, <2>1, <2>2 DEF Proceeds, Bound, TypeOK
<1>10. exec'.pc \in {"confirm", "fail", "dispose"} /\ exec'.stopped = exec.stopped /\ exec'.prepared
      /\ exec'.gate = exec.gate /\ (exec'.pc = "confirm" => decision'[r] # "OPEN")
  BY <1>1, <1>2, <1>4, <1>8 DEF Executions
<1>11. StopFits'
  BY <1>6, <1>7, <1>9, <1>10 DEF StopFits, Stopping, Running, Proceeds
<1>12. DisposalFits'
  BY <1>10 DEF DisposalFits
<1>13. GateFits' /\ exec'.pc \notin {"reject", "record"}
  BY <1>1, <1>7, <1>9, <1>10 DEF GateFits, Proceeds
<1> QED
  BY <1>6, <1>9, <1>11, <1>12, <1>13, ProceedKeeps

LEMMA ConfirmKeeps == ASSUME Inductive, ConfirmDisposition \/ ReadCommit PROVE Inductive'
<1>1. /\ TypeOK /\ ProcessFits /\ StopFits /\ DisposalFits /\ GateFits
      /\ exec.pc \in {"confirm", "publish"} /\ exec \in Executions /\ head \in Views
  BY DEF Inductive, ExecutionInv, ConfirmDisposition, ReadCommit, At, TypeOK
<1> PICK r \in Run : r = exec.run
  BY <1>1 DEF ProcessFits
<1>2. base[r] # None /\ exec.prepared /\ (exec.stopped => Doomed(r))
      /\ (At("confirm") => decision[r] \in Decisions)
  BY <1>1 DEF StopFits, Stopping, GateFits, TypeOK, Txn, At
<1>3. /\ UNCHANGED <<dbVars, processVars, mut, requests, launched, workerVars, late>>
      /\ \/ At("confirm") /\ exec' = [exec EXCEPT !.pc = "reject", !.seen = head]
         \/ At("confirm") /\ exec' = [exec EXCEPT !.pc = "fail", !.lock = TRUE, !.settled = FALSE]
         \/ /\ At("confirm")
            /\ \E gate \in Decisions : exec' = [exec EXCEPT !.pc = "fail", !.gate = gate]
         \/ /\ At("publish")
            /\ exec' = [exec EXCEPT !.pc = "record", !.seen = head, !.settled = TRUE]
         \/ At("publish") /\ exec' = [exec EXCEPT !.pc = "fail", !.settled = TRUE]
  BY <1>2 DEF ConfirmDisposition, ReadCommit, ExecutionOnly, NotPublished, Read, At
<1>4. WorkerMoves(Run)
  BY <1>1, <1>3, LocalMoves
<1>5. Proceeds
  <2>1. exec' \in Executions
    <3>1. CASE At("confirm")
      BY <1>1, <1>3, <3>1 DEF Executions, At
    <3>2. CASE At("publish")
      BY <1>1, <1>3, <3>2 DEF Executions, At
    <3> QED
      BY <1>1, <3>1, <3>2 DEF At
  <2>2. exec'.run = exec.run /\ exec'.base = exec.base /\ exec'.pc \in {"reject", "record", "fail"}
    BY <1>1, <1>3 DEF Executions
  <2> QED
    BY <1>1, <1>3, <2>1, <2>2 DEF Proceeds, Bound, TypeOK
<1>6. /\ exec'.pc \in {"reject", "record", "fail"}
      /\ exec'.stopped = exec.stopped /\ exec'.prepared
      /\ exec'.pc = "reject" => At("confirm") /\ exec'.gate = exec.gate
      /\ exec'.pc = "record" => At("publish")
      /\ exec'.pc \in {"reject", "record"} => exec'.seen = head
  BY <1>1, <1>2, <1>3 DEF Executions, At
<1>7. StopFits'
  BY <1>1, <1>2, <1>3, <1>4, <1>5, <1>6 DEF StopFits, Stopping, Running, WorkerMoves, Proceeds,
                                            workerVars, At
<1>8. DisposalFits'
  BY <1>1, <1>3, <1>5, <1>6 DEF DisposalFits, Proceeds, At
<1>9. GateFits'
  BY <1>1, <1>3, <1>5, <1>6 DEF GateFits, Proceeds, At, workerVars
<1>10. exec'.pc \in {"reject", "record"} => exec'.seen \in Views /\ Behind(exec.seen)'
  <2>1. head' = head /\ head \in Views /\ head.gen \in Nat
    BY <1>1, <1>3, ViewFields DEF workerVars
  <2> QED
    BY <1>6, <2>1 DEF Behind
<1> QED
  BY <1>4, <1>5, <1>7, <1>8, <1>9, <1>10, ProceedKeeps DEF WorkerMoves

\* What a step that only writes the database has to leave right.
DbTypeOK ==
    /\ db \in AgentRows /\ rows \in [Run -> RunRows]
    /\ said \in [Run -> {"none", "AUTHORITATIVE", "REJECTED"}]

LEMMA NoExecType == NoExec \in Executions /\ NoMut \in Mutations
BY DEF NoExec, NoMut, Executions, Mutations, Statuses

LEMMA EndKeeps ==
    ASSUME Inductive, exec.pc # "idle", exec' = NoExec, mut' \in {mut, NoMut},
           UNCHANGED <<workerVars, late, launched, up, writing, requests>>,
           reserved' \in BOOLEAN, DbTypeOK', Behind(db.view)', RowsFit',
           \A r \in Run : rows'[r].status = "none" => rows[r].status = "none"
    PROVE  Inductive'
<1> USE DEF Inductive, ExecutionInv
<1>0. exec.run \in Run /\ writing = None /\ up = "up" /\ mut.kind # "rollback"
  BY DEF ProcessFits, MutationFits, NoExec
<1>1. TypeOK'
  BY NoExecType DEF TypeOK, DbTypeOK, workerVars
<1>2. ProcessFits'
  BY <1>0, ProductAssumption DEF ProcessFits, Bound, NoExec
<1>3. MutationFits'
  BY <1>0 DEF MutationFits, NoMut
<1>4. UnknownFits'
  BY <1>0, ProductAssumption DEF UnknownFits, NoExec, Unknown, workerVars
<1>5. StopFits' /\ GateFits'
  BY DEF StopFits, GateFits, Stopping, NoExec
<1>6. DisposalFits'
  BY ProductAssumption DEF DisposalFits, NoExec, TypeOK, IsRequest
<1>7. ViewsFit'
  BY <1>0 DEF ViewsFit, NoExec, NoMut, Behind, workerVars
<1>8. ConfigurationsAsked'
  BY ViewFields DEF ConfigurationsAsked, ConfigurationsOwed, LateOwed, MutAt, NoMut, TypeOK, workerVars
<1>9. StartupFits'
  BY <1>0 DEF StartupFits
<1> QED
  BY <1>1, <1>2, <1>3, <1>4, <1>5, <1>6, <1>7, <1>8, <1>9

LEMMA TerminalRow ==
    ASSUME TypeOK, NEW r \in Run, decision[r] # "OPEN"
    PROVE  /\ Terminal(r) \in RunRows
           /\ Terminal(r).status = WorkerRunStatus(r) /\ Terminal(r).decision = decision[r]
           /\ Terminal(r).terminal /\ Terminal(r).base = rows[r].base
<1>1. WorkerRunStatus(r) \in {"completed", "failed", "cancelled"} /\ decision[r] \in Decisions
      /\ rows[r] \in RunRows
  BY DEF WorkerRunStatus, TypeOK, Txn
<1> QED
  BY <1>1 DEF Terminal, RunRows

LEMMA PublishKeeps ==
    ASSUME Inductive, PublishRejection \/ PublishCommit, exec'.pc = "idle"
    PROVE  Inductive'
<1>1. /\ TypeOK /\ ProcessFits /\ GateFits /\ ViewsFit /\ RowsFit /\ DbTypeOK
      /\ exec.pc \in {"reject", "record"} /\ exec \in Executions /\ decision \in [Txn -> Decisions \cup {"OPEN"}]
  BY DEF Inductive, ExecutionInv, PublishRejection, PublishCommit, At, TypeOK, DbTypeOK
<1> PICK r \in Run : r = exec.run
  BY <1>1 DEF ProcessFits
<1>2. /\ decision[r] # "OPEN" /\ exec.seen \in Views /\ Behind(exec.seen) /\ Behind(db.view)
      /\ exec.pc = "record" => decision[r] = "COMMITTED"
  BY <1>1 DEF GateFits, ViewsFit
<1>3. exec' = NoExec /\ mut' \in {mut, NoMut}
  BY <1>1 DEF PublishRejection, PublishCommit, Ends, NotPublished, Goto, Executions
<1>4. UNCHANGED <<workerVars, late, launched, up, writing, reserved, requests>>
  BY DEF PublishRejection, PublishCommit, Local, processVars
<1>5. \/ UNCHANGED dbVars
      \/ /\ rows' = [rows EXCEPT ![r] = Terminal(r)]
         /\ \/ said' = said
            \/ exec.pc = "reject" /\ said' = [said EXCEPT ![r] = "REJECTED"]
            \/ exec.pc = "record" /\ said' = [said EXCEPT ![r] = "AUTHORITATIVE"]
         /\ \E status \in Statuses : db' = [db EXCEPT !.view = exec.seen, !.lease = None,
                                                     !.locked = FALSE, !.status = status]
  BY <1>1 DEF PublishRejection, PublishCommit, At, StatusAfter, Statuses, dbVars
<1>6. DbTypeOK' /\ Behind(db.view)'
  <2>1. CASE UNCHANGED dbVars
    BY <1>1, <1>2, <1>4, <2>1 DEF dbVars, DbTypeOK, Behind, workerVars
  <2>2. CASE /\ rows' = [rows EXCEPT ![r] = Terminal(r)]
             /\ said' \in {said, [said EXCEPT ![r] = "REJECTED"], [said EXCEPT ![r] = "AUTHORITATIVE"]}
             /\ \E status \in Statuses : db' = [db EXCEPT !.view = exec.seen, !.lease = None,
                                                         !.locked = FALSE, !.status = status]
    <3>1. rows' \in [Run -> RunRows] /\ said' \in [Run -> {"none", "AUTHORITATIVE", "REJECTED"}]
      BY <1>1, <1>2, <2>2, TerminalRow DEF DbTypeOK
    <3>2. db' \in AgentRows /\ db'.view = exec.seen
      BY <1>1, <1>2, <2>2 DEF DbTypeOK, AgentRows
    <3> QED
      BY <1>2, <1>4, <3>1, <3>2 DEF DbTypeOK, Behind, workerVars
  <2> QED
    BY <1>5, <2>1, <2>2
<1>7. RowsFit'
  <2>1. \A s \in Run : Doomed(s) => Doomed(s)'
    BY <1>4 DEF Doomed, LateHarmless, Unknown, workerVars
  <2>2. CASE UNCHANGED dbVars
    BY <1>1, <1>4, <2>1, <2>2 DEF RowsFit, dbVars, workerVars
  <2>3. CASE /\ rows' = [rows EXCEPT ![r] = Terminal(r)]
             /\ \/ said' = said
                \/ exec.pc = "reject" /\ said' = [said EXCEPT ![r] = "REJECTED"]
                \/ exec.pc = "record" /\ said' = [said EXCEPT ![r] = "AUTHORITATIVE"]
    <3>1. \A s \in Run : said'[s] = "AUTHORITATIVE" => decision[s] = "COMMITTED"
      BY <1>1, <1>2, <2>3 DEF RowsFit, DbTypeOK
    <3>2. /\ Terminal(r).status = "completed" =>
               Terminal(r).decision = decision[r] /\ decision[r] \notin {"OPEN", "ABORTED"}
          /\ Terminal(r).status = "cancelled" => Doomed(r)
      BY <1>1, <1>2, TerminalRow DEF WorkerRunStatus, Doomed
    <3>3. \A s \in Run : rows'[s] = IF s = r THEN Terminal(r) ELSE rows[s]
      BY <1>1, <2>3 DEF DbTypeOK
    <3> QED
      BY <1>1, <1>4, <2>1, <3>1, <3>2, <3>3 DEF RowsFit, workerVars
  <2> QED
    BY <1>5, <2>2, <2>3
<1>8. \A s \in Run : rows'[s].status = "none" => rows[s].status = "none"
  BY <1>1, <1>2, <1>5, TerminalRow DEF DbTypeOK, WorkerRunStatus, dbVars
<1> QED
  BY <1>1, <1>3, <1>4, <1>6, <1>7, <1>8, EndKeeps DEF TypeOK

LEMMA NotPublishedKeeps ==
    ASSUME Inductive, PublishRejection \/ PublishCommit, exec'.pc # "idle"
    PROVE  Inductive'
<1>1. /\ TypeOK /\ ProcessFits /\ StopFits /\ DisposalFits /\ GateFits
      /\ exec.pc \in {"reject", "record"} /\ exec \in Executions
  BY DEF Inductive, ExecutionInv, PublishRejection, PublishCommit, At, TypeOK
<1> PICK r \in Run : r = exec.run
  BY <1>1 DEF ProcessFits
<1>2. /\ base[r] # None /\ exec.prepared /\ (exec.stopped => Doomed(r) /\ exec.pc = "reject")
      /\ decision[r] \in Decisions
  BY <1>1 DEF StopFits, Stopping, GateFits, TypeOK, Txn
<1>3. /\ UNCHANGED <<dbVars, processVars, mut, requests, launched, workerVars, late>>
      /\ \/ exec' = [exec EXCEPT !.pc = "fail", !.lock = TRUE, !.settled = FALSE]
         \/ \E gate \in Decisions : exec' = [exec EXCEPT !.pc = "fail", !.gate = gate]
         \/ exec' = [exec EXCEPT !.pc = "fail"]
  <2>1. exec' # NoExec
    BY DEF NoExec
  <2>2. CASE PublishRejection
    <3>1. At("reject") /\ Local /\ UNCHANGED <<processVars, requests, dbVars, mut>> /\ NotPublished
      BY <2>1, <2>2 DEF PublishRejection, Ends
    <3> QED
      BY <1>2, <3>1 DEF NotPublished, Local
  <2>3. CASE PublishCommit
    BY <2>1, <2>3 DEF PublishCommit, Ends, Goto, Local
  <2> QED
    BY <2>2, <2>3
<1>4. WorkerMoves(Run)
  BY <1>1, <1>3, LocalMoves
<1>5. exec' \in Executions /\ exec'.run = exec.run /\ exec'.base = exec.base /\ exec'.pc = "fail"
      /\ exec'.stopped = exec.stopped /\ exec'.prepared
  BY <1>1, <1>2, <1>3 DEF Executions
<1>6. Proceeds
  BY <1>1, <1>3, <1>5 DEF Proceeds, Bound, TypeOK
<1>7. StopFits'
  BY <1>1, <1>2, <1>3, <1>4, <1>5 DEF StopFits, Stopping, Running, WorkerMoves, workerVars
<1>8. DisposalFits' /\ GateFits'
  BY <1>5 DEF DisposalFits, GateFits
<1> QED
  BY <1>4, <1>5, <1>6, <1>7, <1>8, ProceedKeeps DEF WorkerMoves

LEMMA FailureKeeps == ASSUME Inductive, PersistFailure PROVE Inductive'
<1>1. /\ TypeOK /\ ProcessFits /\ StopFits /\ ViewsFit /\ RowsFit /\ DbTypeOK
      /\ exec.pc = "fail" /\ exec \in Executions /\ reserved \in BOOLEAN
  BY DEF Inductive, ExecutionInv, PersistFailure, At, TypeOK, DbTypeOK
<1> PICK r \in Run : r = exec.run
  BY <1>1 DEF ProcessFits
<1>2. (exec.stopped => Doomed(r)) /\ Behind(db.view)
  BY <1>1 DEF StopFits, Stopping, ViewsFit
<1>3. exec' = NoExec /\ mut' \in {mut, NoMut} /\ reserved' \in BOOLEAN
  BY <1>1 DEF PersistFailure, Ends
<1>4. UNCHANGED <<workerVars, late, launched, up, writing, requests, said>>
  BY DEF PersistFailure, Local
<1>5. \/ UNCHANGED <<db, rows>>
      \/ /\ \E terminal \in BOOLEAN : rows' =
                [rows EXCEPT ![r].status = IF exec.stopped THEN "cancelled" ELSE "failed",
                             ![r].terminal = terminal, ![r].decision = exec.gate]
         /\ \E status \in Statuses, view \in {db.view, NextLocalView(exec.seen)}, locked \in BOOLEAN :
                db' = [db EXCEPT !.view = view, !.lease = None, !.locked = locked, !.status = status]
  <2>1. StatusAfter(TRUE) \in Statuses /\ StatusAfter(FALSE) \in Statuses
    BY DEF StatusAfter, Statuses
  <2> QED
    BY <1>1, <2>1 DEF PersistFailure
<1>6. \A s \in Run : Doomed(s) => Doomed(s)'
  BY <1>4 DEF Doomed, LateHarmless, Unknown, workerVars
<1>7. CASE UNCHANGED <<db, rows>>
  <2>1. DbTypeOK' /\ Behind(db.view)'
    BY <1>1, <1>2, <1>4, <1>7 DEF DbTypeOK, Behind, workerVars
  <2>2. RowsFit'
    BY <1>1, <1>4, <1>6, <1>7 DEF RowsFit, workerVars
  <2> QED
    BY <1>1, <1>3, <1>4, <1>7, <2>1, <2>2, EndKeeps
<1>8. CASE
      /\ \E terminal \in BOOLEAN : rows' =
                [rows EXCEPT ![r].status = IF exec.stopped THEN "cancelled" ELSE "failed",
                             ![r].terminal = terminal, ![r].decision = exec.gate]
      /\ \E status \in Statuses, view \in {db.view, NextLocalView(exec.seen)}, locked \in BOOLEAN :
                db' = [db EXCEPT !.view = view, !.lease = None, !.locked = locked, !.status = status]
  <2>1. NextLocalView(exec.seen) \in Views /\ Behind(NextLocalView(exec.seen))
    <3>1. db.view \in Views /\ exec.seen \in Views \cup {None}
      BY <1>1 DEF DbTypeOK, AgentRows, Executions
    <3>2. \E epoch \in Nat : NextLocalView(exec.seen) = [db.view EXCEPT !.epoch = epoch]
      <4>1. exec.seen # None => exec.seen.epoch \in Nat
        BY <3>1, ViewFields
      <4> DEFINE epoch == IF exec.seen # None /\ exec.seen.epoch > db.view.epoch
                          THEN exec.seen.epoch ELSE db.view.epoch + 1
      <4>2. epoch \in Nat
        BY <3>1, <4>1, ViewFields
      <4>3. NextLocalView(exec.seen) = [db.view EXCEPT !.epoch = epoch]
        BY DEF NextLocalView
      <4> QED
        BY <4>2, <4>3
    <3> QED
      BY <1>2, <3>1, <3>2 DEF Views, Behind
  <2>2. db' \in AgentRows /\ Behind(db.view)'
    <3>1. PICK status \in Statuses, view \in {db.view, NextLocalView(exec.seen)}, locked \in BOOLEAN :
                db' = [db EXCEPT !.view = view, !.lease = None, !.locked = locked, !.status = status]
      BY <1>8
    <3>2. view \in Views /\ Behind(view)
      BY <1>1, <1>2, <2>1 DEF DbTypeOK, AgentRows
    <3>3. db' \in AgentRows /\ db'.view = view
      BY <1>1, <3>1, <3>2 DEF DbTypeOK, AgentRows
    <3> QED
      BY <1>4, <3>2, <3>3 DEF Behind, workerVars
  <2>3. PICK row \in RunRows :
            /\ rows' = [rows EXCEPT ![r] = row]
            /\ row.status = IF exec.stopped THEN "cancelled" ELSE "failed"
    <3>1. PICK terminal \in BOOLEAN : rows' =
                [rows EXCEPT ![r].status = IF exec.stopped THEN "cancelled" ELSE "failed",
                             ![r].terminal = terminal, ![r].decision = exec.gate]
      BY <1>8
    <3> DEFINE status == IF exec.stopped THEN "cancelled" ELSE "failed"
               row == [rows[r] EXCEPT !.status = status, !.terminal = terminal, !.decision = exec.gate]
    <3>2. status \in {"cancelled", "failed"} /\ rows[r] \in RunRows /\ exec.gate \in Decisions \cup {None}
      BY <1>1 DEF DbTypeOK, Executions
    <3>3. rows' = [rows EXCEPT ![r] = row]
      BY <1>1, <3>1 DEF DbTypeOK
    <3> HIDE DEF status
    <3>4. row \in RunRows /\ row.status = status
      BY <3>2 DEF RunRows
    <3> QED
      BY <3>3, <3>4 DEF status
  <2>4. \A s \in Run : rows'[s] = IF s = r THEN row ELSE rows[s]
    BY <1>1, <2>3 DEF DbTypeOK
  <2>5. DbTypeOK'
    BY <1>1, <1>4, <2>2, <2>3 DEF DbTypeOK
  <2>6. RowsFit'
    BY <1>1, <1>2, <1>4, <1>6, <2>3, <2>4 DEF RowsFit, workerVars
  <2>7. \A s \in Run : rows'[s].status = "none" => rows[s].status = "none"
    BY <2>3, <2>4
  <2> QED
    BY <1>1, <1>3, <1>4, <2>2, <2>5, <2>6, <2>7, EndKeeps
<1> QED
  BY <1>5, <1>7, <1>8

LEMMA StartKeeps == ASSUME Inductive, StartExecution PROVE Inductive'
<1> USE DEF Inductive, ExecutionInv
<1>1. /\ writing \in Run /\ writing' = None /\ exec = NoExec /\ up = "up" /\ mut.kind # "rollback"
      /\ exec'.run = writing /\ exec'.pc = "bind" /\ exec' \in Executions /\ ~exec'.stopped
      /\ ~exec'.accepted /\ ~exec'.prepared
      /\ UNCHANGED <<workerVars, late, launched, dbVars, up, reserved, mut, requests>>
  BY DEF StartExecution, NoExec, Executions, TypeOK, ProcessFits, MutationFits, Local, boundVars
<1>2. TypeOK'
  BY <1>1 DEF TypeOK, workerVars, dbVars
<1>3. ProcessFits' /\ MutationFits'
  BY <1>1, ProductAssumption DEF ProcessFits, Bound, MutationFits, dbVars
<1>4. \A r \in Run : (Unknown(r) => Unknown(r)') /\ (Doomed(r) => Doomed(r)')
  BY <1>1 DEF Unknown, Doomed, LateHarmless, workerVars
<1>5. UnknownFits'
  BY <1>1, <1>4, ProductAssumption DEF UnknownFits, dbVars
<1>6. StopFits' /\ GateFits'
  BY <1>1 DEF StopFits, GateFits, Stopping
<1>7. DisposalFits'
  BY <1>1 DEF DisposalFits, UnknownFits, Unknown
<1>8. RowsFit'
  BY <1>1, <1>4 DEF RowsFit, dbVars, workerVars
<1>9. ViewsFit'
  BY <1>1 DEF ViewsFit, Behind, dbVars, workerVars, TypeOK
<1>10. ConfigurationsAsked' /\ StartupFits'
  BY <1>1 DEF ConfigurationsAsked, ConfigurationsOwed, LateOwed, MutAt, StartupFits, workerVars
<1> QED
  BY <1>2, <1>3, <1>5, <1>6, <1>7, <1>8, <1>9, <1>10

LEMMA BindKeeps == ASSUME Inductive, Bind PROVE Inductive'
<1>1. /\ TypeOK /\ ProcessFits /\ MutationFits /\ StopFits /\ UnknownFits /\ ViewsFit /\ RowsFit
      /\ DbTypeOK /\ exec.pc = "bind" /\ exec \in Executions /\ db.view \in Views
  BY DEF Inductive, ExecutionInv, Bind, At, TypeOK, DbTypeOK, AgentRows
<1> PICK r \in Run : r = exec.run
  BY <1>1 DEF ProcessFits
<1>2. /\ Unknown(r) /\ writing = None /\ up = "up" /\ mut.kind # "rollback" /\ ~exec.accepted
      /\ ~exec.prepared /\ ~exec.stopped
  BY <1>1 DEF UnknownFits, ProcessFits, MutationFits, NoExec, StopFits
<1>3. UNCHANGED <<workerVars, late, launched, db, said, processVars, requests>>
  BY DEF Bind, Local
<1>4. \/ /\ UNCHANGED mut
         /\ rows[r].status = "queued" /\ rows' = [rows EXCEPT ![r].status = "running", ![r].base = db.view]
         /\ \E stopped \in BOOLEAN :
               exec' = [exec EXCEPT !.base = db.view, !.stopped = stopped,
                                    !.pc = IF stopped THEN "fail" ELSE "prepare"]
      \/ exec' = NoExec /\ mut' \in {mut, NoMut} /\ UNCHANGED rows
  BY DEF Bind, Ends, Cancelling
<1>5. \A s \in Run : (Unknown(s) => Unknown(s)') /\ (Doomed(s) => Doomed(s)')
  BY <1>3 DEF Unknown, Doomed, LateHarmless, workerVars
<1>6. CASE exec' = NoExec /\ mut' \in {mut, NoMut} /\ UNCHANGED rows
  <2>1. DbTypeOK' /\ Behind(db.view)'
    BY <1>1, <1>3, <1>6 DEF DbTypeOK, ViewsFit, Behind, workerVars
  <2>2. RowsFit'
    BY <1>1, <1>3, <1>5, <1>6 DEF RowsFit, workerVars
  <2>3. exec.pc # "idle"
    BY <1>1
  <2> QED
    BY <1>1, <1>3, <1>6, <2>1, <2>2, <2>3, EndKeeps DEF processVars, TypeOK
<1>7. ASSUME UNCHANGED mut, NEW stopped \in BOOLEAN, rows[r].status = "queued",
             rows' = [rows EXCEPT ![r].status = "running", ![r].base = db.view],
             exec' = [exec EXCEPT !.base = db.view, !.stopped = stopped,
                                  !.pc = IF stopped THEN "fail" ELSE "prepare"]
      PROVE  Inductive'
  <2> DEFINE pc == IF stopped THEN "fail" ELSE "prepare"
  <2>1. /\ exec' = [exec EXCEPT !.base = db.view, !.stopped = stopped, !.pc = pc]
        /\ pc \in {"fail", "prepare"} /\ (stopped => pc = "fail")
    BY <1>7
  <2> HIDE DEF pc
  <2>2. /\ exec' \in Executions /\ exec'.run = r /\ exec'.base \in Views /\ exec'.stopped = stopped
        /\ exec'.pc = pc /\ ~exec'.accepted /\ ~exec'.prepared
    BY <1>1, <1>2, <2>1 DEF Executions
  <2>3. /\ rows' \in [Run -> RunRows] /\ rows'[r].status = "running"
        /\ \A s \in Run : s # r => rows'[s] = rows[s]
    BY <1>1, <1>7 DEF DbTypeOK, RunRows
  <2>4. TypeOK'
    BY <1>1, <1>3, <1>7, <2>2, <2>3 DEF TypeOK, workerVars, processVars
  <2>5. ProcessFits' /\ MutationFits'
    BY <1>1, <1>2, <1>3, <1>7, <2>1, <2>2, <2>3 DEF ProcessFits, MutationFits, Bound, processVars
  <2>6. UnknownFits'
    BY <1>1, <1>2, <1>3, <1>5, <2>1, <2>2, <2>3, ProductAssumption DEF UnknownFits, processVars
  <2>7. StopFits'
    BY <1>2, <1>5, <2>1, <2>2 DEF StopFits, Stopping, Doomed, Unknown
  <2>8. DisposalFits' /\ GateFits'
    BY <1>2, <1>3, <2>1, <2>2 DEF DisposalFits, GateFits, Unknown
  <2>9. RowsFit'
    BY <1>1, <1>3, <1>5, <1>7, <2>3 DEF RowsFit, workerVars
  <2>10. ViewsFit'
    BY <1>1, <1>2, <1>3, <1>7, <2>1, <2>2 DEF ViewsFit, Behind, workerVars
  <2>11. ConfigurationsAsked' /\ StartupFits'
    BY <1>2, <1>3, <1>7 DEF Inductive, ConfigurationsAsked, ConfigurationsOwed, LateOwed, MutAt,
                            StartupFits, workerVars, processVars
  <2> QED
    BY <2>4, <2>5, <2>6, <2>7, <2>8, <2>9, <2>10, <2>11 DEF Inductive, ExecutionInv
<1> QED
  BY <1>4, <1>6, <1>7

LEMMA ExecutionKeeps == ASSUME Inductive, Execution PROVE Inductive'
<1>1. CASE FinalizeDisposition /\ exec'.pc = "idle"
  <2>1. /\ exec.pc = "dispose" /\ exec' = NoExec /\ mut' \in {mut, NoMut}
        /\ UNCHANGED <<workerVars, late, launched, dbVars, processVars, requests>>
    <3>1. exec \in Executions /\ exec.pc = "dispose"
      BY <1>1 DEF Inductive, TypeOK, FinalizeDisposition, At
    <3>2. exec'.pc = "idle" => ~DispositionFails
          /\ exec' # [exec EXCEPT !.pc = "confirm", !.settled = TRUE, !.seen = head]
          /\ exec' # [exec EXCEPT !.pc = "disposing", !.seen = head]
      BY <3>1 DEF DispositionFails, Executions
    <3> QED
      BY <1>1, <3>1, <3>2 DEF FinalizeDisposition, Ends
  <2>2. DbTypeOK' /\ Behind(db.view)'
    BY <2>1 DEF Inductive, TypeOK, DbTypeOK, ViewsFit, Behind, workerVars, dbVars
  <2>3. \A s \in Run : Doomed(s) => Doomed(s)'
    BY <2>1 DEF Doomed, LateHarmless, Unknown, workerVars
  <2>4. RowsFit'
    BY <2>1, <2>3 DEF Inductive, RowsFit, workerVars, dbVars
  <2>5. exec.pc # "idle" /\ reserved' \in BOOLEAN
        /\ \A r \in Run : rows'[r].status = "none" => rows[r].status = "none"
    BY <2>1 DEF Inductive, TypeOK, processVars, dbVars
  <2> QED
    BY <2>1, <2>2, <2>4, <2>5, EndKeeps DEF processVars
<1> QED
  BY <1>1, StartKeeps, BindKeeps, PrepareKeeps, LaunchKeeps, WorkKeeps, ApplyKeeps, ResolveKeeps,
     CloseKeeps, FinalizeKeeps, DisposeKeeps, ConfirmKeeps, PublishKeeps, NotPublishedKeeps,
     FailureKeeps
  DEF Execution

----------------------------------------------------------------------------
(* The steps beside an execution: the Worker's own and the user's. *)

LEMMA AsideKeeps ==
    ASSUME Inductive, Lasting, late' # None => IsRequest(late'),
           \A r \in Run : (Unknown(r) => Unknown(r)') /\ (Doomed(r) => Doomed(r)'),
           late' # None /\ late'.kind = "dispose" => late' = late,
           UNCHANGED <<exec, rows, said, launched, processVars>>,
           db' \in AgentRows, Behind(db.view)', mut' \in Mutations, requests' \in 0..MaxRequests,
           MutationFits', ConfigurationsAsked', up # "up" => mut' = NoMut,
           mut'.kind = "rollback" /\ mut'.pc = "record" => Behind(mut.view)',
           mut'.kind = "update" /\ mut'.pc = "record" =>
               Regenerated(mut'.view) \in Views /\ Behind(Regenerated(mut.view))',
           up \in {"recover", "apply"} => late' \in {late, None} /\ base' = base
    PROVE  Inductive'
<1>1. /\ TypeOK /\ ProcessFits /\ StopFits /\ UnknownFits /\ DisposalFits /\ GateFits /\ RowsFit
      /\ ViewsFit /\ StartupFits
  BY DEF Inductive, ExecutionInv
<1>2. /\ \A r \in Run : decision[r] # "OPEN" => decision'[r] = decision[r]
      /\ \A r \in Run : base[r] # None => base'[r] # None
      /\ torn \subseteq torn' /\ (archived => archived')
  BY DEF Lasting, Txn
<1>3. TypeOK'
  BY <1>1 DEF TypeOK, Lasting, WorkerTypeOK, processVars
<1>4. ProcessFits'
  BY <1>1 DEF ProcessFits, Bound, processVars
<1>5. UnknownFits'
  BY <1>1, ProductAssumption DEF UnknownFits, ProcessFits, processVars
<1>6. StopFits'
  <2>1. exec.pc = "idle" \/ exec.run \in Run
    BY <1>1 DEF ProcessFits
  <2>2. Stopping => Doomed(exec.run)'
    BY <1>1, <2>1 DEF StopFits, Stopping, Running
  <2>3. exec.prepared => base'[exec.run] # None
    BY <1>1, <1>2, <2>1 DEF StopFits
  <2> QED
    BY <1>1, <2>2, <2>3 DEF StopFits, Stopping, Running
<1>7. DisposalFits'
  BY <1>1 DEF DisposalFits
<1>8. GateFits'
  BY <1>1, <1>2 DEF GateFits, ProcessFits
<1>9. RowsFit'
  BY <1>1, <1>2 DEF RowsFit
<1>10. ViewsFit'
  <2>1. exec.pc \in {"reject", "record"} => exec.seen \in Views /\ Behind(exec.seen)'
    BY <1>1 DEF ViewsFit, Lasting, Behind
  <2> QED
    BY <2>1 DEF ViewsFit
<1>11. StartupFits'
  BY <1>1, <1>2 DEF StartupFits, ActiveRows, processVars
<1> QED
  BY <1>3, <1>4, <1>5, <1>6, <1>7, <1>8, <1>9, <1>10, <1>11 DEF Inductive, ExecutionInv

\* The Worker's own steps change nothing else.
LEMMA WorkerOnly ==
    ASSUME Inductive, WorkerMoves(Run), late' \in {late, None},
           UNCHANGED <<exec, mut, dbVars, launched, processVars, requests>>,
           up \in {"recover", "apply"} => base' = base
    PROVE  Inductive'
<1>1. TypeOK /\ ViewsFit /\ ProcessFits /\ MutationFits /\ ConfigurationsAsked /\ db.view \in Views
  BY DEF Inductive, ExecutionInv, TypeOK, AgentRows
<1>2. Behind(db.view)'
  BY <1>1 DEF ViewsFit, WorkerMoves, Lasting, Behind, dbVars
<1>3. /\ mut.kind = "rollback" /\ mut.pc = "record" => Behind(mut.view)'
      /\ mut.kind = "update" /\ mut.pc = "record" =>
            Regenerated(mut.view) \in Views /\ Behind(Regenerated(mut.view))'
  BY <1>1 DEF ViewsFit, WorkerMoves, Lasting, Behind, MutationFits
<1>4. ConfigurationsAsked'
  BY <1>1, ViewFields DEF WorkerMoves, ConfigurationsAsked, ConfigurationsOwed, MutAt, LateOwed,
                          Lasting, WorkerTypeOK, TypeOK
<1>5. MutationFits' /\ (up # "up" => mut' = NoMut)
  BY <1>1 DEF MutationFits, ProcessFits, processVars
<1> QED
  BY <1>1, <1>2, <1>3, <1>4, <1>5, AsideKeeps DEF WorkerMoves, TypeOK, dbVars

LEMMA RecoveryKeeps == ASSUME Inductive, Recovery PROVE Inductive'
<1>1. PICK t \in Txn : WorkerRecovers(t)
  BY DEF Recovery
<1>2. Open(t) /\ Reject(t, "ABORTED", t \in cancelled) /\ late' \in {late, None} /\ base' = base
  BY <1>1 DEF WorkerRecovers, Recoverable, RecoveredReason, Reject
<1>3. WorkerMoves(Run)
  BY <1>2, AbortMoves DEF Inductive
<1> QED
  BY <1>1, <1>2, <1>3, WorkerOnly DEF WorkerRecovers

LEMMA LateKeeps == ASSUME Inductive, LateRequest PROVE Inductive'
<1>1. TypeOK /\ late # None /\ IsRequest(late) /\ late' = None /\ ConfigurationsAsked /\ StartupFits
      /\ UNCHANGED <<exec, mut, dbVars, launched, processVars, requests>>
  BY DEF Inductive, TypeOK, LateRequest, boundVars
<1>2. CASE UNCHANGED workerVars
  <2>1. Lasting /\ head' = head
    BY <1>1, <1>2, StillLasts DEF workerVars, TypeOK
  <2>2. \A r \in Run : (Unknown(r) => Unknown(r)') /\ (Doomed(r) => Doomed(r)')
    BY <1>1, <1>2 DEF Unknown, Doomed, LateHarmless, workerVars
  <2>3. WorkerMoves(Run)
    BY <1>1, <2>1, <2>2, ViewFields DEF WorkerMoves, LateOwed, TypeOK
  <2> QED
    BY <1>1, <1>2, <2>3, WorkerOnly DEF workerVars
<1>3. CASE Serve(late)
  <2>1. late.kind = "configure" => head.cfg + 1 \in Platform
    <3>1. head.cfg \in Nat /\ requests \in 0..MaxRequests /\ MaxRequests \in Nat
      BY <1>1, ViewFields, ProductAssumption DEF TypeOK
    <3>2. late.kind = "configure" => head.cfg + 1 <= requests
      BY <1>1, <3>1 DEF ConfigurationsAsked, ConfigurationsOwed, LateOwed
    <3> QED
      BY <3>1, <3>2 DEF Platform
  <2>2. Lasting /\ (late.kind # "configure" => head'.cfg = head.cfg)
    BY <1>1, <1>3, <2>1, ServeLasts
  <2>3. \A r \in Run : Unknown(r) => Unknown(r)'
    <3>1. \A r \in Run : Unknown(r) => late.txn # r
      BY <1>1 DEF Unknown
    <3> QED
      BY <1>1, <1>3, <3>1, ServeSpares
  <2>4. \A r \in Run : Doomed(r) => Doomed(r)'
    <3>1. \A r \in Run : Doomed(r) /\ decision[r] = "OPEN" => Harmless(late, r)
      BY <1>1 DEF Unknown, Doomed, LateHarmless, Harmless
    <3> QED
      BY <1>1, <1>3, <3>1, ServeDooms
  <2>5. WorkerMoves(Run)
    BY <1>1, <2>2, <2>3, <2>4, ViewFields DEF WorkerMoves, LateOwed, Lasting, TypeOK
  <2> QED
    BY <1>1, <2>5, WorkerOnly DEF StartupFits
<1> QED
  BY <1>2, <1>3 DEF LateRequest

\* A mutation's step that the runs do not notice.
LEMMA MutationAside ==
    ASSUME Inductive, WorkerMoves(Run), mut # NoMut, mut' \in Mutations, MutationFits',
           UNCHANGED <<exec, rows, said, launched, processVars, requests>>,
           late' # None /\ late'.kind = "dispose" => late' = late,
           db' \in AgentRows, Behind(db.view)',
           mut'.kind = "rollback" /\ mut'.pc = "record" => Behind(mut.view)',
           mut'.kind = "update" => mut'.pc # "record" /\ mut = mut'
    PROVE  Inductive'
<1>1. TypeOK /\ ProcessFits /\ ConfigurationsAsked
  BY DEF Inductive, ExecutionInv
<1>2. up = "up"
  BY <1>1 DEF ProcessFits
<1>3. ConfigurationsAsked'
  BY <1>1, ViewFields DEF WorkerMoves, ConfigurationsAsked, ConfigurationsOwed, MutAt, LateOwed,
                          Lasting, WorkerTypeOK, TypeOK
<1> QED
  BY <1>1, <1>2, <1>3, AsideKeeps DEF WorkerMoves, TypeOK

LEMMA CallAside ==
    ASSUME TypeOK, NEW q, IsRequest(q), q.kind \in {"prepare", "apply", "archive"}, q.txn \notin Run,
           Served(q) \/ Lost(q)
    PROVE  WorkerMoves(Run) /\ (late' # None /\ late'.kind = "dispose" => late' = late)
BY CallMoves DEF WorkerMoves

LEMMA ArchiveKeeps == ASSUME Inductive, ArchiveAgent PROVE Inductive'
<1> DEFINE q == Request("archive", None, mut.view)
<1>1. /\ TypeOK /\ MutationFits /\ ViewsFit /\ mut \in Mutations /\ mut.kind = "delete" /\ mut.pc = "finish"
      /\ db \in AgentRows
  BY DEF Inductive, ExecutionInv, TypeOK, ArchiveAgent, MutAt
<1>2. /\ UNCHANGED <<exec, dbVars, launched, processVars, requests>>
      /\ Served(q) \/ Lost(q) \/ Read
      /\ mut' \in {NoMut, [mut EXCEPT !.pc = "remove"]}
  BY DEF ArchiveAgent, MutationOnly, MutGoto, Finish
<1>3. q.kind = "archive" /\ q.txn = None /\ IsRequest(q)
  BY DEF IsRequest, Request
<1> HIDE DEF q
<1>4. WorkerMoves(Run) /\ (late' # None /\ late'.kind = "dispose" => late' = late)
  <2>1. CASE Served(q) \/ Lost(q)
    BY <1>1, <1>3, <2>1, CallAside, ProductAssumption
  <2>2. CASE Read
    BY <1>1, <2>2, LocalMoves DEF Read
  <2> QED
    BY <1>2, <2>1, <2>2
<1>5. mut' \in Mutations /\ mut'.kind \in {"none", "delete"} /\ mut # NoMut
      /\ (mut'.kind = "delete" => mut'.view = mut.view)
  BY <1>1, <1>2, NoExecType DEF Mutations, NoMut
<1>6. MutationFits'
  BY <1>1, <1>5 DEF MutationFits
<1>7. Behind(db.view)'
  BY <1>1, <1>2, <1>4 DEF ViewsFit, WorkerMoves, Lasting, Behind, dbVars, AgentRows
<1> QED
  BY <1>1, <1>2, <1>4, <1>5, <1>6, <1>7, MutationAside DEF dbVars

\* Steps that change the Agent's row only, and the mutation.
LEMMA LocalMutationKeeps ==
    ASSUME Inductive, ExecutionOver \/ StopAgent \/ RemoveAgent \/ RecordRollback
    PROVE  Inductive'
<1>1. /\ TypeOK /\ MutationFits /\ ViewsFit /\ mut \in Mutations /\ db \in AgentRows
      /\ mut.pc \in {"await", "finish", "remove", "record", "undo"} /\ mut # NoMut
  BY DEF Inductive, ExecutionInv, TypeOK, ExecutionOver, StopAgent, RemoveAgent, RecordRollback,
         MutAt, NoMut
<1>2. /\ UNCHANGED <<exec, rows, said, launched, processVars, requests, workerVars, late>>
      /\ \/ mut' = NoMut
         \/ mut.pc = "await" /\ mut' = [mut EXCEPT !.pc = "finish"]
         \/ mut.kind = "rollback" /\ mut' = [mut EXCEPT !.pc = "undo"]
  BY DEF ExecutionOver, StopAgent, RemoveAgent, RecordRollback, Local, MutGoto, Finish, dbVars,
         boundVars
<1>3. /\ mut' \in Mutations /\ mut'.kind \in {"none", mut.kind} /\ mut'.view \in {mut.view, None}
      /\ mut'.kind # "none" => mut'.kind = mut.kind /\ mut'.view = mut.view /\ mut'.txn = mut.txn
      /\ mut'.kind = "rollback" => mut'.pc = "undo"
      /\ mut'.kind # "update"
  <2>1. CASE mut' = NoMut
    BY <1>1, <2>1, NoExecType DEF NoMut, Mutations
  <2>2. CASE mut' # NoMut
    BY <1>1, <1>2, <2>2 DEF MutationFits, Mutations
  <2> QED
    BY <2>1, <2>2
<1>4. MutationFits'
  BY <1>1, <1>2, <1>3 DEF MutationFits, processVars
<1>5. \/ db' = db
      \/ \E status \in Statuses : db' = [db EXCEPT !.status = status]
      \/ db' = [db EXCEPT !.gone = TRUE, !.lease = None]
      \/ /\ mut.kind = "rollback" /\ mut.pc = "record"
         /\ \E status \in Statuses : db' = [db EXCEPT !.view = mut.view, !.lease = None,
                                                     !.locked = FALSE, !.status = status]
  <2>1. CASE ExecutionOver
    BY <2>1 DEF ExecutionOver, dbVars
  <2>2. CASE StopAgent
    BY <2>2 DEF StopAgent, Statuses
  <2>3. CASE RemoveAgent
    BY <2>3 DEF RemoveAgent
  <2>4. CASE RecordRollback
    BY <1>1, <2>4 DEF RecordRollback, Mutations, Statuses
  <2> QED
    BY <2>1, <2>2, <2>3, <2>4
<1>6. db' \in AgentRows /\ Behind(db'.view)
  <2>1. CASE db'.view = db.view /\ db' \in AgentRows
    BY <1>1, <2>1 DEF ViewsFit
  <2>2. CASE /\ mut.kind = "rollback" /\ mut.pc = "record"
             /\ \E status \in Statuses : db' = [db EXCEPT !.view = mut.view, !.lease = None,
                                                         !.locked = FALSE, !.status = status]
    <3>1. mut.view \in Views /\ Behind(mut.view)
      BY <1>1, <2>2 DEF MutationFits, ViewsFit
    <3>2. db' \in AgentRows /\ db'.view = mut.view
      BY <1>1, <2>2, <3>1 DEF AgentRows
    <3> QED
      BY <3>1, <3>2
  <2> QED
    BY <1>1, <1>5, <2>1, <2>2 DEF AgentRows
<1>7. WorkerMoves(Run) /\ late' = late /\ Behind(db.view)'
  BY <1>1, <1>2, <1>6, LocalMoves DEF Behind, workerVars
<1> QED
  BY <1>1, <1>2, <1>3, <1>4, <1>6, <1>7, MutationAside

LEMMA RollbackKeeps == ASSUME Inductive, RollbackCall PROVE Inductive'
<1> DEFINE q == Request(mut.pc, mut.txn, mut.view)
<1>1. /\ TypeOK /\ MutationFits /\ ViewsFit /\ mut \in Mutations /\ mut.kind = "rollback"
      /\ mut.pc \in {"prepare", "apply"} /\ db \in AgentRows
  BY DEF Inductive, ExecutionInv, TypeOK, RollbackCall
<1>2. mut.txn \in Rollback /\ mut.view \in Views /\ exec = NoExec /\ writing = None
  BY <1>1 DEF MutationFits
<1>3. /\ UNCHANGED <<exec, dbVars, launched, processVars, requests>>
      /\ Served(q) \/ Lost(q)
      /\ \/ mut' = [mut EXCEPT !.pc = "undo"]
         \/ mut' = [mut EXCEPT !.pc = "apply"]
         \/ mut' = [mut EXCEPT !.pc = "record", !.view = head']
  BY DEF RollbackCall, MutationOnly, MutGoto
<1>4. q.kind \in {"prepare", "apply"} /\ q.txn \notin Run /\ IsRequest(q)
  BY <1>1, <1>2, ProductAssumption DEF IsRequest, Request, Txn
<1> HIDE DEF q
<1>5. WorkerMoves(Run) /\ (late' # None /\ late'.kind = "dispose" => late' = late)
  BY <1>1, <1>3, <1>4, CallAside
<1>6. head' \in Views /\ (\A v \in Views : Behind(v) => Behind(v)')
  BY <1>5 DEF WorkerMoves, Lasting, WorkerTypeOK
<1>7. /\ mut' \in Mutations /\ mut'.kind = "rollback" /\ mut'.txn = mut.txn
      /\ mut'.view \in {mut.view, head'} /\ mut'.pc \in {"apply", "record", "undo"}
      /\ mut'.pc = "record" => mut'.view = head'
  BY <1>1, <1>3, <1>6 DEF Mutations
<1>8. MutationFits' /\ mut # NoMut
  BY <1>1, <1>2, <1>3, <1>6, <1>7 DEF MutationFits, processVars, NoMut
<1>9. db' \in AgentRows /\ Behind(db.view)'
  BY <1>1, <1>3, <1>6 DEF ViewsFit, Behind, dbVars, AgentRows
<1>10. mut'.pc = "record" => Behind(mut.view)'
  BY <1>6, <1>7, ViewFields DEF Behind
<1> QED
  BY <1>3, <1>5, <1>7, <1>8, <1>9, <1>10, MutationAside DEF dbVars

LEMMA RegeneratedHead ==
    ASSUME TypeOK, NEW q, q.kind = "configure", Serve(q), Accepts(q)
    PROVE  head' = Regenerated(head) /\ q.view = head /\ UNCHANGED <<decision, archived, base, cancelled, torn>>
BY DEF Serve, Authority!Configure, Regenerated, Accepts

LEMMA RegenerateKeeps == ASSUME Inductive, RegeneratePlatformState PROVE Inductive'
<1> DEFINE q == Request("configure", None, mut.view)
<1>1. /\ TypeOK /\ ProcessFits /\ MutationFits /\ ViewsFit /\ ConfigurationsAsked /\ mut \in Mutations
      /\ MutAt("update", "regenerate") /\ db \in AgentRows
  BY DEF Inductive, ExecutionInv, TypeOK, RegeneratePlatformState
<1>2. mut.view \in Views /\ mut # NoMut /\ up = "up"
  BY <1>1 DEF MutationFits, MutAt, ProcessFits, NoMut
<1>3. /\ UNCHANGED <<exec, dbVars, launched, processVars, requests>>
      /\ \/ Served(q) /\ Accepts(q) /\ mut' = [mut EXCEPT !.pc = "record"]
         \/ Served(q) /\ ~Accepts(q) /\ mut' = NoMut
         \/ Lost(q) /\ mut' = NoMut
  BY DEF RegeneratePlatformState, MutationOnly, MutGoto, Finish
<1>4. q.kind = "configure" /\ q.txn = None /\ q.view = mut.view /\ IsRequest(q)
  BY DEF IsRequest, Request
<1> HIDE DEF q
<1>5. head.cfg \in Nat /\ requests \in 0..MaxRequests /\ MaxRequests \in Nat
  BY <1>1, ViewFields, ProductAssumption DEF TypeOK
<1>6. head.cfg + LateOwed + 1 <= requests /\ LateOwed \in {0, 1}
  BY <1>1, <1>5 DEF ConfigurationsAsked, ConfigurationsOwed, LateOwed
<1>7. head.cfg + 1 \in Platform
  BY <1>5, <1>6 DEF Platform
<1>8. mut' \in Mutations /\ \/ mut' = NoMut
                            \/ mut'.kind = "update" /\ mut'.pc = "record" /\ mut'.view = mut.view
  BY <1>1, <1>3, NoExecType DEF Mutations, MutAt
<1>9. MutationFits'
  BY <1>2, <1>8 DEF MutationFits, NoMut
<1>10. /\ Lasting /\ (late' # None => IsRequest(late'))
       /\ \A r \in Run : (Unknown(r) => Unknown(r)') /\ (Doomed(r) => Doomed(r)')
       /\ late' # None /\ late'.kind = "dispose" => late' = late
       /\ head'.cfg + LateOwed' <= head.cfg + LateOwed + 1
  <2>1. CASE Served(q)
    <3>1. late = None /\ late' = None /\ Serve(q)
      BY <2>1 DEF Served
    <3>2. Lasting
      BY <1>1, <1>4, <1>7, <3>1, ServeLasts
    <3>3. \A r \in Run : Unknown(r) => Unknown(r)'
      BY <1>1, <1>4, <3>1, ServeSpares, ProductAssumption
    <3>4. \A r \in Run : Doomed(r) => Doomed(r)'
      BY <1>1, <1>4, <3>1, ServeDooms, ProductAssumption DEF Harmless
    <3> QED
      BY <1>5, <3>1, <3>2, <3>3, <3>4 DEF Lasting, LateOwed
  <2>2. CASE Lost(q)
    <3>1. UNCHANGED workerVars /\ late' \in {None, q, late}
      BY <2>2 DEF Lost
    <3>2. Lasting
      BY <1>1, <3>1, StillLasts DEF TypeOK, workerVars
    <3>3. \A r \in Run : (Unknown(r) => Unknown(r)') /\ (Doomed(r) => Doomed(r)')
      BY <1>4, <3>1, ProductAssumption DEF workerVars, Unknown, Doomed, LateHarmless
    <3> QED
      BY <1>1, <1>4, <1>5, <3>1, <3>2, <3>3 DEF TypeOK, LateOwed, workerVars
  <2> QED
    BY <1>3, <2>1, <2>2
<1>11. mut'.kind = "update" => Regenerated(mut'.view) \in Views /\ Behind(Regenerated(mut.view))'
  <2>1. CASE mut' = NoMut
    BY <2>1 DEF NoMut
  <2>2. CASE mut' # NoMut
    <3>1. head' = Regenerated(mut.view)
      BY <1>1, <1>3, <1>4, <2>2, RegeneratedHead DEF Served
    <3>2. head' \in Views /\ mut'.view = mut.view
      BY <1>8, <1>10, <2>2 DEF Lasting, WorkerTypeOK
    <3> QED
      BY <3>1, <3>2, ViewFields DEF Behind
  <2> QED
    BY <2>1, <2>2
<1>12. Behind(db.view)'
  BY <1>1, <1>3, <1>10 DEF ViewsFit, Lasting, Behind, dbVars, AgentRows
<1>13. ConfigurationsAsked'
  BY <1>3, <1>5, <1>6, <1>8, <1>10, ViewFields
  DEF ConfigurationsAsked, ConfigurationsOwed, LateOwed, MutAt, NoMut, Lasting, WorkerTypeOK
<1>14. mut'.kind # "rollback" /\ mut'.kind \in {"update", "none"}
  BY <1>8 DEF NoMut
<1> QED
  BY <1>1, <1>2, <1>3, <1>5, <1>8, <1>9, <1>10, <1>11, <1>12, <1>13, <1>14, AsideKeeps DEF dbVars

LEMMA ReplaceKeeps == ASSUME Inductive, ReplaceAgent PROVE Inductive'
<1>1. /\ TypeOK /\ ProcessFits /\ MutationFits /\ ViewsFit /\ mut \in Mutations
      /\ MutAt("update", "record") /\ db \in AgentRows
  BY DEF Inductive, ExecutionInv, TypeOK, ReplaceAgent
<1>2. /\ Regenerated(mut.view) \in Views /\ Behind(Regenerated(mut.view)) /\ mut # NoMut
      /\ mut.status \in Statuses
  BY <1>1 DEF ViewsFit, MutAt, NoMut, Mutations
<1>3. /\ UNCHANGED <<exec, rows, said, launched, processVars, requests, workerVars, late>>
      /\ mut' = NoMut
      /\ \/ db' = db
         \/ db' = [db EXCEPT !.view = Regenerated(mut.view), !.status = mut.status,
                             !.lease = None, !.locked = FALSE]
  BY DEF ReplaceAgent, Local, Finish, Regenerated
<1>4. db' \in AgentRows /\ Behind(db'.view)
  <2>1. CASE db' = db
    BY <1>1, <2>1 DEF ViewsFit
  <2>2. CASE db' # db
    BY <1>1, <1>2, <1>3, <2>2 DEF AgentRows
  <2> QED
    BY <2>1, <2>2
<1>5. WorkerMoves(Run) /\ Behind(db.view)'
  BY <1>1, <1>3, <1>4, LocalMoves DEF Behind, workerVars
<1>6. mut' \in Mutations /\ MutationFits' /\ mut'.kind = "none"
  BY <1>3, NoExecType DEF MutationFits, NoMut
<1> QED
  BY <1>2, <1>3, <1>4, <1>5, <1>6, MutationAside

LEMMA CancelKeeps == ASSUME Inductive, CancelRun PROVE Inductive'
<1>1. /\ TypeOK /\ ProcessFits /\ MutationFits /\ StopFits /\ DisposalFits /\ GateFits /\ ViewsFit
      /\ mut \in Mutations /\ exec \in Executions /\ mut.pc = "cancel" /\ mut # NoMut /\ db \in AgentRows
  BY DEF Inductive, ExecutionInv, TypeOK, CancelRun, NoMut
<1>2. mut.kind \notin {"rollback", "update"}
  BY <1>1 DEF MutationFits
<1>3. CASE ~Addressed
  <2>1. /\ UNCHANGED <<exec, dbVars, launched, processVars, requests, workerVars, late>>
        /\ mut' = [mut EXCEPT !.pc = "await"]
    BY <1>3 DEF CancelRun, MutationOnly, MutGoto, Read
  <2>2. mut' \in Mutations /\ mut'.kind = mut.kind /\ mut'.view = mut.view
    BY <1>1, <2>1 DEF Mutations
  <2>3. MutationFits'
    BY <1>1, <1>2, <2>2 DEF MutationFits
  <2>4. WorkerMoves(Run) /\ db' \in AgentRows /\ Behind(db.view)'
    BY <1>1, <2>1, LocalMoves DEF ViewsFit, Behind, dbVars, workerVars
  <2> QED
    BY <1>1, <1>2, <2>1, <2>2, <2>3, <2>4, MutationAside DEF dbVars
<1>4. CASE Addressed
  <2>1. Running /\ exec.prepared
    BY <1>4 DEF Addressed, CancelRun, AdmissionKnown
  <2>2. exec.run \in Run
    BY <1>1, <2>1 DEF ProcessFits, Running
  <2> PICK r \in Run : r = exec.run
    BY <2>2
  <2> DEFINE q == Request("cancel", r, None)
  <2>3. base[r] # None /\ exec.pc \notin {"idle", "bind", "prepare", "retry"}
    BY <1>1, <2>1 DEF StopFits
  <2>4. q.kind = "cancel" /\ q.txn = r /\ IsRequest(q)
    BY DEF IsRequest, Request
  <2>5. /\ UNCHANGED <<dbVars, launched, processVars, requests>>
        /\ \/ /\ Served(q) /\ mut' = [mut EXCEPT !.pc = "await"]
              /\ \E accepted \in BOOLEAN :
                    (accepted => Accepts(q)) /\ exec' = [exec EXCEPT !.accepted = accepted]
           \/ Lost(q) /\ mut' = NoMut /\ UNCHANGED exec
    <3>1. CASE Served(q) /\ Accepts(q) /\ CancelAnswered(q) /\ MutGoto("await")
      BY <1>4, <3>1 DEF CancelRun, MutationOnly, MutGoto, CancelAnswered
    <3>2. CASE Served(q) /\ ~Accepts(q) /\ CancelAnswered(q) /\ MutGoto("await")
      <4>1. Accepts(q) = FALSE
        BY <3>2 DEF Accepts
      <4>2. exec' = [exec EXCEPT !.accepted = FALSE]
        BY <3>2, <4>1 DEF CancelAnswered
      <4> QED
        BY <3>2, <4>2 DEF CancelRun, MutationOnly, MutGoto
    <3>3. CASE Lost(q) /\ Finish /\ UNCHANGED exec
      BY <3>3 DEF CancelRun, MutationOnly, Finish
    <3> QED
      BY <1>4, <3>1, <3>2, <3>3 DEF CancelRun
  <2> HIDE DEF q
  <2>6. WorkerMoves(Run) /\ (late' # None /\ late'.kind = "dispose" => late' = late)
    <3>1. ~Unknown(r) /\ Harmless(q, r)
      BY <2>3, <2>4 DEF Unknown, Harmless
    <3>2. Served(q) \/ Lost(q)
      BY <2>5
    <3> QED
      BY <1>1, <2>4, <3>1, <3>2, CallMoves DEF WorkerMoves
  <2>7. CASE Lost(q) /\ mut' = NoMut /\ UNCHANGED exec
    <3>1. mut' \in Mutations /\ MutationFits' /\ mut'.kind = "none"
      BY <2>7, NoExecType DEF MutationFits, NoMut
    <3>2. db' \in AgentRows /\ Behind(db.view)'
      BY <1>1, <2>5, <2>6 DEF ViewsFit, WorkerMoves, Lasting, Behind, dbVars, AgentRows
    <3> QED
      BY <1>1, <2>5, <2>6, <2>7, <3>1, <3>2, MutationAside DEF dbVars
  <2>8. ASSUME Served(q), mut' = [mut EXCEPT !.pc = "await"], NEW accepted \in BOOLEAN,
               accepted => Accepts(q), exec' = [exec EXCEPT !.accepted = accepted]
        PROVE  Inductive'
    <3>1. /\ exec' \in Executions /\ exec'.run = exec.run /\ exec'.base = exec.base
          /\ exec'.pc = exec.pc /\ exec'.stopped = exec.stopped /\ exec'.prepared = exec.prepared
          /\ exec'.gate = exec.gate /\ exec'.accepted = accepted /\ exec'.seen = exec.seen
      BY <1>1, <2>8 DEF Executions
    <3>2. Proceeds
      BY <1>1, <2>3, <2>5, <2>8, <3>1 DEF Proceeds, Bound, MutGoto, TypeOK
    <3>3. Accepts(q) => Doomed(r)'
      BY <1>1, <2>4, <2>8 DEF Served, Serve, Accepts, Open, Doomed, LateHarmless, TypeOK
    <3>4. StopFits'
      <4>1. exec.stopped => Doomed(r)'
        BY <1>1, <2>6 DEF StopFits, Stopping, WorkerMoves
      <4>2. base'[r] # None
        BY <2>3, <2>6 DEF WorkerMoves, Lasting, Txn
      <4> QED
        BY <1>1, <2>3, <2>8, <3>1, <3>3, <4>1, <4>2 DEF StopFits, Stopping, Running
    <3>5. DisposalFits' /\ GateFits' /\ exec'.pc \notin {"reject", "record"}
      BY <1>1, <2>1, <2>6, <3>1 DEF DisposalFits, GateFits, WorkerMoves, Lasting, Txn, Running
    <3> QED
      BY <2>6, <3>2, <3>4, <3>5, ProceedKeeps DEF WorkerMoves
  <2> QED
    BY <2>5, <2>7, <2>8
<1> QED
  BY <1>3, <1>4

LEMMA MutationKeeps == ASSUME Inductive, Mutation PROVE Inductive'
BY CancelKeeps, LocalMutationKeeps, ArchiveKeeps, RollbackKeeps, RegenerateKeeps, ReplaceKeeps
DEF Mutation

\* A user's request that only reserves the Agent.
LEMMA ReserveKeeps ==
    ASSUME Inductive, up = "up", UNCHANGED <<workerVars, late, launched, exec, rows, said, processVars>>,
           db' \in AgentRows, db'.view = db.view, mut' \in Mutations, mut'.pc # "record",
           requests' \in {requests, requests + 1}, requests' <= MaxRequests, MutationFits',
           mut'.kind = "update" => mut' = mut \/ requests' = requests + 1
    PROVE  Inductive'
<1>1. TypeOK /\ ViewsFit /\ ConfigurationsAsked
  BY DEF Inductive
<1>2. WorkerMoves(Run)
  BY <1>1, LocalMoves
<1>3. Behind(db.view)'
  BY <1>1 DEF ViewsFit, Behind, workerVars
<1>4. requests' \in 0..MaxRequests
  BY <1>1, ProductAssumption DEF TypeOK
<1>5. ConfigurationsAsked'
  BY <1>1, ViewFields DEF ConfigurationsAsked, ConfigurationsOwed, MutAt, LateOwed, TypeOK, workerVars
<1> QED
  BY <1>2, <1>3, <1>4, <1>5, AsideKeeps DEF WorkerMoves

LEMMA SendKeeps == ASSUME Inductive, NEW r \in Run, SendMessage(r) PROVE Inductive'
<1> USE DEF Inductive, ExecutionInv
<1>1. /\ TypeOK /\ DbTypeOK /\ rows[r].status = "none" /\ up = "up" /\ writing = None
      /\ exec = NoExec /\ mut = NoMut /\ writing' = r /\ db.view \in Views
  BY DEF TypeOK, DbTypeOK, AgentRows, SendMessage
<1>2. /\ UNCHANGED <<workerVars, late, launched, said, up, reserved, exec, mut, requests>>
      /\ db' = [db EXCEPT !.status = "busy", !.lease = r]
      /\ rows' = [rows EXCEPT ![r].status = "queued", ![r].base = db.view]
  BY DEF SendMessage, Local, boundVars
<1>3. db' \in AgentRows /\ db'.view = db.view
  BY <1>1, <1>2 DEF DbTypeOK, AgentRows, Statuses
<1>4. /\ rows' \in [Run -> RunRows] /\ rows'[r].status = "queued"
      /\ \A s \in Run : s # r => rows'[s] = rows[s]
  BY <1>1, <1>2 DEF DbTypeOK, RunRows
<1>5. TypeOK'
  BY <1>1, <1>2, <1>3, <1>4 DEF TypeOK, workerVars
<1>6. ProcessFits' /\ MutationFits'
  BY <1>1, <1>2, <1>4 DEF ProcessFits, MutationFits, Bound, NoExec, NoMut
<1>7. \A s \in Run : (Unknown(s) => Unknown(s)') /\ (Doomed(s) => Doomed(s)')
  BY <1>2 DEF Unknown, Doomed, LateHarmless, workerVars
<1>8. UnknownFits'
  BY <1>1, <1>2, <1>4, <1>7 DEF UnknownFits, NoExec
<1>9. StopFits' /\ DisposalFits' /\ GateFits'
  BY <1>1, <1>2, ProductAssumption DEF StopFits, Stopping, DisposalFits, GateFits, NoExec, TypeOK, IsRequest
<1>10. RowsFit'
  BY <1>1, <1>2, <1>4, <1>7 DEF RowsFit, workerVars
<1>11. ViewsFit'
  BY <1>1, <1>2, <1>3 DEF ViewsFit, Behind, NoExec, NoMut, workerVars
<1>12. ConfigurationsAsked' /\ StartupFits'
  BY <1>1, <1>2 DEF ConfigurationsAsked, ConfigurationsOwed, LateOwed, MutAt, StartupFits, workerVars
<1> QED
  BY <1>5, <1>6, <1>8, <1>9, <1>10, <1>11, <1>12

LEMMA UserKeeps == ASSUME Inductive, User PROVE Inductive'
<1>1. /\ TypeOK /\ MutationFits /\ db \in AgentRows /\ requests \in 0..MaxRequests
  BY DEF Inductive, ExecutionInv, TypeOK
<1>0. Asks => up = "up" /\ requests' = requests + 1 /\ requests' <= MaxRequests
  BY <1>1, ProductAssumption DEF Asks
<1>2. ASSUME NEW r \in Run, SendMessage(r) PROVE Inductive'
  BY <1>2, SendKeeps
<1>3. ASSUME NEW kind \in {"stop", "delete"}, Leave(kind) PROVE Inductive'
  <2>1. mut' \in Mutations /\ mut'.kind = kind /\ mut'.view = db.view /\ mut'.pc \in {"finish", "cancel"}
    BY <1>1, <1>3 DEF Leave, NoMut, Mutations, Statuses, AgentRows
  <2>2. MutationFits'
    BY <1>1, <1>3, <2>1 DEF MutationFits, AgentRows
  <2> QED
    BY <1>0, <1>1, <1>3, <2>1, <2>2, ReserveKeeps DEF Leave, Local, dbVars
<1>4. CASE StartAgent
  <2>1. db' \in AgentRows /\ db'.view = db.view
    BY <1>1, <1>4 DEF StartAgent, AgentRows, Statuses
  <2>2. MutationFits' /\ mut' \in Mutations /\ mut'.pc # "record"
    BY <1>1, <1>4, NoExecType DEF StartAgent, MutationFits, NoMut
  <2> QED
    BY <1>1, <1>4, <2>1, <2>2, ReserveKeeps DEF StartAgent, Local, boundVars
<1>5. CASE BeginUpdate
  <2>1. mut' \in Mutations /\ mut'.kind = "update" /\ mut'.view = db.view /\ mut'.pc = "regenerate"
    <3> DEFINE status == IF writing = None THEN db.status ELSE "ready"
    <3>1. status \in Statuses /\ db.view \in Views
      BY <1>1 DEF AgentRows, Statuses
    <3>2. mut' = [NoMut EXCEPT !.kind = "update", !.pc = "regenerate", !.view = db.view, !.status = status]
      BY <1>5 DEF BeginUpdate
    <3> HIDE DEF status
    <3> QED
      BY <3>1, <3>2 DEF NoMut, Mutations
  <2>2. MutationFits'
    BY <1>1, <1>5, <2>1 DEF MutationFits, AgentRows
  <2> QED
    BY <1>0, <1>1, <1>5, <2>1, <2>2, ReserveKeeps DEF BeginUpdate, Local, dbVars
<1>6. ASSUME NEW x \in Rollback, BeginRollback(x) PROVE Inductive'
  <2>1. /\ mut' \in Mutations /\ mut'.kind = "rollback" /\ mut'.view = db.view /\ mut'.txn = x
        /\ mut'.pc = "prepare"
    BY <1>1, <1>6 DEF BeginRollback, NoMut, Mutations, AgentRows
  <2>2. MutationFits'
    BY <1>1, <1>6, <2>1 DEF MutationFits, AgentRows, BeginRollback, processVars
  <2>3. db' \in AgentRows /\ db'.view = db.view
    BY <1>1, <1>6 DEF BeginRollback, AgentRows, Statuses
  <2> QED
    BY <1>0, <1>1, <1>6, <2>1, <2>2, <2>3, ReserveKeeps DEF BeginRollback, Local
<1> QED
  BY <1>2, <1>3, <1>4, <1>5, <1>6 DEF User

----------------------------------------------------------------------------
(* Deaths and startup. *)

LEMMA IdleKeeps ==
    ASSUME Inductive, exec' = NoExec, mut' = NoMut, writing' = None, reserved' \in BOOLEAN,
           up' \in {"up", "down", "reconcile", "recover", "apply"},
           WorkerTypeOK', head' = head, UNCHANGED <<late, launched, requests>>,
           DbTypeOK', Behind(db.view)', RowsFit', StartupFits',
           \A r \in Run : rows'[r].status = "none" => Unknown(r)'
    PROVE  Inductive'
<1>1. TypeOK'
  BY NoExecType DEF Inductive, TypeOK, DbTypeOK, WorkerTypeOK
<1>2. ProcessFits' /\ MutationFits' /\ UnknownFits'
  BY ProductAssumption DEF ProcessFits, Bound, MutationFits, UnknownFits, NoExec, NoMut
<1>3. StopFits' /\ DisposalFits' /\ GateFits'
  BY ProductAssumption DEF StopFits, Stopping, DisposalFits, GateFits, NoExec, Inductive, TypeOK, IsRequest
<1>4. ViewsFit'
  BY DEF ViewsFit, NoExec, NoMut
<1>5. ConfigurationsAsked'
  BY ViewFields DEF Inductive, TypeOK, ConfigurationsAsked, ConfigurationsOwed, LateOwed, MutAt, NoMut
<1> QED
  BY <1>1, <1>2, <1>3, <1>4, <1>5 DEF Inductive, ExecutionInv

LEMMA CrashKeeps == ASSUME Inductive, Crash PROVE Inductive'
<1>1. TypeOK /\ DbTypeOK /\ RowsFit /\ ViewsFit /\ UnknownFits
  BY DEF Inductive, ExecutionInv, TypeOK, DbTypeOK
<1>2. /\ UNCHANGED <<workerVars, late, launched, dbVars, requests>> /\ up' = "down"
      /\ exec' = NoExec /\ mut' = NoMut /\ writing' = None /\ reserved' = FALSE
  BY DEF Crash, Local
<1>3. Lasting
  BY <1>1, <1>2, StillLasts DEF TypeOK, workerVars
<1>4. \A r \in Run : (Unknown(r) => Unknown(r)') /\ (Doomed(r) => Doomed(r)')
  BY <1>2 DEF Unknown, Doomed, LateHarmless, workerVars
<1>5. DbTypeOK' /\ Behind(db.view)' /\ StartupFits' /\ head' = head
  BY <1>1, <1>2 DEF DbTypeOK, ViewsFit, Behind, StartupFits, workerVars, dbVars
<1>6. RowsFit' /\ \A r \in Run : rows'[r].status = "none" => Unknown(r)'
  BY <1>1, <1>2, <1>4 DEF RowsFit, UnknownFits, workerVars, dbVars
<1> QED
  BY <1>2, <1>3, <1>5, <1>6, IdleKeeps DEF Lasting

LEMMA StartupKeeps == ASSUME Inductive, Startup PROVE Inductive'
<1>1. /\ TypeOK /\ DbTypeOK /\ RowsFit /\ ViewsFit /\ UnknownFits /\ StartupFits
      /\ reserved \in BOOLEAN
  BY DEF Inductive, ExecutionInv, TypeOK, DbTypeOK
<1>2. exec = NoExec /\ mut = NoMut /\ writing = None
  BY DEF Inductive, ExecutionInv, ProcessFits, Startup, Load, RecoverAuthority,
         RecoverWorkerAdmissionGap, ApplyProjection
<1>3. /\ exec' = NoExec /\ mut' = NoMut /\ writing' = None
      /\ UNCHANGED <<head, decision, archived, late, launched, reserved, requests>>
      /\ up' \in {"up", "down", "reconcile", "recover", "apply"}
  BY <1>2 DEF Startup, Load, RecoverAuthority, RecoverWorkerAdmissionGap, ApplyProjection, Refuse,
              Local, workerVars, dbVars, boundVars
<1>4. CASE Load
  <2>1. UNCHANGED <<workerVars, late, rows, said>>
    BY <1>4 DEF Load, Local
  <2>2. Lasting
    BY <1>1, <2>1, StillLasts DEF TypeOK, workerVars
  <2>3. db' \in AgentRows /\ db'.view = db.view /\ up' \notin {"recover", "apply"}
    BY <1>1, <1>4 DEF Load, DbTypeOK, AgentRows
  <2>4. \A r \in Run : (Unknown(r) => Unknown(r)') /\ (Doomed(r) => Doomed(r)')
    BY <2>1 DEF Unknown, Doomed, LateHarmless, workerVars
  <2>5. DbTypeOK' /\ Behind(db.view)' /\ StartupFits'
    BY <1>1, <2>1, <2>3 DEF DbTypeOK, ViewsFit, Behind, StartupFits, workerVars
  <2>6. RowsFit' /\ \A r \in Run : rows'[r].status = "none" => Unknown(r)'
    BY <1>1, <2>1, <2>4 DEF RowsFit, UnknownFits, workerVars
  <2> QED
    BY <1>1, <1>3, <2>2, <2>5, <2>6, IdleKeeps DEF Lasting
<1>5. CASE RecoverAuthority
  <2>1. /\ UNCHANGED <<head, decision, archived, base, cancelled, late, dbVars>> /\ late = None
        /\ torn \subseteq torn' /\ torn' \subseteq Run
        /\ up' = "recover" => \A r \in Run : base[r] # None => r \in torn'
        /\ up' \in {"recover", "down"}
    BY <1>1, <1>5 DEF RecoverAuthority, Refuse, TypeOK
  <2>2. WorkerMoves(Run)
    BY <1>1, <2>1, TornMoves
  <2>3. DbTypeOK' /\ Behind(db.view)' /\ StartupFits'
    BY <1>1, <2>1 DEF DbTypeOK, ViewsFit, Behind, StartupFits, dbVars
  <2>4. RowsFit' /\ \A r \in Run : rows'[r].status = "none" => Unknown(r)'
    BY <1>1, <2>1, <2>2 DEF RowsFit, UnknownFits, WorkerMoves, dbVars
  <2> QED
    BY <1>1, <1>3, <2>2, <2>3, <2>4, IdleKeeps DEF WorkerMoves, Lasting
<1>6. CASE RecoverWorkerAdmissionGap
  <2>1. /\ UNCHANGED <<head, decision, archived, torn, late, dbVars>> /\ late = None
        /\ up' \in {"apply", "down"} /\ up = "recover"
        /\ \/ UNCHANGED <<base, cancelled>>
           \/ /\ up' = "down"
              /\ \E r \in ActiveRows : base' = [base EXCEPT ![r] = head] /\ cancelled' = cancelled \cup {r}
        /\ up' = "apply" => \A r \in ActiveRows : base[r] # None /\ ~Recoverable(r)
    BY <1>6 DEF RecoverWorkerAdmissionGap, Refuse, ActiveRows, Txn
  <2>2. DbTypeOK' /\ Behind(db.view)'
    BY <1>1, <2>1 DEF DbTypeOK, ViewsFit, Behind, dbVars
  <2>3. StartupFits'
    <3>1. CASE up' = "apply"
      BY <1>1, <2>1, <3>1 DEF StartupFits, ActiveRows, Recoverable, Open, Quiet, dbVars
    <3>2. CASE up' = "down"
      BY <3>2 DEF StartupFits
    <3> QED
      BY <2>1, <3>1, <3>2
  <2>4. CASE UNCHANGED <<base, cancelled>>
    <3>1. WorkerMoves(Run)
      BY <1>1, <2>1, <2>4, LocalMoves DEF workerVars
    <3>2. RowsFit' /\ \A r \in Run : rows'[r].status = "none" => Unknown(r)'
      BY <1>1, <2>1, <3>1 DEF RowsFit, UnknownFits, WorkerMoves, dbVars
    <3> QED
      BY <1>1, <1>3, <2>2, <2>3, <3>1, <3>2, IdleKeeps DEF WorkerMoves, Lasting
  <2>5. ASSUME NEW r \in ActiveRows, base' = [base EXCEPT ![r] = head],
               cancelled' = cancelled \cup {r}, up' = "down"
        PROVE  Inductive'
    <3>1. r \in Run /\ rows[r].status \in {"queued", "running"}
      BY DEF ActiveRows
    <3>2. WorkerTypeOK'
      BY <1>1, <2>1, <2>5, <3>1 DEF WorkerTypeOK, TypeOK, Txn
    <3>3. \A s \in Run : s # r => (Unknown(s) => Unknown(s)') /\ (Doomed(s) => Doomed(s)')
      BY <1>1, <2>1, <2>5, <3>1 DEF Unknown, Doomed, LateHarmless, TypeOK, Txn
    <3>4. RowsFit' /\ \A s \in Run : rows'[s].status = "none" => Unknown(s)'
      BY <1>1, <2>1, <3>1, <3>3 DEF RowsFit, UnknownFits, dbVars
    <3> QED
      BY <1>1, <1>3, <2>2, <2>3, <3>2, <3>4, IdleKeeps DEF Lasting
  <2> QED
    BY <2>1, <2>4, <2>5
<1>7. CASE ApplyProjection
  <2>1. /\ UNCHANGED <<workerVars, late>> /\ up' = "up"
        /\ rows' = [r \in Run |-> IF r \in ProjectionGaps THEN Terminal(r) ELSE rows[r]]
        /\ said' = [r \in Run |-> IF ~Decided(r) \/ said[r] = "none" THEN said[r]
                                  ELSE IF decision[r] = "COMMITTED" THEN "AUTHORITATIVE" ELSE "REJECTED"]
    BY <1>7 DEF ApplyProjection, Local
  <2>2. db' \in AgentRows /\ db'.view = head
    <3>1. PICK status \in Statuses : db' = [db EXCEPT !.view = head, !.locked = FALSE, !.status = status]
      BY <1>1, <1>7 DEF ApplyProjection, StatusAfter, Statuses, DbTypeOK, AgentRows
    <3> QED
      BY <1>1, <3>1 DEF DbTypeOK, AgentRows, TypeOK
  <2>3. \A r \in ProjectionGaps : r \in Run /\ decision[r] # "OPEN" /\ rows[r].status # "none"
    BY DEF ProjectionGaps, Decided
  <2>4. /\ rows' \in [Run -> RunRows] /\ said' \in [Run -> {"none", "AUTHORITATIVE", "REJECTED"}]
        /\ \A r \in Run : rows'[r] = IF r \in ProjectionGaps THEN Terminal(r) ELSE rows[r]
    BY <1>1, <2>1, <2>3, TerminalRow DEF DbTypeOK
  <2>5. \A r \in Run : (Unknown(r) => Unknown(r)') /\ (Doomed(r) => Doomed(r)')
    BY <2>1 DEF Unknown, Doomed, LateHarmless, workerVars
  <2>6. RowsFit'
    <3>1. \A r \in Run : said'[r] = "AUTHORITATIVE" => decision'[r] = "COMMITTED"
      BY <1>1, <2>1 DEF RowsFit, workerVars
    <3>2. \A r \in ProjectionGaps :
            /\ Terminal(r).status = "completed" =>
                 Terminal(r).decision = decision[r] /\ decision[r] \notin {"OPEN", "ABORTED"}
            /\ Terminal(r).status = "cancelled" => Doomed(r)
      BY <1>1, <2>3, TerminalRow DEF WorkerRunStatus, Doomed
    <3> QED
      BY <1>1, <2>1, <2>4, <2>5, <3>1, <3>2 DEF RowsFit, workerVars
  <2>7. \A r \in Run : rows'[r].status = "none" => Unknown(r)'
    BY <1>1, <2>3, <2>4, <2>5, TerminalRow DEF WorkerRunStatus, UnknownFits
  <2>8. Lasting
    BY <1>1, <2>1, StillLasts DEF TypeOK, workerVars
  <2>9. DbTypeOK' /\ Behind(db.view)' /\ StartupFits'
    BY <1>1, <2>1, <2>2, <2>4, ViewFields DEF DbTypeOK, Behind, StartupFits, workerVars, TypeOK
  <2> QED
    BY <1>1, <1>3, <2>6, <2>7, <2>8, <2>9, IdleKeeps DEF Lasting
<1> QED
  BY <1>4, <1>5, <1>6, <1>7 DEF Startup

----------------------------------------------------------------------------

LEMMA InitInductive == ASSUME Init PROVE Inductive
<1> USE DEF Init, Authority!Init
<1>1. InitialView \in Views
  BY ProductAssumption DEF InitialView, Views, Tree, Platform
<1>2. TypeOK
  <2>1. head \in Views /\ db \in AgentRows
    BY <1>1 DEF AgentRows, Statuses
  <2>2. rows \in [Run -> RunRows] /\ said \in [Run -> {"none", "AUTHORITATIVE", "REJECTED"}]
    BY DEF RunRows
  <2>3. requests \in 0..MaxRequests
    BY ProductAssumption
  <2> QED
    BY <2>1, <2>2, <2>3, NoExecType DEF TypeOK
<1>3. ExecutionInv
  BY ProductAssumption DEF ExecutionInv, ProcessFits, Bound, MutationFits, UnknownFits, Unknown,
     StopFits, Stopping, DisposalFits, GateFits, NoExec, NoMut, Txn
<1>4. RowsFit
  BY DEF RowsFit
<1>5. ViewsFit /\ ConfigurationsAsked /\ StartupFits
  BY DEF ViewsFit, Behind, ConfigurationsAsked, ConfigurationsOwed, LateOwed, MutAt, StartupFits,
     NoExec, NoMut, InitialView
<1> QED
  BY <1>2, <1>3, <1>4, <1>5 DEF Inductive

LEMMA StutterKeeps == ASSUME Inductive, UNCHANGED vars PROVE Inductive'
<1>1. UNCHANGED <<workerVars, late, launched, dbVars, processVars, exec, mut, requests>>
  BY DEF vars, boundVars
<1>2. TypeOK' /\ ExecutionInv'
  BY <1>1 DEF Inductive, ExecutionInv, TypeOK, ProcessFits, Bound, MutationFits, UnknownFits, Unknown,
     StopFits, Stopping, Running, Doomed, LateHarmless, DisposalFits, GateFits, workerVars, dbVars, processVars
<1>3. RowsFit' /\ ViewsFit'
  BY <1>1 DEF Inductive, RowsFit, Doomed, LateHarmless, Unknown, ViewsFit, Behind, workerVars, dbVars
<1>4. ConfigurationsAsked' /\ StartupFits'
  BY <1>1 DEF Inductive, ConfigurationsAsked, ConfigurationsOwed, LateOwed, MutAt, StartupFits,
     ActiveRows, workerVars, dbVars, processVars
<1> QED
  BY <1>2, <1>3, <1>4 DEF Inductive

LEMMA StepKeeps == ASSUME Inductive, [Next]_vars PROVE Inductive'
BY StutterKeeps, ExecutionKeeps, MutationKeeps, StartupKeeps, RecoveryKeeps, LateKeeps, UserKeeps,
   CrashKeeps
DEF Next

\* Whatever is lost and whoever dies, in every state of the product the rows,
\* the requests under way and the process agree (agent-service.ts).
THEOREM InductiveAlways == Spec => []Inductive
<1>1. Init => Inductive
  BY InitInductive
<1>2. Inductive /\ [Next]_vars => Inductive'
  BY StepKeeps
<1> QED
  BY <1>1, <1>2, PTL DEF Spec

LEMMA InductiveClaims == Inductive => ProductInv
<1> SUFFICES ASSUME Inductive PROVE ProductInv
  OBVIOUS
<1>1. ClaimsHold
  BY DEF Inductive, RowsFit, ClaimsHold, Doomed
<1> QED
  BY <1>1 DEF Inductive, ViewsFit, Behind, ProductInv, NeverAhead

\* What the product shows is true and never ahead of the Worker, at any moment
\* between two answers, over lost replies, late requests and deaths of the
\* Worker and of the API (agent-service.ts).
THEOREM ProductSound == Spec => []ProductInv
BY InductiveAlways, InductiveClaims, PTL

\* The steps that write the runs' rows, and those that start the API.
LEMMA RowsWritten ==
    ASSUME [Next]_vars
    PROVE  /\ \/ UNCHANGED rows
              \/ \E r \in Run : SendMessage(r)
              \/ Bind \/ PublishRejection \/ PublishCommit \/ PersistFailure \/ ApplyProjection
           /\ up = "apply" /\ up' = "up" => ApplyProjection
<1>1. CASE UNCHANGED vars
  BY <1>1 DEF vars, dbVars, processVars
<1>2. CASE Execution
  <2>1. CASE StartExecution
    BY <2>1 DEF StartExecution, dbVars
  <2>2. CASE PrepareRun \/ PrepareAgain \/ Launch \/ Work \/ ApplyPromotion
             \/ RecoverAcknowledgedCommit \/ CloseRuntime \/ DisposeRun \/ ConfirmDisposition \/ ReadCommit
    BY <2>2 DEF PrepareRun, PrepareAgain, Launch, Work, ApplyPromotion, RecoverAcknowledgedCommit,
       CloseRuntime, DisposeRun, ConfirmDisposition, ReadCommit, ExecutionOnly, dbVars, processVars
  <2>3. CASE FinalizeDisposition
    BY <2>3 DEF FinalizeDisposition, dbVars, processVars
  <2>4. CASE Bind \/ PublishRejection \/ PublishCommit \/ PersistFailure
    BY <2>4 DEF Bind, PublishRejection, PublishCommit, PersistFailure, processVars
  <2> QED
    BY <1>2, <2>1, <2>2, <2>3, <2>4 DEF Execution
<1>3. CASE Mutation
  <2>1. CASE CancelRun \/ ArchiveAgent \/ RollbackCall \/ RegeneratePlatformState
    BY <2>1 DEF CancelRun, ArchiveAgent, RollbackCall, RegeneratePlatformState, MutationOnly, dbVars,
       processVars
  <2>2. CASE ExecutionOver \/ StopAgent \/ RemoveAgent \/ RecordRollback \/ ReplaceAgent
    BY <2>2 DEF ExecutionOver, StopAgent, RemoveAgent, RecordRollback, ReplaceAgent, dbVars, processVars
  <2> QED
    BY <1>3, <2>1, <2>2 DEF Mutation
<1>4. CASE Startup
  <2>1. CASE Load
    BY <2>1 DEF Load
  <2>2. CASE RecoverAuthority \/ RecoverWorkerAdmissionGap
    BY <2>2 DEF RecoverAuthority, RecoverWorkerAdmissionGap, dbVars
  <2> QED
    BY <1>4, <2>1, <2>2 DEF Startup
<1>5. CASE Recovery \/ LateRequest \/ Crash
  BY <1>5 DEF Recovery, WorkerRecovers, LateRequest, Crash, dbVars, processVars
<1>6. CASE User
  BY <1>6 DEF User, SendMessage, Leave, StartAgent, BeginUpdate, BeginRollback, dbVars, processVars
<1> QED
  BY <1>1, <1>2, <1>3, <1>4, <1>5, <1>6 DEF Next

LEMMA OutcomeKept ==
    ASSUME Inductive, [Next]_vars, NEW r \in Run, rows[r].status \in {"completed", "cancelled"}
    PROVE  rows'[r].status = rows[r].status
<1>1. /\ TypeOK /\ DbTypeOK /\ ProcessFits /\ RowsFit /\ rows \in [Run -> RunRows]
  BY DEF Inductive, ExecutionInv, TypeOK, DbTypeOK
<1>2. CASE UNCHANGED rows
  BY <1>2
<1>3. ASSUME NEW s \in Run, SendMessage(s) PROVE rows'[r] = rows[r]
  BY <1>1, <1>3 DEF SendMessage
<1>4. CASE Bind
  BY <1>1, <1>4 DEF Bind
<1>5. CASE PublishRejection \/ PublishCommit \/ PersistFailure
  <2>1. r # exec.run
    BY <1>1, <1>5 DEF PublishRejection, PublishCommit, PersistFailure, ProcessFits, Bound, At
  <2>2. UNCHANGED rows \/ \E row : rows' = [rows EXCEPT ![exec.run] = row]
    <3>1. CASE PublishRejection \/ PublishCommit
      BY <3>1 DEF PublishRejection, PublishCommit, dbVars
    <3>2. CASE PersistFailure
      BY <1>1, <3>2 DEF PersistFailure
    <3> QED
      BY <1>5, <3>1, <3>2
  <2> QED
    BY <1>1, <2>1, <2>2
<1>6. CASE ApplyProjection
  <2>1. rows'[r] = IF r \in ProjectionGaps THEN Terminal(r) ELSE rows[r]
    BY <1>6 DEF ApplyProjection
  <2>2. CASE r \in ProjectionGaps
    <3>1. decision[r] # "OPEN"
      BY <2>2 DEF ProjectionGaps, Decided
    <3>2. WorkerRunStatus(r) = rows[r].status
      BY <1>1, <3>1 DEF RowsFit, WorkerRunStatus, Doomed
    <3> QED
      BY <1>1, <2>1, <2>2, <3>1, <3>2, TerminalRow
  <2> QED
    BY <2>1, <2>2
<1> QED
  BY <1>2, <1>3, <1>4, <1>5, <1>6, RowsWritten

\* What a user has been told is not taken back (agent-service.ts
\* applyWorkerAuthorityProjection, persistRunFailure).
THEOREM OutcomesNeverRevoked == Spec => OutcomesStay
<1>1. Inductive /\ [Next]_vars =>
        [\A r \in Run : rows[r].status \in {"completed", "cancelled"} =>
             rows'[r].status = rows[r].status]_vars
  BY OutcomeKept
<1> QED
  BY <1>1, InductiveAlways, PTL DEF Spec, OutcomesStay

LEMMA StartupReconciles ==
    ASSUME Inductive, ApplyProjection
    PROVE  /\ db'.view = head /\ db'.status # "busy" /\ ~db'.locked
           /\ \A r \in Run : rows'[r].status # "none" =>
                 /\ rows'[r].status \notin {"queued", "running"}
                 /\ decision[r] # "OPEN" => rows'[r].decision = decision[r] /\ rows'[r].terminal
                 /\ decision[r] = "COMMITTED" <=> (rows'[r].status = "completed"
                                                    /\ rows'[r].decision = "COMMITTED")
<1>1. TypeOK /\ DbTypeOK /\ StartupFits /\ RowsFit /\ up = "apply"
  BY DEF Inductive, TypeOK, DbTypeOK, ApplyProjection
<1>2. db'.view = head /\ db'.status # "busy" /\ ~db'.locked
  <2>1. PICK status \in {"ready", "stopped", "error"} :
            db' = [db EXCEPT !.view = head, !.locked = FALSE, !.status = status]
    BY <1>1 DEF ApplyProjection, StatusAfter, Statuses, DbTypeOK, AgentRows
  <2> QED
    BY <1>1, <2>1 DEF DbTypeOK, AgentRows
<1>3. ASSUME NEW r \in Run, rows'[r].status # "none"
      PROVE  /\ rows'[r].status \notin {"queued", "running"}
             /\ decision[r] # "OPEN" => rows'[r].decision = decision[r] /\ rows'[r].terminal
             /\ decision[r] = "COMMITTED" <=> (rows'[r].status = "completed"
                                                /\ rows'[r].decision = "COMMITTED")
  <2>1. rows'[r] = IF r \in ProjectionGaps THEN Terminal(r) ELSE rows[r]
    BY DEF ApplyProjection
  <2>2. CASE decision[r] = "OPEN"
    <3>1. rows'[r] = rows[r]
      BY <2>1, <2>2 DEF ProjectionGaps, Decided
    <3> QED
      BY <1>1, <1>3, <2>2, <3>1 DEF StartupFits, ActiveRows, RowsFit
  <2>3. CASE decision[r] # "OPEN"
    <3>1. rows'[r] = Terminal(r)
      BY <1>3, <2>1, <2>3 DEF ProjectionGaps, Decided
    <3> QED
      BY <1>1, <2>3, <3>1, TerminalRow DEF WorkerRunStatus
  <2> QED
    BY <2>2, <2>3
<1> QED
  BY <1>2, <1>3

\* A startup that gets through leaves the database saying what the Worker says
\* (agent-service.ts initializeWorkerAuthorityProjection).
THEOREM StartupAgrees == Spec => Reconciled
<1>1. Inductive /\ [Next]_vars =>
        [up = "apply" /\ up' = "up" =>
           /\ db'.view = head /\ db'.status # "busy" /\ ~db'.locked
           /\ \A r \in Run : rows'[r].status # "none" =>
                 /\ rows'[r].status \notin {"queued", "running"}
                 /\ decision[r] # "OPEN" => rows'[r].decision = decision[r] /\ rows'[r].terminal
                 /\ decision[r] = "COMMITTED" <=> (rows'[r].status = "completed"
                                                    /\ rows'[r].decision = "COMMITTED")]_vars
  BY StartupReconciles, RowsWritten
<1> QED
  BY <1>1, InductiveAlways, PTL DEF Spec, Reconciled
=============================================================================
