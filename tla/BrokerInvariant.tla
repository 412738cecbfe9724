-------------------------- MODULE BrokerInvariant --------------------------
(***************************************************************************)
(* The inductive invariant behind TeardownHolds and RecordsHold.  What a   *)
(* teardown attests from its records stays true because a run's Agent is   *)
(* launched once, its verifier once after the Agent's attested end, and a  *)
(* verifier that has been given up is never vouched for by a teardown.     *)
(* What a reconciliation finds absent stays so if no handler has its       *)
(* container still before it.                                              *)
(***************************************************************************)
EXTENDS GateCalls

\* Neither running nor about to.
Gone(c) == handler[c] = "idle" /\ c \notin containers

\* The gate runner will not launch the verifier any more.
PastVerifier(r) == phase[r] \in {"all_closing", "reconciling", "done"}

\* Nothing has been launched before the gate runner asked for it.
Unlaunched(r) ==
    /\ phase[r] = "idle" => Gone(Agent(r)) /\ record[Agent(r)] = "none"
    /\ phase[r] \in {"idle", "agent", "agent_closing"} =>
         Gone(Verifier(r)) /\ record[Verifier(r)] = "none"
    /\ phase[r] \in {"idle", "agent"} => \A h \in closers : h.run # r
    /\ phase[r] = "idle" => \A a \in signed : a.run # r

\* A record of what became of a container is written by the handler's end.
RecordsFollow(r) ==
    /\ record[Agent(r)] # "none" => handler[Agent(r)] = "idle"
    /\ record[Verifier(r)] = "removed" => handler[Verifier(r)] = "idle"
    /\ handler[Verifier(r)] \in {"requested", "starting"} => record[Verifier(r)] = "none"

\* A verifier is launched after the Agent's container was attested to be gone.
AgentFirst(r) ==
    /\ phase[r] = "agent_closing" /\ reply[r] = "ok" => Gone(Agent(r))
    /\ \/ phase[r] = "verifier"
       \/ handler[Verifier(r)] # "idle"
       \/ record[Verifier(r)] # "none"
       \/ Verifier(r) \in containers
       => Gone(Agent(r))

\* After a verifier that answered, its record is there unless all records are lost.
VerifierAnswered(r) ==
    phase[r] = "verifier" /\ reply[r] = "ok" =>
      /\ handler[Verifier(r)] = "idle"
      /\ record[Verifier(r)] = "none" => record[Agent(r)] = "none"

\* What the teardown in progress was asked after, and has found.
CloserFits(h) ==
    /\ h.method = "reconcile" => h.pc # "observe"
    /\ h.method = "teardown" /\ h.scope = "ALL" =>
         /\ PastVerifier(h.run)
         /\ Gone(Agent(h.run)) /\ handler[Verifier(h.run)] = "idle"
         /\ record[Verifier(h.run)] = "none" =>
              record[Agent(h.run)] = "none" \/ Gone(Verifier(h.run))
    /\ h.method = "teardown" => h.pc \in {"observe", "close"}
    /\ h.method = "teardown" /\ h.pc = "close" =>
         \A k \in KindsOf(h.scope) : Gone(<<h.run, k>>)
    /\ h.live /\ phase[h.run] = "agent_closing" => h.method = "teardown" /\ h.scope = "AGENT"

\* What a teardown attested is gone, and cannot be launched again.
AttestationFits(a) ==
    a.method = "teardown" =>
      /\ \A k \in KindsOf(a.scope) : Gone(<<a.run, k>>)
      /\ a.scope = "ALL" => PastVerifier(a.run)

\* The gate runner waits for the call its phase is about.
ReplyFits(r) ==
    /\ reply[r] = "agent" => phase[r] = "agent"
    /\ reply[r] = "verifier" => phase[r] = "verifier"
    /\ reply[r] = "closure" => phase[r] \in {"agent_closing", "all_closing", "reconciling"}

RunInv(r) ==
    /\ Unlaunched(r) /\ RecordsFollow(r) /\ AgentFirst(r) /\ VerifierAnswered(r)
    /\ ReplyFits(r)
    /\ \A h \in closers : h.run = r => CloserFits(h)
    /\ \A a \in signed : a.run = r => AttestationFits(a)

BrokerInv == \A r \in Run : RunInv(r)

----------------------------------------------------------------------------
(* What a reconciliation attests, and what the Worker is told. *)

\* No container of the run is still to be created.
Settled(r) ==
    \A k \in Kinds : handler[<<r, k>>] \notin {"requested", "starting", "launching"}

\* None exists either.
Clean(r) == Settled(r) /\ \A k \in Kinds : <<r, k>> \notin containers

AttestedAll(r) == \E a \in signed : a.run = r /\ a.scope = "ALL"

\* Once its launch is answered, or was given up in time, a reconciliation of the
\* run cannot miss a container.
AnswerFits(r) ==
    phase[r] \notin {"idle", "done"} /\ reply[r] \notin Kinds /\ r \notin abandoned =>
      \A k \in Kinds : ~BeforeContainer(<<r, k>>)

\* What is recorded, or about to be, was attested.
RecordFits(r) ==
    /\ r \in recorded \/ phase[r] = "done" => AttestedAll(r)
    /\ phase[r] \in {"all_closing", "reconciling"} /\ reply[r] = "ok" => AttestedAll(r)

\* The handler whose answer counts is the one of the call the runner waits for.
LiveFits(h) ==
    h.live =>
      /\ reply[h.run] = "closure"
      /\ phase[h.run] \in {"all_closing", "reconciling"} => h.scope = "ALL"
      /\ \A g \in closers : g.live /\ g.run = h.run => g = h

\* What a reconciliation in progress has established.
ReconcilerFits(h) ==
    h.method = "reconcile" =>
      /\ h.scope = "ALL" /\ phase[h.run] \in {"reconciling", "done"}
      /\ h.run \notin abandoned /\ h.pc # "cancel" => Settled(h.run)
      /\ h.run \notin abandoned /\ h.pc = "close" => Clean(h.run)

\* What it has attested cannot come back.
ReconciliationFits(a) ==
    a.method = "reconcile" =>
      /\ a.scope = "ALL" /\ phase[a.run] \in {"reconciling", "done"}
      /\ a.run \notin abandoned => Clean(a.run)

CloseInv(r) ==
    /\ AnswerFits(r) /\ RecordFits(r)
    /\ \A h \in closers : h.run = r => LiveFits(h) /\ ReconcilerFits(h)
    /\ \A a \in signed : a.run = r => ReconciliationFits(a)

RecordInv == \A r \in Run : CloseInv(r)

\* Every state of the Broker, whatever is killed, lost or given up: TeardownHolds,
\* RecordsHold and Exclusive follow from it.
Inductive == TypeOK /\ BrokerInv /\ RecordInv
=============================================================================
