------------------------- MODULE InstinctLifecycle -------------------------
(***************************************************************************)
(* The mission state machine of hlf_mcp/instinct/lifecycle.py: one         *)
(* InstinctLifecycle object, shared by every thread of the server.         *)
(* step() and realign() hold the object's lock from the first line to the  *)
(* last and are one action per outcome.  classify_and_plan,                *)
(* execute_plan_with_routing and run_cove_verification read the mission    *)
(* under the lock, work without it, and call step() later: each is two     *)
(* actions, and the calls in between are the elements of `calls'.          *)
(* observe_phase and propose_phase end with a locked section that assigns  *)
(* the phase itself: DreamAssign here, their whole calls in DreamBinding.  *)
(***************************************************************************)
EXTENDS Integers, FiniteSets

CONSTANTS
  Missions,       \* mission ids
  Workers,        \* threads that run the helper methods
  Nodes,          \* node ids a task DAG may contain
  PlanTemplates,  \* node sets of the DAGs classify_and_plan builds
  PayloadFor,     \* PayloadFor[ph]: the payloads callers submit at phase ph
  Overrides,      \* values callers give to step's override flag
  MaxEdits,       \* bound on the artifact writes of one mission
  MaxFailures,    \* bound on the counted CoVE failures of one mission
  MaxRealigns     \* bound on the realignments of one mission

VARIABLES
  mission,  \* self._missions: the mission record of each id
  ledger,   \* phase of the last created/transitioned entry of self._ledger
  calls,    \* helper calls between their snapshot and their step()
  forced,   \* history: an override carried the mission past a gate
  refused,  \* history: a transition raised after it had begun
  drifted   \* history: a dream method's last write moved the mission

vars == <<mission, ledger, calls, forced, refused, drifted>>

-----------------------------------------------------------------------------
(* Phases, payloads and mission records.                                   *)

Phases == {"observe", "propose", "specify", "plan", "execute", "verify", "merge"}

EntryPhases == {"observe", "propose", "specify"}

PhaseIndex(ph) ==
  CASE ph = "observe" -> 0
    [] ph = "propose" -> 1
    [] ph = "specify" -> 2
    [] ph = "plan"    -> 3
    [] ph = "execute" -> 4
    [] ph = "verify"  -> 5
    [] ph = "merge"   -> 6
    [] OTHER          -> -1

\* The decision state of a node: "planned" when the trace does not record it.
Verdicts == {"planned", "allowed", "denied"}
Traces   == [Nodes -> Verdicts]
NoTrace  == [n \in Nodes |-> "planned"]

\* What _run_cove_gate can read off a verification report.  "wrapped" is the
\* proven report of run_cove_verification, nested one level down; "none" is the
\* empty payload, for any other one is stored as it is if it holds no report.
Reports  == {"none", "passing", "failing", "opaque", "wrapped"}
Evidence == {"none", "fresh", "stale"}
CoveResults == {"none", "passed", "failed"}

\* plan/run: whether task_dag/execution_trace is given, and whether the
\* normaliser accepts it on its own.
ArgKinds == {"absent", "good", "bad"}
Payload ==
  [plan: ArgKinds, dag: SUBSET Nodes, run: ArgKinds, trace: Traces,
   report: Reports, evidence: Evidence]

EmptyPayload ==
  [plan |-> "absent", dag |-> {}, run |-> "absent", trace |-> NoTrace,
   report |-> "none", evidence |-> "none"]

Mission ==
  [phase: Phases \cup {"absent"}, visited: SUBSET Phases, edits: Nat,
   dag: SUBSET Nodes, trace: Traces,
   contract: [dag: SUBSET Nodes, trace: Traces],
   report: Reports, evidence: Evidence,
   covePassed: BOOLEAN, coveFailures: Nat,
   sealed: BOOLEAN, seal: Nat, realigned: Nat]

NoMission ==
  [phase |-> "absent", visited |-> {}, edits |-> 0,
   dag |-> {}, trace |-> NoTrace,
   contract |-> [dag |-> {}, trace |-> NoTrace],
   report |-> "none", evidence |-> "none",
   covePassed |-> FALSE, coveFailures |-> 0,
   sealed |-> FALSE, seal |-> 0, realigned |-> 0]

Ops == {"classify", "dispatch", "prove"}
Call == [worker: Workers, op: Ops, mission: Missions, dag: SUBSET Nodes]

ASSUME ConstantsAssumption ==
  /\ PlanTemplates \subseteq (SUBSET Nodes) \ {{}}
  /\ PayloadFor \in [Phases -> SUBSET Payload]
  /\ Overrides \subseteq BOOLEAN
  /\ MaxEdits \in Nat /\ MaxFailures \in Nat /\ MaxRealigns \in Nat
  /\ IsFiniteSet(Nodes)

-----------------------------------------------------------------------------
(* The gates.                                                              *)

Exists(m) == mission[m].phase # "absent"

RecordedNodes(trace) == {n \in Nodes : trace[n] # "planned"}

\* execution_ready_for_verification: the recorded entries are counted over the
\* whole trace, the denied and pending ones over the nodes of the DAG.
ExecutionReady(dag, trace) ==
  /\ dag # {}
  /\ Cardinality(RecordedNodes(trace)) = Cardinality(dag)
  /\ \A n \in dag : trace[n] = "allowed"

CoveGate(r, cove) ==
  \/ cove = "passed"
  \/ cove = "none" /\ r.report = "passing"

\* Only the evidence of the verify payload is ever present: the normalised
\* trace entries and the contract carry none.
EvidenceFresh(r) == r.evidence # "stale"

\* Mutation: a target behind the current phase is let through.
InOrderOrBack(r, ph) == PhaseIndex(ph) <= PhaseIndex(r.phase) + 1

InOrder(r, ph) ==
  /\ PhaseIndex(ph) = PhaseIndex(r.phase) + 1
  /\ ph = "propose" /\ r.phase # "observe" => "observe" \in r.visited

\* Mutation: no freshness gate.
GatesOpenForStale(r, ph, cove) ==
  /\ ph = "merge" => CoveGate(r, cove)
  /\ ph = "verify" /\ r.dag # {} => ExecutionReady(r.dag, r.trace)

GatesOpen(r, ph, cove) ==
  /\ ph = "merge" => CoveGate(r, cove) /\ EvidenceFresh(r)
  /\ ph = "verify" /\ r.dag # {} => ExecutionReady(r.dag, r.trace)

Admitted(r, ph, ov, cove) ==
  ov \/ (InOrder(r, ph) /\ GatesOpen(r, ph, cove))

-----------------------------------------------------------------------------
(* What a transition writes.                                               *)

\* The phase, the history and the artifact are written before the payload is
\* normalised; the CoVE flag is set for every verify -> merge that got here.
Entered(r, ph, p) ==
  [r EXCEPT !.phase      = ph,
            !.visited    = @ \cup {ph},
            !.edits      = @ + 1,
            !.evidence   = IF ph = "verify" THEN p.evidence ELSE @,
            !.covePassed = IF r.phase = "verify" /\ ph = "merge" THEN TRUE ELSE @]

WithDag(r, p) == IF p.plan = "good" THEN [r EXCEPT !.dag = p.dag] ELSE r

WithTrace(r, p) == IF p.run = "good" THEN [r EXCEPT !.trace = p.trace] ELSE r

WithContract(r) == [r EXCEPT !.contract = [dag |-> r.dag, trace |-> r.trace]]

WithReport(r, p) == IF p.report # "none" THEN [r EXCEPT !.report = p.report] ELSE r

\* Mutation: a mission is sealed once, at its first merge.
SealedOnce(r) == IF r.sealed THEN r ELSE [r EXCEPT !.sealed = TRUE, !.seal = r.edits]

Sealed(r) == [r EXCEPT !.sealed = TRUE, !.seal = r.edits]

\* normalize_execution_trace also refuses a node the DAG does not have.
TraceRefused(r, p) ==
  \/ p.run = "bad"
  \/ p.run = "good" /\ ~(RecordedNodes(p.trace) \subseteq WithDag(r, p).dag)

PayloadRefused(r, ph, p) ==
  \/ ph \in {"plan", "execute"} /\ p.plan = "bad"
  \/ ph = "execute" /\ TraceRefused(r, p)

\* Mutation: the execute branch does not rebuild the contract.
TransitionedOldContract(r, ph, p) ==
  LET e == Entered(r, ph, p) IN
    CASE ph = "plan"    -> WithContract(WithDag(e, p))
      [] ph = "execute" -> WithTrace(WithDag(e, p), p)
      [] ph = "verify"  -> WithReport(e, p)
      [] ph = "merge"   -> Sealed(e)
      [] OTHER          -> e

Transitioned(r, ph, p) ==
  LET e == Entered(r, ph, p) IN
    CASE ph = "plan"    -> WithContract(WithDag(e, p))
      [] ph = "execute" -> WithContract(WithTrace(WithDag(e, p), p))
      [] ph = "verify"  -> WithReport(e, p)
      [] ph = "merge"   -> Sealed(e)
      [] OTHER          -> e

\* A refused DAG leaves the old one; a refused trace comes after the DAG of the
\* same payload has been stored.
HalfTransitioned(r, ph, p) ==
  LET e == Entered(r, ph, p) IN IF p.plan = "bad" THEN e ELSE WithDag(e, p)

NewMission(ph, p) ==
  LET d == IF p.plan = "good" THEN p.dag ELSE {} IN
    [NoMission EXCEPT
       !.phase    = ph,
       !.visited  = {ph} \cup (IF ph = "propose" THEN {"observe"} ELSE {}),
       !.edits    = 1,
       !.dag      = d,
       !.contract = [dag |-> d, trace |-> NoTrace]]

-----------------------------------------------------------------------------
(* The outcomes of step(m, ph, p, ov, cove).                               *)

Created(m, ph, p) ==
  /\ ~Exists(m)
  /\ ph \in EntryPhases
  /\ p.plan # "bad"
  /\ mission' = [mission EXCEPT ![m] = NewMission(ph, p)]
  /\ ledger' = [ledger EXCEPT ![m] = ph]
  /\ UNCHANGED <<forced, refused>>

\* A new mission that may not start at ph, or whose DAG is refused: nothing is
\* stored.
CreationRefused(m, ph, p) ==
  /\ ~Exists(m)
  /\ ph \notin EntryPhases \/ p.plan = "bad"
  /\ UNCHANGED <<mission, ledger, forced, refused>>

AlreadyAt(m, ph) ==
  /\ mission[m].phase = ph
  /\ UNCHANGED <<mission, ledger, forced, refused>>

\* Backward transition, phase skip, or the dream gate.
OutOfOrder(m, ph, ov) ==
  /\ Exists(m) /\ mission[m].phase # ph
  /\ ~ov /\ ~InOrder(mission[m], ph)
  /\ UNCHANGED <<mission, ledger, forced, refused>>

\* Mutation: the failure count goes down.
CoveBlockedDown(m, ph, ov, cove) ==
  LET r == mission[m] IN
  /\ r.phase = "verify" /\ ph = "merge"
  /\ ~ov /\ ~CoveGate(r, cove)
  /\ mission' = [mission EXCEPT ![m] = [r EXCEPT !.coveFailures = @ - 1]]
  /\ UNCHANGED <<ledger, forced, refused>>

CoveBlocked(m, ph, ov, cove) ==
  LET r == mission[m] IN
  /\ r.phase = "verify" /\ ph = "merge"
  /\ ~ov /\ ~CoveGate(r, cove)
  /\ r.coveFailures < MaxFailures
  /\ mission' = [mission EXCEPT ![m] = [r EXCEPT !.coveFailures = @ + 1]]
  /\ UNCHANGED <<ledger, forced, refused>>

\* The CoVE flag is already set when the freshness gate stops the merge.
StaleBlocked(m, ph, ov, cove) ==
  LET r == mission[m] IN
  /\ r.phase = "verify" /\ ph = "merge"
  /\ ~ov /\ CoveGate(r, cove) /\ ~EvidenceFresh(r)
  /\ mission' = [mission EXCEPT ![m] = [r EXCEPT !.covePassed = TRUE]]
  /\ UNCHANGED <<ledger, forced, refused>>

NotReadyBlocked(m, ph, ov) ==
  LET r == mission[m] IN
  /\ ph = "verify" /\ InOrder(r, ph)
  /\ ~ov /\ r.dag # {} /\ ~ExecutionReady(r.dag, r.trace)
  /\ mission' = [mission EXCEPT ![m] = WithContract(r)]
  /\ UNCHANGED <<ledger, forced, refused>>

\* Mutation: the transition is not logged.
AdvancedUnlogged(m, ph, p, ov, cove) ==
  LET r == mission[m] IN
  /\ Exists(m) /\ r.phase # ph
  /\ Admitted(r, ph, ov, cove)
  /\ ~PayloadRefused(r, ph, p)
  /\ r.edits < MaxEdits
  /\ mission' = [mission EXCEPT ![m] = Transitioned(r, ph, p)]
  /\ forced' = [forced EXCEPT ![m] = IF Admitted(r, ph, FALSE, cove) THEN @ ELSE TRUE]
  /\ UNCHANGED <<ledger, refused>>

Advanced(m, ph, p, ov, cove) ==
  LET r == mission[m] IN
  /\ Exists(m) /\ r.phase # ph
  /\ Admitted(r, ph, ov, cove)
  /\ ~PayloadRefused(r, ph, p)
  /\ r.edits < MaxEdits
  /\ mission' = [mission EXCEPT ![m] = Transitioned(r, ph, p)]
  /\ ledger' = [ledger EXCEPT ![m] = ph]
  /\ forced' = [forced EXCEPT ![m] = IF Admitted(r, ph, FALSE, cove) THEN @ ELSE TRUE]
  /\ UNCHANGED refused

\* ValueError from the normalisers: the phase has changed, no ledger entry.
AdvanceRaised(m, ph, p, ov, cove) ==
  LET r == mission[m] IN
  /\ Exists(m) /\ r.phase # ph
  /\ Admitted(r, ph, ov, cove)
  /\ PayloadRefused(r, ph, p)
  /\ r.edits < MaxEdits
  /\ mission' = [mission EXCEPT ![m] = HalfTransitioned(r, ph, p)]
  /\ forced' = [forced EXCEPT ![m] = IF Admitted(r, ph, FALSE, cove) THEN @ ELSE TRUE]
  /\ refused' = [refused EXCEPT ![m] = TRUE]
  /\ UNCHANGED ledger

StepOk(m, ph, p, ov, cove) ==
  \/ Created(m, ph, p)
  \/ AlreadyAt(m, ph)
  \/ Advanced(m, ph, p, ov, cove)

StepNotOk(m, ph, p, ov, cove) ==
  \/ CreationRefused(m, ph, p)
  \/ OutOfOrder(m, ph, ov)
  \/ CoveBlocked(m, ph, ov, cove)
  \/ StaleBlocked(m, ph, ov, cove)
  \/ NotReadyBlocked(m, ph, ov)
  \/ AdvanceRaised(m, ph, p, ov, cove)

Step(m, ph, p, ov, cove) ==
  StepOk(m, ph, p, ov, cove) \/ StepNotOk(m, ph, p, ov, cove)

-----------------------------------------------------------------------------
(* Callers.                                                                *)

\* step() reads the CoVE result it is given on the way to merge only.
CovesFor(ph) == IF ph = "merge" THEN CoveResults ELSE {"none"}

ClientStep(m, ph, p, ov, cove) ==
  /\ Step(m, ph, p, ov, cove)
  /\ UNCHANGED calls

Realign(m) ==
  /\ Exists(m) /\ ~mission[m].sealed
  /\ mission[m].realigned < MaxRealigns
  /\ mission' = [mission EXCEPT ![m].realigned = @ + 1]
  /\ UNCHANGED <<ledger, calls, forced, refused>>

Idle(w) == \A c \in calls : c.worker # w

Suspend(w, op, m, d) ==
  /\ Idle(w)
  /\ calls' = calls \cup {[worker |-> w, op |-> op, mission |-> m, dag |-> d]}

\* classify_and_plan: the specify step; a failed one ends the call.
ClassifySpecify(w, m, d) ==
  /\ StepOk(m, "specify", EmptyPayload, FALSE, "none")
  /\ Suspend(w, "classify", m, d)

PlanPayload(d) == [EmptyPayload EXCEPT !.plan = "good", !.dag = d]

ClassifyPlan(c) ==
  /\ c.op = "classify"
  /\ Step(c.mission, "plan", PlanPayload(c.dag), FALSE, "none")
  /\ calls' = calls \ {c}

\* Mutation: the phase of the snapshot is not checked.
DispatchAnyPhase(w, m) ==
  /\ mission[m].dag # {}
  /\ Suspend(w, "dispatch", m, mission[m].dag)
  /\ UNCHANGED <<mission, ledger, forced, refused>>

\* execute_plan_with_routing: get_mission() is a deep copy; the nodes are routed
\* without the lock and every one is recorded as a success.
DispatchBegin(w, m) ==
  /\ mission[m].phase = "plan" /\ mission[m].dag # {}
  /\ Suspend(w, "dispatch", m, mission[m].dag)
  /\ UNCHANGED <<mission, ledger, forced, refused>>

RunPayload(d) ==
  [PlanPayload(d) EXCEPT
     !.run = "good",
     !.trace = [n \in Nodes |-> IF n \in d THEN "allowed" ELSE "planned"]]

DispatchEnd(c) ==
  /\ c.op = "dispatch"
  /\ Step(c.mission, "execute", RunPayload(c.dag), FALSE, "none")
  /\ calls' = calls \ {c}

ProveBegin(w, m) ==
  /\ mission[m].phase = "execute"
  /\ Suspend(w, "prove", m, {})
  /\ UNCHANGED <<mission, ledger, forced, refused>>

\* Whatever the verifier said, the report goes in under a key of its own.
ProofPayload(rep) == [EmptyPayload EXCEPT !.report = rep]

ProveEnd(c) ==
  /\ c.op = "prove"
  /\ \E rep \in {"wrapped", "opaque"} :
       Step(c.mission, "verify", ProofPayload(rep), FALSE, "none")
  /\ calls' = calls \ {c}

\* No gate, history, artifact or ledger entry.
Assigned(m, ph) ==
  /\ mission' = [mission EXCEPT ![m].phase = ph]
  /\ drifted' = [drifted EXCEPT ![m] = @ \/ mission[m].phase # ph]
  /\ UNCHANGED <<ledger, calls, forced, refused>>

\* The last locked section of observe_phase and of propose_phase: the phase is
\* assigned whatever it has become.  That the mission has entered it before is
\* proved of the whole calls in DreamBinding_proofs.
DreamAssign(m, ph) ==
  /\ ph \in {"observe", "propose"} \cap mission[m].visited
  /\ Assigned(m, ph)

Init ==
  /\ mission = [m \in Missions |-> NoMission]
  /\ ledger = [m \in Missions |-> "absent"]
  /\ calls = {}
  /\ forced = [m \in Missions |-> FALSE]
  /\ refused = [m \in Missions |-> FALSE]
  /\ drifted = [m \in Missions |-> FALSE]

\* What step(), realign() and the helper methods do.
StepNext ==
  \/ \E m \in Missions, ph \in Phases, ov \in Overrides :
       \E cove \in CovesFor(ph), p \in PayloadFor[ph] : ClientStep(m, ph, p, ov, cove)
  \/ \E m \in Missions : Realign(m)
  \/ \E w \in Workers, m \in Missions :
       \/ \E d \in PlanTemplates : ClassifySpecify(w, m, d)
       \/ DispatchBegin(w, m)
       \/ ProveBegin(w, m)
  \/ \E c \in calls : ClassifyPlan(c) \/ DispatchEnd(c) \/ ProveEnd(c)

Next ==
  \/ StepNext /\ UNCHANGED drifted
  \/ \E m \in Missions, ph \in Phases : DreamAssign(m, ph)

Spec == Init /\ [][Next]_vars
-----------------------------------------------------------------------------
(* Properties.                                                             *)

\* Every record, ledger entry and pending call has its type.
TypeOK ==
  /\ mission \in [Missions -> Mission]
  /\ ledger \in [Missions -> Phases \cup {"absent"}]
  /\ calls \subseteq Call
  /\ forced \in [Missions -> BOOLEAN]
  /\ refused \in [Missions -> BOOLEAN]
  /\ drifted \in [Missions -> BOOLEAN]

\* A mission that is at merge and that no override carried past a gate walked
\* every phase from specify on, ran each node of the plan it carries with an
\* allowed verdict, passed the CoVE gate, and its verification evidence is not
\* stale: no interleaving of helper calls, refused payloads, blocked merges and
\* realignments opens another way into merge, nor does a late write of a dream
\* method that reopens the mission with its old trace, report and CoVE flag.
MergeEarned ==
  \A m \in Missions :
    LET r == mission[m] IN
    r.phase = "merge" /\ ~forced[m] =>
      /\ {"specify", "plan", "execute", "verify", "merge"} \subseteq r.visited
      /\ r.dag = {} \/ \A n \in r.dag : r.trace[n] = "allowed"
      /\ r.covePassed
      /\ EvidenceFresh(r)

\* A mission shown at merge carries the seal of the artifacts it has, however
\* often it was forced or written back, reopened and merged again; a mission
\* that is sealed and no longer at merge was taken from there by an override or
\* by the late write of a dream method, by nothing else.
SealCoversArtifacts ==
  \A m \in Missions :
    LET r == mission[m] IN
    /\ r.phase = "merge" => r.sealed /\ r.seal = r.edits
    /\ r.sealed /\ r.phase # "merge" => forced[m] \/ drifted[m]

\* While a mission that was not forced is at verify or merge, the plan, the run
\* and the evidence that the gates judged stay what they were, although helpers
\* that took their snapshot earlier call step() late; and all that an unforced
\* step can do to a mission at merge is the late write of a dream method, which
\* takes the phase back to observe or propose and leaves the rest.
VerifiedWorkIsFrozen ==
  [][\A m \in Missions : ~forced'[m] =>
       LET r == mission[m] IN
       /\ r.phase \in {"verify", "merge"} =>
            /\ mission'[m].dag = r.dag
            /\ mission'[m].trace = r.trace
            /\ mission'[m].report = r.report
            /\ mission'[m].evidence = r.evidence
       /\ r.phase = "merge" =>
            \/ mission'[m] = r
            \/ \E ph \in {"observe", "propose"} : mission'[m] = [r EXCEPT !.phase = ph]]_vars

\* As long as no normaliser has raised in the middle of a transition, the ledger
\* replays to the current phase, or the mission shows the observe or propose
\* that a dream method assigned; and the stored orchestration contract is the
\* contract of the stored DAG and trace.
RefusalIsTheOnlyLeak ==
  \A m \in Missions :
    LET r == mission[m] IN
    ~refused[m] =>
      /\ ledger[m] = r.phase \/ (drifted[m] /\ r.phase \in {"observe", "propose"})
      /\ r.contract = [dag |-> r.dag, trace |-> r.trace]

\* Whatever raised or was assigned, the ledger never misses the entry into the
\* verify or merge that a mission shows, nor its specify.
LedgerMissesNoGate ==
  \A m \in Missions :
    ledger[m] # mission[m].phase =>
      mission[m].phase \in {"observe", "propose", "plan", "execute"}

\* The DAG execute_plan_with_routing copied before it routed the nodes is still
\* the mission's DAG if the mission is still at plan, so the trace it stores is
\* a trace of the plan in force; only an override or the late write of a dream
\* method, after which the mission is planned again, can make the copy stale.
DispatchSnapshotCurrent ==
  \A c \in calls :
    LET m == c.mission IN
    c.op = "dispatch" /\ ~forced[m] /\ ~drifted[m] /\ mission[m].phase = "plan" =>
      c.dag = mission[m].dag
=============================================================================
