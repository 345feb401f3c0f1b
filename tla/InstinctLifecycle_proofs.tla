---------------------- MODULE InstinctLifecycle_proofs ----------------------
(***************************************************************************)
(* Proofs about InstinctLifecycle, for every set of missions, workers and  *)
(* nodes, every payload callers may submit and every bound.                *)
(***************************************************************************)
EXTENDS InstinctLifecycle, TLAPS

-----------------------------------------------------------------------------
(* The record transformers return mission records.                         *)

LEMMA NoTraceType == NoTrace \in Traces
  BY DEF NoTrace, Traces, Verdicts

LEMMA EmptyPayloadType == EmptyPayload \in Payload
  BY NoTraceType DEF EmptyPayload, Payload, ArgKinds, Reports, Evidence

LEMMA EnteredType ==
  ASSUME NEW r \in Mission, NEW ph \in Phases, NEW p \in Payload
  PROVE  Entered(r, ph, p) \in Mission
<1> DEFINE ev == IF ph = "verify" THEN p.evidence ELSE r.evidence
           cp == IF r.phase = "verify" /\ ph = "merge" THEN TRUE ELSE r.covePassed
           v == r.visited \cup {ph}
           k == r.edits + 1
<1>1. ev \in Evidence /\ cp \in BOOLEAN /\ v \in SUBSET Phases /\ k \in Nat
  <2>1. /\ r.evidence \in Evidence /\ p.evidence \in Evidence
        /\ r.visited \in SUBSET Phases /\ r.edits \in Nat /\ r.covePassed \in BOOLEAN
    BY DEF Mission, Payload
  <2>2. cp \in BOOLEAN
    BY <2>1, Zenon
  <2>3. ev \in Evidence /\ v \in SUBSET Phases
    BY <2>1
  <2>4. k \in Nat
    BY <2>1
  <2>5. QED
    BY <2>2, <2>3, <2>4
<1>2. Entered(r, ph, p) =
        [r EXCEPT !.phase = ph, !.visited = v, !.edits = k,
                  !.evidence = ev, !.covePassed = cp]
  BY DEF Entered
<1> HIDE DEF ev, cp, v, k
<1>3. QED
  BY <1>1, <1>2 DEF Mission

LEMMA WithDagType ==
  ASSUME NEW r \in Mission, NEW p \in Payload
  PROVE  WithDag(r, p) \in Mission
  BY DEF WithDag, Mission, Payload

LEMMA WithTraceType ==
  ASSUME NEW r \in Mission, NEW p \in Payload
  PROVE  WithTrace(r, p) \in Mission
  BY DEF WithTrace, Mission, Payload

LEMMA WithContractType ==
  ASSUME NEW r \in Mission
  PROVE  WithContract(r) \in Mission
  BY DEF WithContract, Mission

LEMMA WithReportType ==
  ASSUME NEW r \in Mission, NEW p \in Payload
  PROVE  WithReport(r, p) \in Mission
  BY DEF WithReport, Mission, Payload

LEMMA SealedType ==
  ASSUME NEW r \in Mission
  PROVE  Sealed(r) \in Mission
  BY DEF Sealed, Mission

LEMMA TransitionedType ==
  ASSUME NEW r \in Mission, NEW ph \in Phases, NEW p \in Payload
  PROVE  /\ Transitioned(r, ph, p) \in Mission
         /\ HalfTransitioned(r, ph, p) \in Mission
<1> DEFINE e == Entered(r, ph, p)
<1>1. e \in Mission
  BY EnteredType
<1>2. WithDag(e, p) \in Mission
  BY <1>1, WithDagType
<1>3. WithContract(WithDag(e, p)) \in Mission
  BY <1>2, WithContractType
<1>4. WithContract(WithTrace(WithDag(e, p), p)) \in Mission
  BY <1>2, WithTraceType, WithContractType
<1>5. WithReport(e, p) \in Mission /\ Sealed(e) \in Mission
  BY <1>1, WithReportType, SealedType
<1>6. QED
  BY <1>1, <1>2, <1>3, <1>4, <1>5 DEF Transitioned, HalfTransitioned

LEMMA NewMissionType ==
  ASSUME NEW ph \in EntryPhases, NEW p \in Payload
  PROVE  NewMission(ph, p) \in Mission
<1> DEFINE d == IF p.plan = "good" THEN p.dag ELSE {}
           v == {ph} \cup (IF ph = "propose" THEN {"observe"} ELSE {})
<1>1. NoMission \in Mission
  BY NoTraceType DEF NoMission, Mission, Reports, Evidence
<1>2. d \in SUBSET Nodes /\ v \in SUBSET Phases /\ ph \in Phases
  BY DEF Payload, EntryPhases, Phases
<1> DEFINE con == [dag |-> d, trace |-> NoTrace]
           one == 1
<1>3. con \in [dag: SUBSET Nodes, trace: Traces] /\ one \in Nat
  BY <1>2, NoTraceType
<1>4. NewMission(ph, p) =
        [NoMission EXCEPT !.phase = ph, !.visited = v, !.edits = one, !.dag = d,
                          !.contract = con]
  BY DEF NewMission
<1> HIDE DEF d, v, con, one
<1>5. QED
  BY <1>1, <1>2, <1>3, <1>4 DEF Mission

-----------------------------------------------------------------------------
(* Type correctness.                                                       *)

\* The part of TypeOK a step() can disturb.
StoreTypeOK ==
  /\ mission \in [Missions -> Mission]
  /\ ledger \in [Missions -> Phases \cup {"absent"}]
  /\ forced \in [Missions -> BOOLEAN]
  /\ refused \in [Missions -> BOOLEAN]

LEMMA StepType ==
  ASSUME StoreTypeOK,
         NEW m \in Missions, NEW ph \in Phases, NEW p \in Payload,
         NEW ov, NEW cove, Step(m, ph, p, ov, cove)
  PROVE  StoreTypeOK'
<1> DEFINE r == mission[m]
<1>0. r \in Mission
  BY DEF StoreTypeOK
<1>1. CASE Created(m, ph, p)
  <2>1. ph \in EntryPhases
    BY <1>1 DEF Created
  <2>2. NewMission(ph, p) \in Mission
    BY <2>1, NewMissionType
  <2>3. QED
    BY <1>1, <2>2 DEF Created, StoreTypeOK
<1>2. CASE UNCHANGED <<mission, ledger, forced, refused>>
  BY <1>2 DEF StoreTypeOK
<1>3. CASE CoveBlocked(m, ph, ov, cove)
  <2> DEFINE k == r.coveFailures + 1
  <2>1. r.coveFailures \in Nat
    BY <1>0 DEF Mission
  <2>2. k \in Nat
    BY <2>1
  <2>3. mission' = [mission EXCEPT ![m] = [r EXCEPT !.coveFailures = k]]
    BY <1>3 DEF CoveBlocked
  <2> HIDE DEF k
  <2>4. [r EXCEPT !.coveFailures = k] \in Mission
    BY <1>0, <2>2 DEF Mission
  <2>5. QED
    BY <1>3, <2>3, <2>4 DEF CoveBlocked, StoreTypeOK
<1>4. CASE StaleBlocked(m, ph, ov, cove)
  <2>1. [r EXCEPT !.covePassed = TRUE] \in Mission
    BY <1>0 DEF Mission
  <2>2. QED
    BY <1>4, <2>1 DEF StaleBlocked, StoreTypeOK
<1>5. CASE NotReadyBlocked(m, ph, ov)
  <2>1. WithContract(r) \in Mission
    BY <1>0, WithContractType
  <2>2. QED
    BY <1>5, <2>1 DEF NotReadyBlocked, StoreTypeOK
<1>6. CASE Advanced(m, ph, p, ov, cove)
  <2>1. Transitioned(r, ph, p) \in Mission
    BY <1>0, TransitionedType
  <2>2. mission' \in [Missions -> Mission] /\ ledger' \in [Missions -> Phases \cup {"absent"}]
    BY <1>6, <2>1 DEF Advanced, StoreTypeOK
  <2>3. forced' \in [Missions -> BOOLEAN] /\ refused' \in [Missions -> BOOLEAN]
    <3> DEFINE f == IF Admitted(r, ph, FALSE, cove) THEN forced[m] ELSE TRUE
    <3>1. f \in BOOLEAN
      BY DEF StoreTypeOK
    <3>2. forced' = [forced EXCEPT ![m] = f] /\ refused' = refused
      BY <1>6 DEF Advanced
    <3> HIDE DEF f
    <3>3. QED
      BY <3>1, <3>2 DEF StoreTypeOK
  <2>4. QED
    BY <2>2, <2>3 DEF StoreTypeOK
<1>7. CASE AdvanceRaised(m, ph, p, ov, cove)
  <2>1. HalfTransitioned(r, ph, p) \in Mission
    BY <1>0, TransitionedType
  <2>2. mission' \in [Missions -> Mission] /\ ledger' \in [Missions -> Phases \cup {"absent"}]
    BY <1>7, <2>1 DEF AdvanceRaised, StoreTypeOK
  <2>3. forced' \in [Missions -> BOOLEAN] /\ refused' \in [Missions -> BOOLEAN]
    <3> DEFINE f == IF Admitted(r, ph, FALSE, cove) THEN forced[m] ELSE TRUE
    <3>1. f \in BOOLEAN
      BY DEF StoreTypeOK
    <3>2. forced' = [forced EXCEPT ![m] = f] /\ refused' = [refused EXCEPT ![m] = TRUE]
      BY <1>7 DEF AdvanceRaised
    <3> HIDE DEF f
    <3>3. QED
      BY <3>1, <3>2 DEF StoreTypeOK
  <2>4. QED
    BY <2>2, <2>3 DEF StoreTypeOK
<1>8. QED
  BY <1>1, <1>2, <1>3, <1>4, <1>5, <1>6, <1>7
     DEF Step, StepOk, StepNotOk, CreationRefused, AlreadyAt, OutOfOrder

\* The payloads of the helper methods, and what they remember, are well typed.
LEMMA HelperPayloadType ==
  ASSUME NEW d \in SUBSET Nodes, NEW rep \in Reports
  PROVE  PlanPayload(d) \in Payload /\ RunPayload(d) \in Payload /\ ProofPayload(rep) \in Payload
<1>1. PlanPayload(d) \in Payload
  BY EmptyPayloadType DEF PlanPayload, Payload, ArgKinds
<1>2. RunPayload(d) \in Payload
  <2> DEFINE t == [n \in Nodes |-> IF n \in d THEN "allowed" ELSE "planned"]
  <2>1. t \in Traces
    BY DEF Traces, Verdicts
  <2>2. RunPayload(d) = [PlanPayload(d) EXCEPT !.run = "good", !.trace = t]
    BY DEF RunPayload
  <2> HIDE DEF t
  <2>3. QED
    BY <1>1, <2>1, <2>2 DEF Payload, ArgKinds
<1>3. ProofPayload(rep) \in Payload
  BY EmptyPayloadType DEF ProofPayload, Payload
<1>4. QED
  BY <1>1, <1>2, <1>3

LEMMA CallType ==
  ASSUME NEW w \in Workers, NEW m \in Missions, NEW d \in SUBSET Nodes, NEW op \in Ops,
         calls \subseteq Call, Suspend(w, op, m, d)
  PROVE  (calls \subseteq Call)'
  BY DEF Suspend, Call

LEMMA TypeInit == Init => TypeOK
<1>1. NoMission \in Mission
  BY NoTraceType DEF NoMission, Mission, Reports, Evidence
<1>2. QED
  BY <1>1 DEF Init, TypeOK

LEMMA TypeStepNext ==
  ASSUME TypeOK, StepNext \/ UNCHANGED vars, UNCHANGED drifted
  PROVE  TypeOK'
<1>0. StoreTypeOK /\ calls \subseteq Call
  BY DEF TypeOK, StoreTypeOK
<1>1. ASSUME NEW m \in Missions, NEW ph \in Phases, NEW ov \in Overrides,
             NEW cove \in CovesFor(ph), NEW p \in PayloadFor[ph],
             ClientStep(m, ph, p, ov, cove)
      PROVE  TypeOK'
  <2>1. p \in Payload
    BY ConstantsAssumption DEF ConstantsAssumption
  <2>2. StoreTypeOK'
    BY <1>0, <1>1, <2>1, StepType DEF ClientStep
  <2>3. QED
    BY <1>0, <1>1, <2>2 DEF ClientStep, TypeOK, StoreTypeOK
<1>2. ASSUME NEW m \in Missions, Realign(m)
      PROVE  TypeOK'
  <2> DEFINE k == mission[m].realigned + 1
  <2>1. mission[m] \in Mission /\ mission[m].realigned \in Nat
    BY DEF TypeOK, Mission
  <2>2. k \in Nat
    BY <2>1
  <2>3. mission' = [mission EXCEPT ![m] = [mission[m] EXCEPT !.realigned = k]]
    BY <1>2 DEF Realign
  <2> HIDE DEF k
  <2>4. [mission[m] EXCEPT !.realigned = k] \in Mission
    BY <2>1, <2>2 DEF Mission
  <2>5. QED
    BY <1>2, <2>3, <2>4 DEF Realign, TypeOK
<1>3. ASSUME NEW w \in Workers, NEW m \in Missions, NEW d \in PlanTemplates,
             ClassifySpecify(w, m, d)
      PROVE  TypeOK'
  <2>1. d \in SUBSET Nodes /\ "classify" \in Ops /\ "specify" \in Phases
    BY ConstantsAssumption DEF ConstantsAssumption, Ops, Phases
  <2>2. StoreTypeOK'
    BY <1>0, <1>3, <2>1, EmptyPayloadType, StepType DEF ClassifySpecify, Step
  <2>3. (calls \subseteq Call)'
    BY <1>0, <1>3, <2>1, CallType DEF ClassifySpecify
  <2>4. QED
    BY <2>2, <2>3 DEF TypeOK, StoreTypeOK
<1>4. ASSUME NEW w \in Workers, NEW m \in Missions, DispatchBegin(w, m)
      PROVE  TypeOK'
  <2>1. mission[m].dag \in SUBSET Nodes /\ "dispatch" \in Ops
    BY DEF TypeOK, Mission, Ops
  <2>2. (calls \subseteq Call)'
    BY <1>0, <1>4, <2>1, CallType DEF DispatchBegin
  <2>3. QED
    BY <1>4, <2>2 DEF DispatchBegin, TypeOK
<1>5. ASSUME NEW w \in Workers, NEW m \in Missions, ProveBegin(w, m)
      PROVE  TypeOK'
  <2>1. {} \in SUBSET Nodes /\ "prove" \in Ops
    BY DEF Ops
  <2>2. (calls \subseteq Call)'
    BY <1>0, <1>5, <2>1, CallType DEF ProveBegin
  <2>3. QED
    BY <1>5, <2>2 DEF ProveBegin, TypeOK
<1>6. ASSUME NEW c \in calls, ClassifyPlan(c) \/ DispatchEnd(c) \/ ProveEnd(c)
      PROVE  TypeOK'
  <2>1. c.mission \in Missions /\ c.dag \in SUBSET Nodes
    BY DEF TypeOK, Call
  <2>2. {"wrapped", "opaque"} \subseteq Reports /\ {"plan", "execute", "verify"} \subseteq Phases
    BY DEF Reports, Phases
  <2>3. /\ PlanPayload(c.dag) \in Payload /\ RunPayload(c.dag) \in Payload
        /\ \A rep \in {"wrapped", "opaque"} : ProofPayload(rep) \in Payload
    BY <2>1, <2>2, HelperPayloadType
  <2>4. StoreTypeOK'
    <3>1. CASE ClassifyPlan(c)
      BY <3>1, <1>0, <2>1, <2>2, <2>3, StepType DEF ClassifyPlan
    <3>2. CASE DispatchEnd(c)
      BY <3>2, <1>0, <2>1, <2>2, <2>3, StepType DEF DispatchEnd
    <3>3. CASE ProveEnd(c)
      BY <3>3, <1>0, <2>1, <2>2, <2>3, StepType DEF ProveEnd
    <3>4. QED
      BY <1>6, <3>1, <3>2, <3>3
  <2>5. (calls \subseteq Call)'
    BY <1>0, <1>6 DEF ClassifyPlan, DispatchEnd, ProveEnd
  <2>6. QED
    BY <2>4, <2>5 DEF TypeOK, StoreTypeOK
<1>7. CASE UNCHANGED vars
  BY <1>7 DEF vars, TypeOK
<1>8. QED
  BY <1>1, <1>2, <1>3, <1>4, <1>5, <1>6, <1>7 DEF StepNext

\* The late write of a dream method, field by field.
LEMMA AssignedFields ==
  ASSUME mission \in [Missions -> Mission], NEW m \in Missions, NEW ph \in Phases,
         mission' = [mission EXCEPT ![m].phase = ph]
  PROVE  /\ mission' \in [Missions -> Mission]
         /\ mission'[m] = [mission[m] EXCEPT !.phase = ph]
         /\ mission'[m].phase = ph
         /\ mission'[m].visited = mission[m].visited
         /\ mission'[m].edits = mission[m].edits
         /\ mission'[m].dag = mission[m].dag /\ mission'[m].trace = mission[m].trace
         /\ mission'[m].contract = mission[m].contract
         /\ mission'[m].report = mission[m].report
         /\ mission'[m].evidence = mission[m].evidence
         /\ mission'[m].sealed = mission[m].sealed /\ mission'[m].seal = mission[m].seal
         /\ \A n \in Missions : n # m => mission'[n] = mission[n]
<1>1. mission'[m] = [mission[m] EXCEPT !.phase = ph] /\ mission[m] \in Mission
  OBVIOUS
<1>2. [mission[m] EXCEPT !.phase = ph] \in Mission
  BY <1>1 DEF Mission
<1>3. QED
  BY <1>1, <1>2 DEF Mission

LEMMA TypeDreamAssign ==
  ASSUME TypeOK, NEW m \in Missions, NEW ph \in Phases, Assigned(m, ph)
  PROVE  TypeOK'
<1>1. mission' \in [Missions -> Mission]
  BY AssignedFields DEF Assigned, TypeOK
<1>2. drifted' \in [Missions -> BOOLEAN]
  <2> DEFINE b == drifted[m] \/ mission[m].phase # ph
  <2>1. drifted' = [drifted EXCEPT ![m] = b] /\ b \in BOOLEAN
    BY DEF Assigned
  <2> HIDE DEF b
  <2>2. QED
    BY <2>1 DEF TypeOK
<1>3. QED
  BY <1>1, <1>2 DEF Assigned, TypeOK

LEMMA TypeNext ==
  ASSUME TypeOK, [Next]_vars
  PROVE  TypeOK'
<1>1. CASE (StepNext \/ UNCHANGED vars) /\ UNCHANGED drifted
  BY <1>1, TypeStepNext
<1>2. ASSUME NEW m \in Missions, NEW ph \in Phases, DreamAssign(m, ph)
      PROVE  TypeOK'
  BY <1>2, TypeDreamAssign DEF DreamAssign
<1>3. QED
  BY <1>1, <1>2 DEF Next, vars

\* Every reachable state is well typed: missions, ledger, pending helper calls.
THEOREM TypeCorrect == Spec => []TypeOK
<1>1. Init => TypeOK
  BY TypeInit
<1>2. TypeOK /\ [Next]_vars => TypeOK'
  BY TypeNext
<1>3. QED
  BY <1>1, <1>2, PTL DEF Spec

-----------------------------------------------------------------------------
(* The inductive invariant.  MergeEarned is not inductive by itself: what a  *)
(* mission owes at merge is collected phase by phase, so the invariant says  *)
(* what every phase has already established.                                 *)

Earned(r) ==
  /\ \A q \in Phases :
       2 <= PhaseIndex(q) /\ PhaseIndex(q) <= PhaseIndex(r.phase) => q \in r.visited
  /\ r.phase \in {"verify", "merge"} => r.dag = {} \/ \A n \in r.dag : r.trace[n] = "allowed"
  /\ r.phase = "merge" => r.covePassed /\ r.evidence # "stale"

UnforcedEarned == \A m \in Missions : ~forced[m] => Earned(mission[m])

\* A dispatching call was made at plan, and a mission that was neither forced nor
\* written back never goes back.
SnapshotInv ==
  \A c \in calls :
    c.op = "dispatch" /\ ~forced[c.mission] /\ ~drifted[c.mission] =>
      /\ PhaseIndex(mission[c.mission].phase) >= 3
      /\ mission[c.mission].phase = "plan" => c.dag = mission[c.mission].dag

IInv ==
  /\ TypeOK
  /\ UnforcedEarned
  /\ RefusalIsTheOnlyLeak
  /\ LedgerMissesNoGate
  /\ SealCoversArtifacts
  /\ SnapshotInv

\* What a transition leaves in the record, field by field.
Writes(r, ph, p, t) ==
  /\ t.phase = ph
  /\ t.visited = r.visited \cup {ph}
  /\ t.edits = r.edits + 1
  /\ t.evidence = IF ph = "verify" THEN p.evidence ELSE r.evidence
  /\ r.phase = "verify" /\ ph = "merge" => t.covePassed
  /\ r.covePassed => t.covePassed
  /\ ph \notin {"plan", "execute"} =>
       t.dag = r.dag /\ t.trace = r.trace /\ t.contract = r.contract
  /\ ph \in {"plan", "execute"} =>
       t.contract = [dag |-> t.dag, trace |-> t.trace]
  /\ ph = "merge" => t.sealed /\ t.seal = t.edits
  /\ ph # "merge" => t.sealed = r.sealed /\ t.seal = r.seal

LEMMA TransitionedFields ==
  ASSUME NEW r \in Mission, NEW ph \in Phases, NEW p \in Payload
  PROVE  Writes(r, ph, p, Transitioned(r, ph, p))
<1> DEFINE e == Entered(r, ph, p)
<1>1. /\ e \in Mission
      /\ e.phase = ph
      /\ e.visited = r.visited \cup {ph}
      /\ e.edits = r.edits + 1
      /\ e.evidence = IF ph = "verify" THEN p.evidence ELSE r.evidence
      /\ e.dag = r.dag /\ e.trace = r.trace /\ e.contract = r.contract
      /\ e.sealed = r.sealed /\ e.seal = r.seal
  <2>1. e \in Mission
    BY EnteredType
  <2>2. /\ e.phase = ph
        /\ e.visited = r.visited \cup {ph}
        /\ e.edits = r.edits + 1
    BY DEF Entered, Mission
  <2>3. e.evidence = IF ph = "verify" THEN p.evidence ELSE r.evidence
    BY DEF Entered, Mission
  <2>4. /\ e.dag = r.dag /\ e.trace = r.trace /\ e.contract = r.contract
        /\ e.sealed = r.sealed /\ e.seal = r.seal
    BY DEF Entered, Mission
  <2>5. QED
    BY <2>1, <2>2, <2>3, <2>4
<1>2. /\ r.phase = "verify" /\ ph = "merge" => e.covePassed
      /\ r.covePassed => e.covePassed
  <2>1. e.covePassed = IF r.phase = "verify" /\ ph = "merge" THEN TRUE ELSE r.covePassed
    BY DEF Entered, Mission
  <2>2. QED
    BY <2>1, Zenon
<1> HIDE DEF e
<1>3. CASE ph = "plan"
  <2>1. Transitioned(r, ph, p) = WithContract(WithDag(e, p))
    BY <1>3 DEF Transitioned, e
  <2>2. QED
    BY <1>1, <1>2, <1>3, <2>1 DEF Writes, WithContract, WithDag, Mission
<1>4. CASE ph = "execute"
  <2>1. Transitioned(r, ph, p) = WithContract(WithTrace(WithDag(e, p), p))
    BY <1>4 DEF Transitioned, e
  <2>2. QED
    BY <1>1, <1>2, <1>4, <2>1 DEF Writes, WithContract, WithTrace, WithDag, Mission
<1>5. CASE ph = "verify"
  <2>1. Transitioned(r, ph, p) = WithReport(e, p)
    BY <1>5 DEF Transitioned, e
  <2>2. QED
    BY <1>1, <1>2, <1>5, <2>1 DEF Writes, WithReport, Mission
<1>6. CASE ph = "merge"
  <2> DEFINE t == Sealed(e)
  <2>1. Transitioned(r, ph, p) = t
    BY <1>6 DEF Transitioned, e
  <2>2. /\ t.phase = e.phase /\ t.visited = e.visited /\ t.edits = e.edits
        /\ t.evidence = e.evidence /\ t.covePassed = e.covePassed
        /\ t.dag = e.dag /\ t.trace = e.trace /\ t.contract = e.contract
    BY <1>1 DEF Sealed, Mission
  <2>3. t.sealed = TRUE /\ t.seal = e.edits
    BY <1>1 DEF Sealed, Mission
  <2> HIDE DEF t
  <2>4. QED
    BY <1>1, <1>2, <1>6, <2>1, <2>2, <2>3 DEF Writes
<1>7. CASE ph \notin {"plan", "execute", "verify", "merge"}
  <2>1. Transitioned(r, ph, p) = e
    BY <1>7 DEF Transitioned, e
  <2>2. QED
    BY <1>1, <1>2, <1>7, <2>1 DEF Writes
<1>8. QED
  BY <1>3, <1>4, <1>5, <1>6, <1>7

\* A step() changes only the mission it names.
LEMMA StepFrame ==
  ASSUME StoreTypeOK,
         NEW m \in Missions, NEW ph \in Phases, NEW p \in Payload,
         NEW ov, NEW cove, Step(m, ph, p, ov, cove),
         NEW n \in Missions, n # m
  PROVE  /\ mission'[n] = mission[n] /\ ledger'[n] = ledger[n]
         /\ forced'[n] = forced[n] /\ refused'[n] = refused[n]
<1>1. CASE UNCHANGED <<mission, ledger, forced, refused>>
  BY <1>1
<1>2. CASE Created(m, ph, p)
  BY <1>2 DEF Created, StoreTypeOK
<1>3. CASE CoveBlocked(m, ph, ov, cove) \/ StaleBlocked(m, ph, ov, cove) \/ NotReadyBlocked(m, ph, ov)
  BY <1>3 DEF CoveBlocked, StaleBlocked, NotReadyBlocked, StoreTypeOK
<1>4. CASE Advanced(m, ph, p, ov, cove)
  BY <1>4 DEF Advanced, StoreTypeOK
<1>5. CASE AdvanceRaised(m, ph, p, ov, cove)
  BY <1>5 DEF AdvanceRaised, StoreTypeOK
<1>6. QED
  BY <1>1, <1>2, <1>3, <1>4, <1>5
     DEF Step, StepOk, StepNotOk, CreationRefused, AlreadyAt, OutOfOrder

\* What the invariant says of one mission.
LocalInv(m) ==
  /\ ~forced[m] => Earned(mission[m])
  /\ ~refused[m] =>
       /\ \/ ledger[m] = mission[m].phase
          \/ drifted[m] /\ mission[m].phase \in {"observe", "propose"}
       /\ mission[m].contract = [dag |-> mission[m].dag, trace |-> mission[m].trace]
  /\ ledger[m] # mission[m].phase =>
       mission[m].phase \in {"observe", "propose", "plan", "execute"}
  /\ mission[m].phase = "merge" => mission[m].sealed /\ mission[m].seal = mission[m].edits
  /\ mission[m].sealed /\ mission[m].phase # "merge" => forced[m] \/ drifted[m]

\* An unforced mission moves forward, and keeps its DAG while it stays.
Forward(m) ==
  ~forced'[m] =>
    /\ ~forced[m]
    /\ PhaseIndex(mission'[m].phase) >= PhaseIndex(mission[m].phase)
    /\ mission'[m].phase = mission[m].phase => mission'[m].dag = mission[m].dag

LEMMA PhaseIndexRange ==
  ASSUME NEW q \in Phases \cup {"absent"}
  PROVE  /\ PhaseIndex(q) \in -1..6
         /\ PhaseIndex(q) = 3 <=> q = "plan"
         /\ PhaseIndex(q) = 4 <=> q = "execute"
         /\ PhaseIndex(q) = 5 <=> q = "verify"
         /\ PhaseIndex(q) = 6 <=> q = "merge"
  BY DEF PhaseIndex, Phases

LEMMA PhaseIndexInjective ==
  ASSUME NEW q \in Phases, NEW s \in Phases, PhaseIndex(q) = PhaseIndex(s)
  PROVE  q = s
  BY DEF PhaseIndex, Phases

\* Admitted without an override: the next phase, with its gates open.
LEMMA UnforcedAdvance ==
  ASSUME NEW r \in Mission, NEW ph \in Phases, NEW p \in Payload, NEW cove,
         r.phase # "absent", Earned(r), Admitted(r, ph, FALSE, cove)
  PROVE  Earned(Transitioned(r, ph, p))
<1> DEFINE t == Transitioned(r, ph, p)
<1>1. PhaseIndex(ph) = PhaseIndex(r.phase) + 1 /\ GatesOpen(r, ph, cove)
  BY DEF Admitted, InOrder
<1>2. Writes(r, ph, p, t)
  BY TransitionedFields
<1>3. r.phase \in Phases \cup {"absent"} /\ r.phase # "merge"
  BY <1>1, PhaseIndexRange DEF Mission
<1> HIDE DEF t
<1>4. \A q \in Phases :
        2 <= PhaseIndex(q) /\ PhaseIndex(q) <= PhaseIndex(t.phase) => q \in t.visited
  <2> SUFFICES ASSUME NEW q \in Phases, 2 <= PhaseIndex(q), PhaseIndex(q) <= PhaseIndex(ph)
               PROVE  q \in t.visited
    BY <1>2 DEF Writes
  <2>1. CASE PhaseIndex(q) = PhaseIndex(ph)
    BY <2>1, <1>2, PhaseIndexInjective DEF Writes
  <2>2. CASE PhaseIndex(q) # PhaseIndex(ph)
    <3>1. PhaseIndex(q) \in -1..6 /\ PhaseIndex(ph) \in -1..6 /\ PhaseIndex(r.phase) \in -1..6
      BY <1>3, PhaseIndexRange
    <3>2. PhaseIndex(q) <= PhaseIndex(r.phase)
      BY <2>2, <3>1, <1>1
    <3>3. QED
      BY <3>2, <1>2 DEF Earned, Writes
  <2>3. QED
    BY <2>1, <2>2
<1>5. ph = "verify" => r.dag = {} \/ \A n \in r.dag : r.trace[n] = "allowed"
  <2>1. ph = "verify" /\ r.dag # {} => ExecutionReady(r.dag, r.trace)
    BY <1>1 DEF GatesOpen
  <2>2. QED
    BY <2>1 DEF ExecutionReady
<1>6. ph = "merge" => r.phase = "verify" /\ EvidenceFresh(r)
  <2>1. /\ PhaseIndex(ph) \in -1..6 /\ (PhaseIndex(ph) = 6 <=> ph = "merge")
        /\ PhaseIndex(r.phase) \in -1..6 /\ (PhaseIndex(r.phase) = 5 <=> r.phase = "verify")
    BY <1>3, PhaseIndexRange
  <2>2. ph = "merge" => r.phase = "verify"
    BY <2>1, <1>1
  <2>3. ph = "merge" => EvidenceFresh(r)
    BY <1>1 DEF GatesOpen
  <2>4. QED
    BY <2>2, <2>3
<1>7. t.phase \in {"verify", "merge"} => t.dag = {} \/ \A n \in t.dag : t.trace[n] = "allowed"
  BY <1>2, <1>5, <1>6 DEF Earned, Writes
<1>8. t.phase = "merge" => t.covePassed /\ t.evidence # "stale"
  BY <1>2, <1>6 DEF EvidenceFresh, Writes
<1>9. QED
  BY <1>4, <1>7, <1>8 DEF Earned, t

LEMMA StepLocal ==
  ASSUME StoreTypeOK,
         NEW m \in Missions, NEW ph \in Phases, NEW p \in Payload,
         NEW ov, NEW cove, Step(m, ph, p, ov, cove), UNCHANGED drifted, LocalInv(m)
  PROVE  LocalInv(m)' /\ Forward(m)
<1> DEFINE r == mission[m]
           s == mission'[m]
<1>0. r \in Mission /\ r.phase \in Phases \cup {"absent"}
  BY DEF StoreTypeOK, Mission
<1>1. CASE UNCHANGED <<mission, ledger, forced, refused>>
  BY <1>0, <1>1, PhaseIndexRange DEF LocalInv, Forward, Earned
<1>2. CASE Created(m, ph, p)
  <2>1. /\ r.phase = "absent"
        /\ ph \in EntryPhases
        /\ s = NewMission(ph, p)
        /\ ledger'[m] = ph /\ forced'[m] = forced[m] /\ refused'[m] = refused[m]
    BY <1>2 DEF Created, Exists, StoreTypeOK
  <2>2. /\ s.phase = ph /\ ph \in s.visited
        /\ s.sealed = FALSE
        /\ s.contract = [dag |-> s.dag, trace |-> s.trace]
    BY <2>1 DEF NewMission, NoMission
  <2>3. /\ PhaseIndex(ph) \in 0..2 /\ PhaseIndex(r.phase) = -1
        /\ ph \notin {"verify", "merge"}
        /\ \A q \in Phases : 2 <= PhaseIndex(q) /\ PhaseIndex(q) <= PhaseIndex(ph) => q = ph
    BY <2>1 DEF PhaseIndex, EntryPhases, Phases
  <2>4. Earned(s)
    BY <2>2, <2>3 DEF Earned
  <2>5. QED
    BY <2>1, <2>2, <2>3, <2>4 DEF LocalInv, Forward
<1>3. CASE CoveBlocked(m, ph, ov, cove) \/ StaleBlocked(m, ph, ov, cove) \/ NotReadyBlocked(m, ph, ov)
  <2>1. ledger'[m] = ledger[m] /\ forced'[m] = forced[m] /\ refused'[m] = refused[m]
    BY <1>3 DEF CoveBlocked, StaleBlocked, NotReadyBlocked
  <2>2. /\ s.phase = r.phase /\ s.visited = r.visited /\ s.edits = r.edits
        /\ s.dag = r.dag /\ s.trace = r.trace /\ s.evidence = r.evidence
        /\ s.sealed = r.sealed /\ s.seal = r.seal
        /\ s.contract \in {r.contract, [dag |-> r.dag, trace |-> r.trace]}
    BY <1>0, <1>3 DEF CoveBlocked, StaleBlocked, NotReadyBlocked, WithContract, StoreTypeOK, Mission
  <2>3. r.covePassed => s.covePassed
    <3>1. CASE CoveBlocked(m, ph, ov, cove)
      <4>1. s.covePassed = r.covePassed
        BY <1>0, <3>1 DEF CoveBlocked, StoreTypeOK, Mission
      <4>2. QED
        BY <4>1, Zenon
    <3>2. CASE StaleBlocked(m, ph, ov, cove)
      <4>1. s.covePassed = TRUE
        BY <1>0, <3>2 DEF StaleBlocked, StoreTypeOK, Mission
      <4>2. QED
        BY <4>1, Zenon
    <3>3. CASE NotReadyBlocked(m, ph, ov)
      <4>1. s.covePassed = r.covePassed
        BY <1>0, <3>3 DEF NotReadyBlocked, WithContract, StoreTypeOK, Mission
      <4>2. QED
        BY <4>1, Zenon
    <3>4. QED
      BY <1>3, <3>1, <3>2, <3>3
  <2> HIDE DEF s
  <2>4. Earned(r) => Earned(s)
    BY <2>2, <2>3 DEF Earned
  <2>5. PhaseIndex(s.phase) = PhaseIndex(r.phase) /\ PhaseIndex(r.phase) \in -1..6
    BY <2>2, <1>0, PhaseIndexRange
  <2>6. QED
    BY <2>1, <2>2, <2>4, <2>5 DEF LocalInv, Forward, s
<1>4. CASE Advanced(m, ph, p, ov, cove)
  <2>1. /\ r.phase # "absent" /\ r.phase # ph
        /\ s = Transitioned(r, ph, p)
        /\ ledger'[m] = ph /\ refused'[m] = refused[m]
    BY <1>4 DEF Advanced, Exists, StoreTypeOK
  <2>2. forced'[m] = IF Admitted(r, ph, FALSE, cove) THEN forced[m] ELSE TRUE
    BY <1>4 DEF Advanced, StoreTypeOK
  <2>3. ~forced'[m] => ~forced[m] /\ Admitted(r, ph, FALSE, cove)
    BY <2>2, Zenon
  <2>4. Writes(r, ph, p, s)
    BY <1>0, <2>1, TransitionedFields
  <2>5. ~forced'[m] => Earned(s)
    BY <1>0, <2>1, <2>3, UnforcedAdvance DEF LocalInv
  <2>6. ~forced'[m] => PhaseIndex(ph) = PhaseIndex(r.phase) + 1
    BY <2>3 DEF Admitted, InOrder
  <2>7. s.phase = ph
    BY <2>4 DEF Writes
  <2>8. ~refused[m] => s.contract = [dag |-> s.dag, trace |-> s.trace]
    BY <2>4 DEF Writes, LocalInv
  <2>9. PhaseIndex(ph) \in -1..6 /\ PhaseIndex(r.phase) \in -1..6
    BY <1>0, PhaseIndexRange
  <2> HIDE DEF s
  <2>10. LocalInv(m)'
    <3>1. ph = "merge" => s.sealed /\ s.seal = s.edits
      BY <2>4 DEF Writes
    <3>2. ph # "merge" /\ s.sealed => forced'[m] \/ drifted[m]
      <4>1. r.sealed => r.phase = "merge" \/ forced[m] \/ drifted[m]
        BY DEF LocalInv
      <4>2. r.phase = "merge" => PhaseIndex(r.phase) = 6
        BY DEF PhaseIndex
      <4>3. ~forced'[m] => ~forced[m] /\ r.phase # "merge"
        <5>1. ~forced'[m] => r.phase # "merge"
          BY <2>6, <2>9, <4>2
        <5>2. QED
          BY <2>3, <5>1, Zenon
      <4>4. ph # "merge" => s.sealed = r.sealed
        BY <2>4 DEF Writes
      <4>5. QED
        BY <4>1, <4>3, <4>4, Zenon
    <3>3. QED
      BY <2>1, <2>5, <2>7, <2>8, <3>1, <3>2, Zenon DEF LocalInv, s
  <2>11. ~forced'[m] => PhaseIndex(s.phase) >= PhaseIndex(r.phase)
    BY <2>6, <2>7, <2>9
  <2>12. s.phase # r.phase
    BY <2>1, <2>7
  <2>13. Forward(m)
    BY <2>3, <2>11, <2>12, Zenon DEF Forward, s
  <2>14. QED
    BY <2>10, <2>13
<1>5. CASE AdvanceRaised(m, ph, p, ov, cove)
  <2>1. /\ r.phase # "absent" /\ r.phase # ph
        /\ s = HalfTransitioned(r, ph, p)
        /\ ph \in {"plan", "execute"}
        /\ ledger'[m] = ledger[m] /\ refused'[m] = TRUE
    BY <1>5 DEF AdvanceRaised, Exists, StoreTypeOK, PayloadRefused
  <2>2. forced'[m] = IF Admitted(r, ph, FALSE, cove) THEN forced[m] ELSE TRUE
    BY <1>5 DEF AdvanceRaised, StoreTypeOK
  <2>3. ~forced'[m] => ~forced[m] /\ Admitted(r, ph, FALSE, cove)
    BY <2>2, Zenon
  <2>4. /\ s.phase = ph /\ s.visited = r.visited \cup {ph}
        /\ s.sealed = r.sealed
    <3> DEFINE e == Entered(r, ph, p)
    <3>1. e \in Mission
      BY <1>0, EnteredType
    <3>2. /\ e.phase = ph /\ e.visited = r.visited \cup {ph}
          /\ e.sealed = r.sealed
      BY <1>0 DEF Entered, Mission
    <3>3. s = e \/ s = WithDag(e, p)
      BY <2>1 DEF HalfTransitioned
    <3> HIDE DEF e, s
    <3>4. CASE s = e
      BY <3>2, <3>4
    <3>5. CASE s = WithDag(e, p)
      BY <3>1, <3>2, <3>5 DEF WithDag, Mission
    <3>6. QED
      BY <3>3, <3>4, <3>5
  <2>5. ~forced'[m] => PhaseIndex(ph) = PhaseIndex(r.phase) + 1
    BY <2>3 DEF Admitted, InOrder
  <2>6. PhaseIndex(ph) \in {3, 4} /\ PhaseIndex(r.phase) \in -1..6
    BY <1>0, <2>1, PhaseIndexRange
  <2> HIDE DEF s
  <2>7. ~forced'[m] => Earned(s)
    <3> SUFFICES ASSUME ~forced'[m] PROVE Earned(s)
      OBVIOUS
    <3>1. Earned(r) /\ r.phase # "merge" /\ PhaseIndex(ph) = PhaseIndex(r.phase) + 1
      <4>1. Earned(r)
        BY <2>3, Zenon DEF LocalInv
      <4>2. PhaseIndex(r.phase) = 6 <=> r.phase = "merge"
        BY <1>0, PhaseIndexRange
      <4>3. QED
        BY <4>1, <4>2, <2>5, <2>6
    <3>2. ASSUME NEW q \in Phases, 2 <= PhaseIndex(q), PhaseIndex(q) <= PhaseIndex(s.phase)
          PROVE  q \in s.visited
      <4>1. PhaseIndex(q) \in -1..6
        BY PhaseIndexRange
      <4>2. CASE PhaseIndex(q) = PhaseIndex(ph)
        BY <4>2, <2>4, PhaseIndexInjective
      <4>3. CASE PhaseIndex(q) # PhaseIndex(ph)
        <5>1. PhaseIndex(q) <= PhaseIndex(r.phase)
          BY <4>1, <4>3, <3>1, <3>2, <2>4, <2>6
        <5>2. QED
          BY <5>1, <3>1, <3>2, <2>4 DEF Earned
      <4>4. QED
        BY <4>2, <4>3
    <3>4. s.phase \notin {"verify", "merge"}
      BY <2>1, <2>4
    <3>5. QED
      BY <3>2, <3>4 DEF Earned
  <2>8. LocalInv(m)'
    <3>1. s.sealed => forced'[m] \/ drifted[m]
      <4>1. r.sealed => r.phase = "merge" \/ forced[m] \/ drifted[m]
        BY DEF LocalInv
      <4>2. r.phase = "merge" => PhaseIndex(r.phase) = 6
        BY DEF PhaseIndex
      <4>3. ~forced'[m] => ~forced[m] /\ r.phase # "merge"
        <5>1. ~forced'[m] => r.phase # "merge"
          BY <2>5, <2>6, <4>2
        <5>2. QED
          BY <2>3, <5>1, Zenon
      <4>4. QED
        BY <2>4, <4>1, <4>3, Zenon
    <3>2. s.phase \in {"plan", "execute"}
      BY <2>1, <2>4
    <3>3. QED
      BY <2>1, <2>7, <3>1, <3>2, Zenon DEF LocalInv, s
  <2>9. ~forced'[m] => PhaseIndex(s.phase) >= PhaseIndex(r.phase)
    BY <2>4, <2>5, <2>6
  <2>10. s.phase # r.phase
    BY <2>1, <2>4
  <2>11. Forward(m)
    BY <2>3, <2>9, <2>10, Zenon DEF Forward, s
  <2>12. QED
    BY <2>8, <2>11
<1>6. QED
  BY <1>1, <1>2, <1>3, <1>4, <1>5
     DEF Step, StepOk, StepNotOk, CreationRefused, AlreadyAt, OutOfOrder

-----------------------------------------------------------------------------
(* The invariant is inductive.                                             *)

\* The part of IInv that does not speak of the pending calls.
StoreInv == StoreTypeOK /\ \A m \in Missions : LocalInv(m)

LEMMA IInvParts ==
  /\ IInv => StoreInv /\ calls \subseteq Call /\ SnapshotInv
  /\ StoreInv /\ drifted \in [Missions -> BOOLEAN] /\ calls \subseteq Call /\ SnapshotInv => IInv
  BY DEF IInv, StoreInv, StoreTypeOK, TypeOK, LocalInv, UnforcedEarned,
         RefusalIsTheOnlyLeak, LedgerMissesNoGate, SealCoversArtifacts

LEMMA StepStore ==
  ASSUME StoreInv,
         NEW m \in Missions, NEW ph \in Phases, NEW p \in Payload,
         NEW ov, NEW cove, Step(m, ph, p, ov, cove), UNCHANGED drifted
  PROVE  StoreInv' /\ \A n \in Missions : Forward(n)
<1>0. StoreTypeOK /\ LocalInv(m)
  BY DEF StoreInv
<1>1. StoreTypeOK'
  BY <1>0, StepType
<1>2. LocalInv(m)' /\ Forward(m)
  BY <1>0, StepLocal
<1>3. ASSUME NEW n \in Missions, n # m
      PROVE  LocalInv(n)' /\ Forward(n)
  <2>1. /\ mission'[n] = mission[n] /\ ledger'[n] = ledger[n]
        /\ forced'[n] = forced[n] /\ refused'[n] = refused[n]
    BY <1>0, <1>3, StepFrame
  <2>2. LocalInv(n)
    BY DEF StoreInv
  <2>3. LocalInv(n)'
    BY <2>1, <2>2 DEF LocalInv
  <2>4. mission[n].phase \in Phases \cup {"absent"}
    BY <1>0 DEF StoreTypeOK, Mission
  <2>5. PhaseIndex(mission[n].phase) \in -1..6
    BY <2>4, PhaseIndexRange
  <2>6. Forward(n)
    BY <2>1, <2>5 DEF Forward
  <2>7. QED
    BY <2>3, <2>6
<1>4. QED
  BY <1>1, <1>2, <1>3 DEF StoreInv

\* A snapshot survives every step that moves missions forward.
SnapshotOf(c) ==
  c.op = "dispatch" /\ ~forced[c.mission] /\ ~drifted[c.mission] =>
    /\ PhaseIndex(mission[c.mission].phase) >= 3
    /\ mission[c.mission].phase = "plan" => c.dag = mission[c.mission].dag

LEMMA SnapshotKept ==
  ASSUME StoreInv, StoreInv', \A n \in Missions : Forward(n), UNCHANGED drifted,
         NEW c \in Call, SnapshotOf(c)
  PROVE  SnapshotOf(c)'
<1> DEFINE m == c.mission
<1>1. m \in Missions
  BY DEF Call
<1>2. mission[m].phase \in Phases \cup {"absent"} /\ mission'[m].phase \in Phases \cup {"absent"}
  BY <1>1 DEF StoreInv, StoreTypeOK, Mission
<1>3. /\ PhaseIndex(mission[m].phase) \in -1..6 /\ PhaseIndex(mission'[m].phase) \in -1..6
      /\ PhaseIndex(mission[m].phase) = 3 <=> mission[m].phase = "plan"
      /\ PhaseIndex(mission'[m].phase) = 3 <=> mission'[m].phase = "plan"
  BY <1>2, PhaseIndexRange
<1>4. SUFFICES ASSUME c.op = "dispatch", ~forced'[m], ~drifted[m]
               PROVE  /\ PhaseIndex(mission'[m].phase) >= 3
                      /\ mission'[m].phase = "plan" => c.dag = mission'[m].dag
  BY Zenon DEF SnapshotOf
<1>5. /\ ~forced[m]
      /\ PhaseIndex(mission'[m].phase) >= PhaseIndex(mission[m].phase)
      /\ mission'[m].phase = mission[m].phase => mission'[m].dag = mission[m].dag
  BY <1>1, <1>4 DEF Forward
<1>6. /\ PhaseIndex(mission[m].phase) >= 3
      /\ mission[m].phase = "plan" => c.dag = mission[m].dag
  BY <1>4, <1>5, Zenon DEF SnapshotOf
<1>7. QED
  BY <1>3, <1>5, <1>6

\* The pending calls survive a step() made by a client or by one of them.
LEMMA SnapshotsAfterStep ==
  ASSUME IInv, TypeOK', NEW m \in Missions, NEW ph \in Phases, NEW p \in Payload,
         NEW ov, NEW cove, Step(m, ph, p, ov, cove), UNCHANGED drifted,
         \A c \in calls' : c \in calls \/ c.op # "dispatch"
  PROVE  IInv'
<1>1. StoreInv /\ calls \subseteq Call /\ SnapshotInv
  BY IInvParts
<1>2. StoreInv' /\ \A n \in Missions : Forward(n)
  BY <1>1, StepStore
<1>3. SnapshotInv'
  <2> SUFFICES ASSUME NEW c \in calls' PROVE SnapshotOf(c)'
    BY DEF SnapshotInv, SnapshotOf
  <2>1. CASE c \in calls
    <3>1. c \in Call /\ SnapshotOf(c)
      BY <1>1, <2>1 DEF SnapshotInv, SnapshotOf
    <3>2. QED
      BY <1>1, <1>2, <3>1, SnapshotKept
  <2>2. CASE c.op # "dispatch"
    BY <2>2 DEF SnapshotOf
  <2>3. QED
    BY <2>1, <2>2
<1>4. (calls \subseteq Call)' /\ (drifted \in [Missions -> BOOLEAN])'
  BY DEF TypeOK
<1>5. QED
  BY <1>2, <1>3, <1>4, IInvParts, PTL

LEMMA IInvInit == Init => IInv
<1> SUFFICES ASSUME Init PROVE IInv
  OBVIOUS
<1>1. TypeOK
  <2>1. NoMission \in Mission
    BY NoTraceType DEF NoMission, Mission, Reports, Evidence
  <2>2. QED
    BY <2>1 DEF Init, TypeOK
<1>2. ASSUME NEW m \in Missions
      PROVE  /\ Earned(mission[m])
             /\ mission[m].phase # "merge" /\ ~mission[m].sealed
             /\ ledger[m] = mission[m].phase
             /\ mission[m].contract = [dag |-> mission[m].dag, trace |-> mission[m].trace]
  <2>1. mission[m] = NoMission /\ ledger[m] = "absent"
    BY DEF Init
  <2>2. /\ NoMission.phase = "absent" /\ NoMission.sealed = FALSE
        /\ NoMission.contract = [dag |-> NoMission.dag, trace |-> NoMission.trace]
    BY DEF NoMission
  <2>3. PhaseIndex("absent") = -1
    BY DEF PhaseIndex
  <2>4. Earned(NoMission)
    <3>1. ASSUME NEW q \in Phases, 2 <= PhaseIndex(q), PhaseIndex(q) <= PhaseIndex("absent")
          PROVE  FALSE
      <4>1. PhaseIndex(q) \in -1..6
        BY PhaseIndexRange
      <4>2. QED
        BY <2>3, <3>1, <4>1
    <3>2. QED
      BY <2>2, <3>1 DEF Earned
  <2>5. QED
    BY <2>1, <2>2, <2>4
<1>3. UnforcedEarned /\ RefusalIsTheOnlyLeak /\ LedgerMissesNoGate /\ SealCoversArtifacts
  BY <1>2 DEF UnforcedEarned, RefusalIsTheOnlyLeak, LedgerMissesNoGate, SealCoversArtifacts
<1>4. SnapshotInv
  BY DEF Init, SnapshotInv
<1>5. QED
  BY <1>1, <1>3, <1>4 DEF IInv

LEMMA IInvStepNext ==
  ASSUME IInv, StepNext \/ UNCHANGED vars, UNCHANGED drifted, TypeOK'
  PROVE  IInv'
<1>0. TypeOK /\ SnapshotInv /\ calls \subseteq Call
  BY DEF IInv, TypeOK
<1>1. ASSUME NEW m \in Missions, NEW ph \in Phases, NEW ov \in Overrides,
             NEW cove \in CovesFor(ph), NEW p \in PayloadFor[ph],
             ClientStep(m, ph, p, ov, cove)
      PROVE  IInv'
  <2>1. p \in Payload
    BY ConstantsAssumption DEF ConstantsAssumption
  <2>2. QED
    BY <1>1, <2>1, SnapshotsAfterStep DEF ClientStep
<1>2. ASSUME NEW m \in Missions, Realign(m)
      PROVE  IInv'
  <2>1. ASSUME NEW n \in Missions
        PROVE  /\ mission'[n].phase = mission[n].phase
               /\ mission'[n].visited = mission[n].visited
               /\ mission'[n].dag = mission[n].dag /\ mission'[n].trace = mission[n].trace
               /\ mission'[n].contract = mission[n].contract
               /\ mission'[n].evidence = mission[n].evidence
               /\ mission'[n].sealed = mission[n].sealed
               /\ mission'[n].seal = mission[n].seal
               /\ mission'[n].edits = mission[n].edits
               /\ mission'[n].covePassed = mission[n].covePassed
    BY <1>2 DEF Realign, TypeOK, Mission
  <2>2. calls' = calls /\ forced' = forced /\ ledger' = ledger /\ refused' = refused
    BY <1>2 DEF Realign
  <2>3. ASSUME NEW n \in Missions, Earned(mission[n])
        PROVE  Earned(mission'[n])
    <3>1. mission'[n].covePassed = mission[n].covePassed
      BY <2>1
    <3>2. mission[n].covePassed => mission'[n].covePassed
      BY <3>1, Zenon
    <3>3. QED
      BY <2>1, <2>3, <3>2 DEF Earned
  <2>4. UnforcedEarned'
    BY <2>2, <2>3 DEF IInv, UnforcedEarned
  <2>5. RefusalIsTheOnlyLeak' /\ LedgerMissesNoGate' /\ SealCoversArtifacts'
    BY <2>1, <2>2 DEF IInv, RefusalIsTheOnlyLeak, LedgerMissesNoGate, SealCoversArtifacts
  <2>6. SnapshotInv'
    <3>1. \A c \in calls : c.mission \in Missions
      BY <1>0 DEF Call
    <3>2. QED
      BY <1>0, <2>1, <2>2, <3>1 DEF SnapshotInv
  <2>7. QED
    BY <2>4, <2>5, <2>6 DEF IInv
<1>3. ASSUME NEW w \in Workers, NEW m \in Missions, NEW d \in PlanTemplates,
             ClassifySpecify(w, m, d)
      PROVE  IInv'
  <2>1. Step(m, "specify", EmptyPayload, FALSE, "none") /\ "specify" \in Phases
    BY <1>3 DEF ClassifySpecify, Step, Phases
  <2>2. \A c \in calls' : c \in calls \/ c.op # "dispatch"
    BY <1>3 DEF ClassifySpecify, Suspend
  <2>3. QED
    BY <2>1, <2>2, EmptyPayloadType, SnapshotsAfterStep
<1>4. ASSUME NEW w \in Workers, NEW m \in Missions, DispatchBegin(w, m)
      PROVE  IInv'
  <2>1. /\ mission' = mission /\ forced' = forced /\ ledger' = ledger /\ refused' = refused
        /\ mission[m].phase = "plan"
        /\ calls' = calls \cup
             {[worker |-> w, op |-> "dispatch", mission |-> m, dag |-> mission[m].dag]}
    BY <1>4 DEF DispatchBegin, Suspend
  <2>2. PhaseIndex("plan") = 3
    BY DEF PhaseIndex
  <2>3. SnapshotInv'
    BY <1>0, <2>1, <2>2 DEF SnapshotInv
  <2>4. QED
    BY <2>1, <2>3 DEF IInv, UnforcedEarned, RefusalIsTheOnlyLeak, LedgerMissesNoGate,
                      SealCoversArtifacts
<1>5. ASSUME NEW w \in Workers, NEW m \in Missions, ProveBegin(w, m)
      PROVE  IInv'
  <2>1. /\ mission' = mission /\ forced' = forced /\ ledger' = ledger /\ refused' = refused
        /\ calls' = calls \cup
             {[worker |-> w, op |-> "prove", mission |-> m, dag |-> {}]}
    BY <1>5 DEF ProveBegin, Suspend
  <2>2. SnapshotInv'
    BY <1>0, <2>1 DEF SnapshotInv
  <2>3. QED
    BY <2>1, <2>2 DEF IInv, UnforcedEarned, RefusalIsTheOnlyLeak, LedgerMissesNoGate,
                      SealCoversArtifacts
<1>6. ASSUME NEW c \in calls, ClassifyPlan(c) \/ DispatchEnd(c) \/ ProveEnd(c)
      PROVE  IInv'
  <2>1. c.mission \in Missions /\ c.dag \in SUBSET Nodes
    BY <1>0 DEF Call
  <2>2. {"wrapped", "opaque"} \subseteq Reports /\ {"plan", "execute", "verify"} \subseteq Phases
    BY DEF Reports, Phases
  <2>3. /\ PlanPayload(c.dag) \in Payload /\ RunPayload(c.dag) \in Payload
        /\ \A rep \in {"wrapped", "opaque"} : ProofPayload(rep) \in Payload
    BY <2>1, <2>2, HelperPayloadType
  <2>4. \A b \in calls' : b \in calls \/ b.op # "dispatch"
    BY <1>6 DEF ClassifyPlan, DispatchEnd, ProveEnd
  <2>5. CASE ClassifyPlan(c)
    BY <2>1, <2>2, <2>3, <2>4, <2>5, SnapshotsAfterStep DEF ClassifyPlan
  <2>6. CASE DispatchEnd(c)
    BY <2>1, <2>2, <2>3, <2>4, <2>6, SnapshotsAfterStep DEF DispatchEnd
  <2>7. CASE ProveEnd(c)
    BY <2>1, <2>2, <2>3, <2>4, <2>7, SnapshotsAfterStep DEF ProveEnd
  <2>8. QED
    BY <1>6, <2>5, <2>6, <2>7
<1>7. CASE UNCHANGED vars
  BY <1>7 DEF vars, IInv, TypeOK, UnforcedEarned, RefusalIsTheOnlyLeak,
              LedgerMissesNoGate, SealCoversArtifacts, SnapshotInv
<1>8. QED
  BY <1>1, <1>2, <1>3, <1>4, <1>5, <1>6, <1>7 DEF StepNext

\* The late write of a dream method goes back to a phase before specify, which
\* owes nothing, or leaves the mission where it is.
LEMMA DreamAssignKeeps ==
  ASSUME IInv, TypeOK', NEW m \in Missions, NEW ph \in Phases, DreamAssign(m, ph)
  PROVE  IInv'
<1>0. TypeOK /\ mission \in [Missions -> Mission] /\ StoreInv /\ SnapshotInv /\ calls \subseteq Call
  BY IInvParts DEF IInv, TypeOK
<1>1. /\ mission' = [mission EXCEPT ![m].phase = ph] /\ ph \in {"observe", "propose"}
      /\ drifted' = [drifted EXCEPT ![m] = drifted[m] \/ mission[m].phase # ph]
      /\ UNCHANGED <<ledger, calls, forced, refused>>
  BY DEF DreamAssign, Assigned
<1>2. /\ mission'[m].phase = ph
      /\ mission'[m].dag = mission[m].dag /\ mission'[m].trace = mission[m].trace
      /\ mission'[m].contract = mission[m].contract
      /\ mission'[m].sealed = mission[m].sealed
      /\ \A n \in Missions : n # m => mission'[n] = mission[n]
  BY <1>0, <1>1, AssignedFields
<1>3. /\ drifted'[m] <=> (drifted[m] \/ mission[m].phase # ph)
      /\ \A n \in Missions : n # m => drifted'[n] = drifted[n]
  BY <1>0, <1>1, Zenon DEF TypeOK
<1>4. LocalInv(m) /\ \A n \in Missions : LocalInv(n)
  BY <1>0 DEF StoreInv
<1>5. LocalInv(m)'
  <2>1. Earned(mission'[m])
    <3>1. \A q \in Phases : ~(2 <= PhaseIndex(q) /\ PhaseIndex(q) <= PhaseIndex(ph))
      BY <1>1 DEF PhaseIndex, Phases
    <3>2. QED
      BY <1>1, <1>2, <3>1 DEF Earned
  <2>2. ledger'[m] = ledger[m] /\ forced'[m] = forced[m] /\ refused'[m] = refused[m]
    BY <1>1
  <2>3. ledger[m] = ph \/ drifted'[m] \/ refused[m]
    BY <1>1, <1>3, <1>4 DEF LocalInv
  <2>4. mission[m].sealed => forced[m] \/ drifted'[m]
    BY <1>1, <1>3, <1>4 DEF LocalInv
  <2>5. ph # "merge"
    BY <1>1
  <2>6. QED
    BY <1>1, <1>2, <1>4, <2>1, <2>2, <2>3, <2>4, <2>5 DEF LocalInv
<1>6. ASSUME NEW n \in Missions, n # m PROVE LocalInv(n)'
  BY <1>1, <1>2, <1>3, <1>4, <1>6 DEF LocalInv
<1>7. StoreInv'
  BY <1>5, <1>6 DEF StoreInv, StoreTypeOK, TypeOK
<1>8. SnapshotInv'
  <2> SUFFICES ASSUME NEW c \in calls PROVE SnapshotOf(c)'
    BY <1>1 DEF SnapshotInv, SnapshotOf
  <2>1. SnapshotOf(c) /\ c.mission \in Missions
    BY <1>0 DEF SnapshotInv, SnapshotOf, Call
  <2>2. CASE c.mission = m
    BY <1>1, <1>2, <1>3, <2>1, <2>2 DEF SnapshotOf
  <2>3. CASE c.mission # m
    BY <1>1, <1>2, <1>3, <2>1, <2>3 DEF SnapshotOf
  <2>4. QED
    BY <2>2, <2>3
<1>9. QED
  <2>1. (calls \subseteq Call)' /\ (drifted \in [Missions -> BOOLEAN])'
    BY DEF TypeOK
  <2>2. QED
    BY <1>7, <1>8, <2>1, IInvParts, PTL

LEMMA IInvNext ==
  ASSUME IInv, [Next]_vars, TypeOK'
  PROVE  IInv'
<1>1. CASE (StepNext \/ UNCHANGED vars) /\ UNCHANGED drifted
  BY <1>1, IInvStepNext
<1>2. ASSUME NEW m \in Missions, NEW ph \in Phases, DreamAssign(m, ph)
      PROVE  IInv'
  BY <1>2, DreamAssignKeeps
<1>3. QED
  BY <1>1, <1>2 DEF Next, vars

-----------------------------------------------------------------------------
(* The theorems.                                                           *)

\* IInv holds in every reachable state.
LEMMA Invariance == Spec => []IInv
<1>1. IInv /\ TypeOK' /\ [Next]_vars => IInv'
  BY IInvNext
<1>2. QED
  BY <1>1, IInvInit, TypeCorrect, PTL DEF Spec

LEMMA IInvConsequences ==
  IInv => MergeEarned /\ DispatchSnapshotCurrent
<1> SUFFICES ASSUME IInv
             PROVE  MergeEarned /\ DispatchSnapshotCurrent
  OBVIOUS
<1>1. ASSUME NEW m \in Missions, mission[m].phase = "merge", ~forced[m]
      PROVE  /\ {"specify", "plan", "execute", "verify", "merge"} \subseteq mission[m].visited
             /\ mission[m].dag = {} \/ \A n \in mission[m].dag : mission[m].trace[n] = "allowed"
             /\ mission[m].covePassed
             /\ EvidenceFresh(mission[m])
  <2>1. Earned(mission[m])
    BY <1>1 DEF IInv, UnforcedEarned
  <2>3. ASSUME NEW q \in {"specify", "plan", "execute", "verify", "merge"}
        PROVE  q \in mission[m].visited
    <3>1. q \in Phases /\ 2 <= PhaseIndex(q) /\ PhaseIndex(q) <= PhaseIndex("merge")
      BY DEF Phases, PhaseIndex
    <3>2. QED
      BY <1>1, <2>1, <3>1 DEF Earned
  <2>4. QED
    BY <1>1, <2>1, <2>3 DEF Earned, EvidenceFresh
<1>2. MergeEarned
  BY <1>1 DEF MergeEarned
<1>3. DispatchSnapshotCurrent
  BY DEF IInv, SnapshotInv, DispatchSnapshotCurrent
<1>4. QED
  BY <1>2, <1>3

\* No interleaving of clients, helper calls, refused payloads, blocked merges,
\* realignments and late writes of the dream methods brings a mission that was
\* never forced to merge without every phase, an allowed verdict for each node
\* of the plan it carries, the CoVE gate and fresh evidence: the gates of step()
\* compose, on the first walk and on every walk after a mission was reopened.
THEOREM MergeIsEarned == Spec => []MergeEarned
  BY Invariance, IInvConsequences, PTL

\* A mission shown at merge carries the seal of the artifacts it has, after any
\* number of overrides and reopenings, and only an override or the late write of
\* a dream method takes a sealed mission away from merge.
THEOREM SealIsCurrent == Spec => []SealCoversArtifacts
  BY Invariance, PTL DEF IInv

\* Without a normaliser raising inside a transition, the ledger replays to the
\* current phase, unless a dream method assigned observe or propose, and the
\* stored contract matches the stored DAG and trace.
THEOREM RefusalIsTheOnlyLeakProved == Spec => []RefusalIsTheOnlyLeak
  BY Invariance, PTL DEF IInv

\* The phase a mission shows and the ledger misses is a refused plan or execute,
\* or an observe or propose assigned by a dream method; the verify or merge that
\* a mission shows is recorded in every history, forced or not.
THEOREM GatesAreLogged == Spec => []LedgerMissesNoGate
  BY Invariance, PTL DEF IInv

\* The unlocked copy of the DAG that execute_plan_with_routing works on is never
\* behind the plan in force, for any number of threads, unless a client forced
\* the mission or a dream method's late write sent it back to be planned again.
THEOREM SnapshotIsCurrent == Spec => []DispatchSnapshotCurrent
  BY Invariance, IInvConsequences, PTL

-----------------------------------------------------------------------------
(* The action property.                                                    *)

\* What VerifiedWorkIsFrozen says of one mission.
Frozen(m) ==
  ~forced'[m] =>
    /\ mission[m].phase \in {"verify", "merge"} =>
         /\ mission'[m].dag = mission[m].dag
         /\ mission'[m].trace = mission[m].trace
         /\ mission'[m].report = mission[m].report
         /\ mission'[m].evidence = mission[m].evidence
    /\ mission[m].phase = "merge" =>
         \/ mission'[m] = mission[m]
         \/ \E ph \in {"observe", "propose"} : mission'[m] = [mission[m] EXCEPT !.phase = ph]

\* A transition to merge keeps the report; no unforced transition leaves merge.
LEMMA MergedReport ==
  ASSUME NEW r \in Mission, NEW p \in Payload
  PROVE  Transitioned(r, "merge", p).report = r.report
<1> DEFINE e == Entered(r, "merge", p)
<1>1. e \in Mission
  BY EnteredType DEF Phases
<1>2. e.report = r.report
  BY DEF Entered, Mission
<1> HIDE DEF e
<1>3. Sealed(e).report = e.report
  BY <1>1 DEF Sealed, Mission
<1> QED BY <1>2, <1>3 DEF Transitioned, e

LEMMA StepFrozen ==
  ASSUME StoreTypeOK,
         NEW m \in Missions, NEW ph \in Phases, NEW p \in Payload,
         NEW ov, NEW cove, Step(m, ph, p, ov, cove)
  PROVE  Frozen(m)
<1> DEFINE r == mission[m]
           s == mission'[m]
<1>0. r \in Mission /\ r.phase \in Phases \cup {"absent"}
  BY DEF StoreTypeOK, Mission
<1>1. CASE UNCHANGED <<mission, ledger, forced, refused>>
  BY <1>1 DEF Frozen
<1>2. CASE Created(m, ph, p)
  BY <1>0, <1>2 DEF Created, Exists, Frozen
<1>3. CASE CoveBlocked(m, ph, ov, cove) \/ StaleBlocked(m, ph, ov, cove) \/ NotReadyBlocked(m, ph, ov)
  <2>1. /\ s.dag = r.dag /\ s.trace = r.trace /\ s.evidence = r.evidence /\ s.report = r.report
        /\ forced'[m] = forced[m]
    BY <1>0, <1>3 DEF CoveBlocked, StaleBlocked, NotReadyBlocked, WithContract, StoreTypeOK, Mission
  <2>2. r.phase # "merge"
    BY <1>3 DEF CoveBlocked, StaleBlocked, NotReadyBlocked, InOrder, PhaseIndex
  <2> QED BY <1>0, <2>1, <2>2 DEF Frozen
<1>4. CASE Advanced(m, ph, p, ov, cove)
  <2>1. s = Transitioned(r, ph, p)
    BY <1>4 DEF Advanced, StoreTypeOK
  <2>2. forced'[m] = IF Admitted(r, ph, FALSE, cove) THEN forced[m] ELSE TRUE
    BY <1>4 DEF Advanced, StoreTypeOK
  <2>3. ~forced'[m] => ~forced[m] /\ Admitted(r, ph, FALSE, cove)
    BY <2>2, Zenon
  <2>4. ~forced'[m] => PhaseIndex(ph) = PhaseIndex(r.phase) + 1
    BY <2>3 DEF Admitted, InOrder
  <2>5. PhaseIndex(ph) \in -1..6
    BY PhaseIndexRange
  <2>6. ~forced'[m] => r.phase # "merge" /\ (r.phase = "verify" => ph = "merge")
    <3>1. PhaseIndex("merge") = 6 /\ PhaseIndex("verify") = 5
      BY DEF PhaseIndex
    <3> QED BY <2>4, <2>5, <3>1, PhaseIndexRange
  <2>7. ph = "merge" => /\ s.dag = r.dag /\ s.trace = r.trace
                        /\ s.evidence = r.evidence /\ s.report = r.report
    <3>1. Writes(r, ph, p, s)
      BY <1>0, <2>1, TransitionedFields
    <3>2. ph = "merge" => s.report = r.report
      BY <1>0, <2>1, MergedReport
    <3> HIDE DEF s
    <3> QED BY <3>1, <3>2 DEF Writes
  <2> HIDE DEF s
  <2> QED BY <2>6, <2>7 DEF Frozen, s
<1>5. CASE AdvanceRaised(m, ph, p, ov, cove)
  <2>1. forced'[m] = IF Admitted(r, ph, FALSE, cove) THEN forced[m] ELSE TRUE
    BY <1>5 DEF AdvanceRaised, StoreTypeOK
  <2>2. ~forced'[m] => ~forced[m] /\ Admitted(r, ph, FALSE, cove)
    BY <2>1, Zenon
  <2>3. ~forced'[m] => PhaseIndex(ph) = PhaseIndex(r.phase) + 1
    BY <2>2 DEF Admitted, InOrder
  <2>4. PhaseIndex(ph) \in {3, 4}
    BY <1>5 DEF AdvanceRaised, PayloadRefused, PhaseIndex
  <2>5. ~forced'[m] => r.phase \notin {"verify", "merge"}
    <3>1. PhaseIndex("merge") = 6 /\ PhaseIndex("verify") = 5
      BY DEF PhaseIndex
    <3> QED BY <2>3, <2>4, <3>1
  <2> HIDE DEF s
  <2> QED BY <2>5 DEF Frozen
<1> QED BY <1>1, <1>2, <1>3, <1>4, <1>5
     DEF Step, StepOk, StepNotOk, CreationRefused, AlreadyAt, OutOfOrder

LEMMA FrozenByStep ==
  ASSUME IInv, NEW m \in Missions, NEW ph \in Phases, NEW p \in Payload,
         NEW ov, NEW cove, Step(m, ph, p, ov, cove)
  PROVE  \A n \in Missions : Frozen(n)
<1>1. StoreTypeOK
  BY IInvParts DEF StoreInv
<1>2. Frozen(m)
  BY <1>1, StepFrozen
<1>3. ASSUME NEW n \in Missions, n # m PROVE Frozen(n)
  BY <1>1, <1>3, StepFrame DEF Frozen
<1> QED BY <1>2, <1>3

\* What the gates judged stays in a mission at verify or merge that is not forced,
\* whatever call of a helper is still under way: the ones that come late are
\* refused.  Only the phase of a merged one can move, by the late write of a
\* dream method.
THEOREM VerifiedWorkStaysFrozen == Spec => VerifiedWorkIsFrozen
<1>1. ASSUME IInv, Next PROVE \A m \in Missions : Frozen(m)
  <2>0. TypeOK /\ calls \subseteq Call /\ mission \in [Missions -> Mission]
    BY <1>1 DEF IInv, TypeOK
  <2>1. ASSUME NEW m \in Missions, NEW ph \in Phases, NEW ov \in Overrides,
               NEW cove \in CovesFor(ph), NEW p \in PayloadFor[ph],
               ClientStep(m, ph, p, ov, cove)
        PROVE  \A n \in Missions : Frozen(n)
    <3>1. p \in Payload
      BY ConstantsAssumption DEF ConstantsAssumption
    <3> QED BY <1>1, <2>1, <3>1, FrozenByStep DEF ClientStep
  <2>2. ASSUME NEW m \in Missions, Realign(m), NEW n \in Missions
        PROVE  Frozen(n)
    <3>1. /\ mission'[n].dag = mission[n].dag /\ mission'[n].trace = mission[n].trace
          /\ mission'[n].report = mission[n].report /\ mission'[n].evidence = mission[n].evidence
          /\ mission[n].phase = "merge" => n # m
          /\ n # m => mission'[n] = mission[n]
      BY <1>1, <2>0, <2>2 DEF Realign, Mission, IInv, SealCoversArtifacts
    <3> QED BY <3>1 DEF Frozen
  <2>3. ASSUME NEW w \in Workers, NEW m \in Missions, NEW d \in PlanTemplates,
               ClassifySpecify(w, m, d)
        PROVE  \A n \in Missions : Frozen(n)
    <3>1. Step(m, "specify", EmptyPayload, FALSE, "none") /\ "specify" \in Phases
      BY <2>3 DEF ClassifySpecify, Step, Phases
    <3> QED BY <1>1, <3>1, EmptyPayloadType, FrozenByStep
  <2>4. ASSUME NEW w \in Workers, NEW m \in Missions, DispatchBegin(w, m) \/ ProveBegin(w, m)
        PROVE  \A n \in Missions : Frozen(n)
    BY <2>4 DEF DispatchBegin, ProveBegin, Frozen
  <2>5. ASSUME NEW c \in calls, ClassifyPlan(c) \/ DispatchEnd(c) \/ ProveEnd(c)
        PROVE  \A n \in Missions : Frozen(n)
    <3>1. c.mission \in Missions /\ c.dag \in SUBSET Nodes
      BY <2>0 DEF Call
    <3>2. {"wrapped", "opaque"} \subseteq Reports /\ {"plan", "execute", "verify"} \subseteq Phases
      BY DEF Reports, Phases
    <3>3. /\ PlanPayload(c.dag) \in Payload /\ RunPayload(c.dag) \in Payload
          /\ \A rep \in {"wrapped", "opaque"} : ProofPayload(rep) \in Payload
      BY <3>1, <3>2, HelperPayloadType
    <3>4. CASE ClassifyPlan(c)
      BY <1>1, <3>1, <3>2, <3>3, <3>4, FrozenByStep DEF ClassifyPlan
    <3>5. CASE DispatchEnd(c)
      BY <1>1, <3>1, <3>2, <3>3, <3>5, FrozenByStep DEF DispatchEnd
    <3>6. CASE ProveEnd(c)
      BY <1>1, <3>1, <3>2, <3>3, <3>6, FrozenByStep DEF ProveEnd
    <3> QED BY <2>5, <3>4, <3>5, <3>6
  <2>6. ASSUME NEW m \in Missions, NEW ph \in Phases, DreamAssign(m, ph), NEW n \in Missions
        PROVE  Frozen(n)
    <3>1. ph \in {"observe", "propose"} /\ mission' = [mission EXCEPT ![m].phase = ph]
      BY <2>6 DEF DreamAssign, Assigned
    <3>2. CASE n = m
      BY <2>0, <3>1, <3>2, AssignedFields DEF Frozen
    <3>3. CASE n # m
      BY <2>0, <3>1, <3>3, AssignedFields DEF Frozen
    <3> QED BY <3>2, <3>3
  <2> QED BY <1>1, <2>1, <2>2, <2>3, <2>4, <2>5, <2>6 DEF Next, StepNext
<1>2. IInv /\ [Next]_vars => [\A m \in Missions : Frozen(m)]_vars
  BY <1>1
<1>3. Spec => [][\A m \in Missions : Frozen(m)]_vars
  BY <1>2, Invariance, PTL DEF Spec
<1> QED BY <1>3 DEF Frozen, VerifiedWorkIsFrozen
=============================================================================
