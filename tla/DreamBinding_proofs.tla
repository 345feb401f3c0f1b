------------------------ MODULE DreamBinding_proofs ------------------------
(***************************************************************************)
(* Proofs about DreamBinding: the types of the dream state, and that every *)
(* stored proposal above advisory is justified by its own rule; that the   *)
(* phases assigned without step() were entered through it before, and what *)
(* those assignments can hide from the ledger.  All for any number of      *)
(* threads, missions, findings and proposal batches.  With one thread of   *)
(* dream calls, step by step, that the proposals climb PromotionLadder.    *)
(***************************************************************************)
EXTENDS DreamBinding, InstinctLifecycle_proofs, TLAPS

-----------------------------------------------------------------------------
(* The promotion rules, as facts about one proposal.                       *)

Justified(p) ==
  p.status # "advisory" =>
    /\ CovePassed(p.cove)
    /\ p.rule = "auto" => p.band = "high"
    /\ p.rule = "manual" => p.token = "valid"
    /\ p.rule = "vote" => p.votes = "quorum"

LEMMA NewProposalType ==
  ASSUME NEW b \in Bands, NEW r \in Rules
  PROVE  NewProposal(b, r) \in Proposal /\ Justified(NewProposal(b, r))
  BY DEF NewProposal, Proposal, Statuses, CoveVerdicts, Tokens, Votes, Justified

LEMMA WithCredentialsFields ==
  ASSUME NEW p \in Proposal, NEW cred \in Credential
  PROVE  LET t == WithCredentials(p, cred) IN
         /\ t \in Proposal
         /\ t.status = p.status /\ t.band = p.band /\ t.rule = p.rule /\ t.cove = p.cove
         /\ t.token = IF cred.token # "none" THEN cred.token ELSE p.token
         /\ t.votes = IF cred.votes # "none" THEN cred.votes ELSE p.votes
  BY DEF WithCredentials, Proposal, Credential

\* Whatever promote_to_candidate and promote_to_binding make of a justified
\* proposal is justified.
LEMMA PromotedJustified ==
  ASSUME NEW p \in Proposal, NEW target \in Statuses, NEW cred \in Credential, Justified(p)
  PROVE  Promoted(p, target, cred) \in Proposal /\ Justified(Promoted(p, target, cred))
<1> DEFINE q == [p EXCEPT !.cove = cred.cove]
           s == [q EXCEPT !.status = target]
<1>1. /\ q \in Proposal /\ q.status = p.status /\ q.band = p.band /\ q.rule = p.rule
      /\ q.token = p.token /\ q.votes = p.votes /\ q.cove = cred.cove
  BY DEF Proposal, Credential
<1>2. /\ s \in Proposal /\ s.status = target /\ s.band = p.band /\ s.rule = p.rule
      /\ s.token = p.token /\ s.votes = p.votes /\ s.cove = cred.cove
  BY <1>1 DEF Proposal
<1>3. CASE p.status # Below(target) \/ ~CovePassed(cred.cove)
  <2>1. Promoted(p, target, cred) = p
    BY <1>3 DEF Promoted
  <2>2. QED
    BY <2>1
<1>4. CASE /\ p.status = Below(target) /\ CovePassed(cred.cove)
           /\ ~Eligible(p, cred)
  <2>1. Promoted(p, target, cred) = q
    BY <1>4 DEF Promoted
  <2>2. Justified(q)
    BY <1>1, <1>4 DEF Justified
  <2>3. QED
    BY <1>1, <2>1, <2>2
<1>5. CASE /\ p.status = Below(target) /\ CovePassed(cred.cove)
           /\ Eligible(p, cred)
  <2>1. Promoted(p, target, cred) = WithCredentials(s, cred)
    BY <1>5 DEF Promoted
  <2> HIDE DEF s
  <2> DEFINE t == WithCredentials(s, cred)
  <2>2. /\ t \in Proposal
        /\ t.status = target /\ t.band = p.band /\ t.rule = p.rule /\ t.cove = cred.cove
        /\ t.token = IF cred.token # "none" THEN cred.token ELSE p.token
        /\ t.votes = IF cred.votes # "none" THEN cred.votes ELSE p.votes
    BY <1>2, WithCredentialsFields
  <2>3. /\ p.rule = "auto" => p.band = "high"
        /\ p.rule = "manual" => cred.token = "valid"
        /\ p.rule = "vote" => (IF cred.votes # "none" THEN cred.votes ELSE p.votes) = "quorum"
    BY <1>5 DEF Eligible
  <2> HIDE DEF t
  <2>4. Justified(t)
    BY <1>5, <2>2, <2>3 DEF Justified
  <2>5. QED
    BY <2>1, <2>2, <2>4 DEF t
<1>6. QED
  BY <1>3, <1>4, <1>5

LEMMA ProposedType ==
  ASSUME NEW F \in SUBSET Bands, NEW choice \in RuleChoices, NEW k \in 1..MaxBatches
  PROVE  /\ DOMAIN Proposed(F, choice, k) \subseteq ProposalIds
         /\ \A i \in DOMAIN Proposed(F, choice, k) :
              Proposed(F, choice, k)[i] \in Proposal /\ Justified(Proposed(F, choice, k)[i])
<1> DEFINE D == {[batch |-> k, band |-> b] : b \in F}
<1>1. DOMAIN Proposed(F, choice, k) = D
  BY DEF Proposed
<1>2. D \subseteq ProposalIds
  BY DEF ProposalIds
<1>3. ASSUME NEW i \in D
      PROVE  Proposed(F, choice, k)[i] \in Proposal /\ Justified(Proposed(F, choice, k)[i])
  <2> DEFINE r == IF choice = "byConfidence" THEN RuleOf(i.band) ELSE choice
  <2>1. i.band \in Bands
    BY <1>2 DEF ProposalIds
  <2>2. r \in Rules
    BY <2>1, DreamConstants DEF DreamConstants, RuleOf, Bands, Rules
  <2>3. Proposed(F, choice, k)[i] = NewProposal(i.band, r)
    BY DEF Proposed
  <2> HIDE DEF r
  <2>4. QED
    BY <2>1, <2>2, <2>3, NewProposalType
<1> HIDE DEF D
<1>4. QED
  BY <1>1, <1>2, <1>3

-----------------------------------------------------------------------------
(* The inductive invariant: a pending promotion may write its proposal back *)
(* at any time, so the proposal it remembers must be justified as well.     *)

StoreJustified ==
  \A m \in Missions : \A i \in DOMAIN proposals[m] :
    proposals[m][i] \in Proposal /\ Justified(proposals[m][i])

SeenJustified == \A c \in dreams : Justified(c.seen)

DInv ==
  /\ proposals = [m \in Missions |-> proposals[m]]
  /\ DreamTypeOK
  /\ StoreJustified
  /\ SeenJustified

LEMMA NewCallType ==
  ASSUME NEW w \in DreamWorkers, NEW m \in Missions, NEW op \in DreamOps, NEW at \in Stages
  PROVE  NewCall(w, op, m, at) \in DreamCall /\ Justified(NewCall(w, op, m, at).seen)
<1>1. Blank \in ProposalIds
  BY DreamConstants DEF DreamConstants, Blank, ProposalIds, Bands
<1>2. NewProposal("low", "vote") \in Proposal /\ Justified(NewProposal("low", "vote"))
  BY NewProposalType DEF Bands, Rules
<1>3. NoCredential \in Credential /\ "candidate" \in Statuses
  BY DEF NoCredential, Credential, CoveVerdicts, Tokens, Votes, Statuses
<1>4. QED
  BY <1>1, <1>2, <1>3 DEF NewCall, DreamCall

LEMMA LookedStage ==
  ASSUME NEW ph
  PROVE  Looked(ph) \in Stages
  BY DEF Looked, Stages

LEMMA DInvInit == DreamInit => DInv
<1> SUFFICES ASSUME DreamInit PROVE DInv
  OBVIOUS
<1>1. proposals = [m \in Missions |-> NoProposals] /\ DOMAIN NoProposals = {}
  BY DEF DreamInit, NoProposals
<1>2. DreamTypeOK
  BY <1>1, DreamConstants DEF DreamInit, DreamConstants, DreamTypeOK
<1>3. StoreJustified /\ SeenJustified
  BY <1>1 DEF DreamInit, StoreJustified, SeenJustified
<1>4. QED
  BY <1>1, <1>2, <1>3 DEF DInv

\* Steps that leave the proposals alone and add or advance at most one call.
LEMMA CallOnly ==
  ASSUME DInv, findings' \in [Missions -> SUBSET Bands],
         proposals' = proposals, batch' = batch,
         \A d \in dreams' : d \in dreams \/ (d \in DreamCall /\ Justified(d.seen))
  PROVE  DInv'
  BY DEF DInv, DreamTypeOK, StoreJustified, SeenJustified

\* Changing the stage or the findings of a call keeps it well typed.
LEMMA CallAt ==
  ASSUME NEW c \in DreamCall, NEW at \in Stages, NEW F \in SUBSET Bands
  PROVE  /\ [c EXCEPT !.at = at] \in DreamCall
         /\ [c EXCEPT !.at = at].seen = c.seen
         /\ [c EXCEPT !.at = at, !.found = F] \in DreamCall
         /\ [c EXCEPT !.at = at, !.found = F].seen = c.seen
  BY DEF DreamCall

LEMMA DInvNext ==
  ASSUME DInv, [DreamNext]_allVars
  PROVE  DInv'
<1>0. /\ dreams \subseteq DreamCall /\ findings \in [Missions -> SUBSET Bands]
      /\ batch \in 1..(MaxBatches + 1) /\ MaxBatches \in Nat \ {0}
      /\ \A c \in dreams : Justified(c.seen)
  BY DreamConstants DEF DreamConstants, DInv, DreamTypeOK, SeenJustified
<1>1. CASE UNCHANGED dreamVars
  BY <1>1 DEF dreamVars, DInv, DreamTypeOK, StoreJustified, SeenJustified
<1>2. ASSUME NEW w \in DreamWorkers, NEW m \in Missions, ObserveBegin(w, m)
      PROVE  DInv'
  <2>1. Looked(mission[m].phase) \in Stages /\ "observe" \in DreamOps
    BY LookedStage DEF DreamOps
  <2>2. NewCall(w, "observe", m, Looked(mission[m].phase)) \in DreamCall
        /\ Justified(NewCall(w, "observe", m, Looked(mission[m].phase)).seen)
    BY <2>1, NewCallType
  <2>3. QED
    BY <1>0, <1>2, <2>2, CallOnly DEF ObserveBegin, Starts
<1>3. ASSUME NEW w \in DreamWorkers, NEW m \in Missions, ProposeBegin(w, m)
      PROVE  DInv'
  <2> DEFINE c == NewCall(w, "propose", m, "step")
             b == (mission[m].phase # "observe")
  <2>1. c \in DreamCall /\ Justified(c.seen)
    BY NewCallType DEF DreamOps, Stages
  <2>2. b \in BOOLEAN
    OBVIOUS
  <2>3. /\ \/ Starts([c EXCEPT !.at = "write", !.found = findings[m]])
           \/ Starts([c EXCEPT !.ov = b])
        /\ findings' = findings /\ proposals' = proposals /\ batch' = batch
    BY <1>3 DEF ProposeBegin
  <2> HIDE DEF b, c
  <2>4. [c EXCEPT !.ov = b] \in DreamCall /\ [c EXCEPT !.ov = b].seen = c.seen
    BY <2>1, <2>2 DEF DreamCall
  <2>5. /\ [c EXCEPT !.at = "write", !.found = findings[m]] \in DreamCall
        /\ [c EXCEPT !.at = "write", !.found = findings[m]].seen = c.seen
    <3>1. "write" \in Stages /\ findings[m] \in SUBSET Bands
      BY <1>0 DEF Stages
    <3>2. QED
      BY <2>1, <3>1, CallAt
  <2>6. \A d \in dreams' : d \in dreams \/ (d \in DreamCall /\ Justified(d.seen))
    BY <2>1, <2>3, <2>4, <2>5 DEF Starts
  <2>7. QED
    BY <1>0, <2>3, <2>6, CallOnly
<1>4. ASSUME NEW w \in DreamWorkers, NEW m \in Missions, PromoteBegin(w, m)
      PROVE  DInv'
  <2> DEFINE c == NewCall(w, "promote", m, "write")
  <2>1. c \in DreamCall
    BY NewCallType DEF DreamOps, Stages
  <2>2. PICK i \in DOMAIN proposals[m], target \in {"candidate", "binding"}, cred \in Credentials :
          Starts([c EXCEPT !.id = i, !.seen = proposals[m][i], !.target = target, !.cred = cred])
    BY <1>4 DEF PromoteBegin
  <2>3. /\ i \in ProposalIds /\ proposals[m][i] \in Proposal /\ Justified(proposals[m][i])
        /\ target \in Statuses /\ cred \in Credential
    BY DreamConstants DEF DreamConstants, DInv, DreamTypeOK, StoreJustified, Statuses
  <2> DEFINE p == proposals[m][i]
             d == [c EXCEPT !.id = i, !.seen = p, !.target = target, !.cred = cred]
  <2>4. p \in Proposal /\ Justified(p) /\ dreams' = dreams \cup {d}
    BY <2>2, <2>3 DEF Starts
  <2> HIDE DEF c, p
  <2>5. d \in DreamCall /\ d.seen = p
    BY <2>1, <2>3, <2>4 DEF DreamCall
  <2>6. findings' = findings /\ proposals' = proposals /\ batch' = batch
    BY <1>4 DEF PromoteBegin
  <2> HIDE DEF d
  <2>7. QED
    BY <1>0, <2>4, <2>5, <2>6, CallOnly
<1>5. ASSUME NEW c \in dreams,
             \/ ObserveCreate(c) \/ ObserveLook(c) \/ ObserveForce(c)
             \/ ProposeStep(c) \/ ProposeRead(c)
      PROVE  DInv'
  <2>1. c \in DreamCall /\ Justified(c.seen)
    BY <1>0
  <2>2. findings' = findings /\ proposals' = proposals /\ batch' = batch
    BY <1>5 DEF ObserveCreate, ObserveLook, ObserveForce, ProposeStep, ProposeRead, vars
  <2>3. \/ \E at \in Stages, F \in SUBSET Bands :
             \/ Goes(c, [c EXCEPT !.at = at])
             \/ Goes(c, [c EXCEPT !.at = at, !.found = F])
        \/ Ends(c)
    <3>1. {"look", "write", "read"} \subseteq Stages /\ {} \in SUBSET Bands
      BY DEF Stages
    <3>2. CASE ObserveCreate(c)
      BY <3>1, <3>2 DEF ObserveCreate
    <3>3. CASE ObserveLook(c)
      BY <3>1, <3>3, LookedStage DEF ObserveLook
    <3>4. CASE ObserveForce(c)
      BY <3>1, <3>4 DEF ObserveForce
    <3>5. CASE ProposeStep(c)
      BY <3>1, <3>5 DEF ProposeStep
    <3>6. CASE ProposeRead(c)
      <4>1. findings[c.mission] \in SUBSET Bands
        BY <1>0, <2>1 DEF DreamCall
      <4>2. QED
        BY <3>1, <3>6, <4>1 DEF ProposeRead
    <3>7. QED
      BY <1>5, <3>2, <3>3, <3>4, <3>5, <3>6
  <2>4. \A d \in dreams' : d \in dreams \/ (d \in DreamCall /\ Justified(d.seen))
    <3>1. CASE Ends(c)
      BY <3>1 DEF Ends
    <3>2. ASSUME NEW at \in Stages, Goes(c, [c EXCEPT !.at = at])
          PROVE  \A d \in dreams' : d \in dreams \/ (d \in DreamCall /\ Justified(d.seen))
      <4>1. [c EXCEPT !.at = at] \in DreamCall /\ [c EXCEPT !.at = at].seen = c.seen
        BY <2>1, CallAt
      <4>2. QED
        BY <2>1, <3>2, <4>1 DEF Goes
    <3>3. ASSUME NEW at \in Stages, NEW F \in SUBSET Bands,
                 Goes(c, [c EXCEPT !.at = at, !.found = F])
          PROVE  \A d \in dreams' : d \in dreams \/ (d \in DreamCall /\ Justified(d.seen))
      <4>1. /\ [c EXCEPT !.at = at, !.found = F] \in DreamCall
            /\ [c EXCEPT !.at = at, !.found = F].seen = c.seen
        BY <2>1, CallAt
      <4>2. QED
        BY <2>1, <3>3, <4>1 DEF Goes
    <3>4. QED
      BY <2>3, <3>1, <3>2, <3>3
  <2>5. QED
    BY <1>0, <2>2, <2>4, CallOnly
<1>6. ASSUME NEW c \in dreams, ObserveWrite(c)
      PROVE  DInv'
  <2>1. PICK F \in FindingSets : findings' = [findings EXCEPT ![c.mission] = F]
    BY <1>6 DEF ObserveWrite
  <2>2. F \in SUBSET Bands
    BY DreamConstants DEF DreamConstants
  <2>3. findings' \in [Missions -> SUBSET Bands]
    BY <1>0, <2>1, <2>2
  <2>4. QED
    BY <1>6, <2>3, CallOnly DEF ObserveWrite, Ends
<1>7. ASSUME NEW c \in dreams, ProposeWrite(c)
      PROVE  DInv'
  <2>1. c.mission \in Missions /\ c.found \in SUBSET Bands
    BY <1>0 DEF DreamCall
  <2>2. batch \in 1..MaxBatches /\ batch' = batch + 1
    BY <1>0, <1>7 DEF ProposeWrite
  <2>3. PICK choice \in RuleChoices :
          proposals' = [proposals EXCEPT ![c.mission] = Proposed(c.found, choice, batch)]
    BY <1>7 DEF ProposeWrite
  <2> DEFINE P == Proposed(c.found, choice, batch)
  <2>4. /\ DOMAIN P \subseteq ProposalIds
        /\ \A i \in DOMAIN P : P[i] \in Proposal /\ Justified(P[i])
    BY <2>1, <2>2, ProposedType
  <2> HIDE DEF P
  <2>5. \A m \in Missions : proposals'[m] = IF m = c.mission THEN P ELSE proposals[m]
    BY <2>3 DEF DInv, P
  <2>6. proposals' = [m \in Missions |-> proposals'[m]]
    BY <2>3 DEF DInv
  <2>7. findings' = findings /\ dreams' = dreams \ {c}
    BY <1>7 DEF ProposeWrite, Ends
  <2>8. batch' \in 1..(MaxBatches + 1)
    BY <1>0, <2>2
  <2>9. StoreJustified'
    BY <2>4, <2>5 DEF DInv, StoreJustified
  <2>10. \A m \in Missions :
           /\ DOMAIN proposals'[m] \subseteq ProposalIds
           /\ \A i \in DOMAIN proposals'[m] : proposals'[m][i] \in Proposal
    BY <2>4, <2>5 DEF DInv, DreamTypeOK
  <2>11. QED
    BY <1>0, <2>6, <2>7, <2>8, <2>9, <2>10 DEF DInv, DreamTypeOK, SeenJustified
<1>8. ASSUME NEW c \in dreams, PromoteWrite(c)
      PROVE  DInv'
  <2> DEFINE old == proposals[c.mission]
             new == Promoted(c.seen, c.target, c.cred)
             P == [i \in DOMAIN old \cup {c.id} |-> IF i = c.id THEN new ELSE old[i]]
  <2>1. /\ c.mission \in Missions /\ c.id \in ProposalIds /\ c.seen \in Proposal
        /\ c.target \in Statuses /\ c.cred \in Credential /\ Justified(c.seen)
    BY <1>0 DEF DreamCall
  <2>2. new \in Proposal /\ Justified(new)
    BY <2>1, PromotedJustified
  <2>3. proposals' = [proposals EXCEPT ![c.mission] = P]
    BY <1>8 DEF PromoteWrite
  <2> HIDE DEF new
  <2>4. /\ DOMAIN P \subseteq ProposalIds
        /\ \A i \in DOMAIN P : P[i] \in Proposal /\ Justified(P[i])
    BY <2>1, <2>2 DEF DInv, DreamTypeOK, StoreJustified
  <2> HIDE DEF P
  <2>5. \A m \in Missions : proposals'[m] = IF m = c.mission THEN P ELSE proposals[m]
    BY <2>3 DEF DInv
  <2>6. proposals' = [m \in Missions |-> proposals'[m]]
    BY <2>3 DEF DInv
  <2>7. findings' = findings /\ dreams' = dreams \ {c} /\ batch' = batch
    BY <1>8 DEF PromoteWrite, Ends
  <2>8. StoreJustified'
    BY <2>4, <2>5 DEF DInv, StoreJustified
  <2>9. \A m \in Missions :
          /\ DOMAIN proposals'[m] \subseteq ProposalIds
          /\ \A i \in DOMAIN proposals'[m] : proposals'[m][i] \in Proposal
    BY <2>4, <2>5 DEF DInv, DreamTypeOK
  <2>10. QED
    BY <1>0, <2>6, <2>7, <2>8, <2>9 DEF DInv, DreamTypeOK, SeenJustified
<1>9. CASE UNCHANGED allVars
  BY <1>1, <1>9 DEF allVars, dreamVars
<1>10. QED
  BY <1>1, <1>2, <1>3, <1>4, <1>5, <1>6, <1>7, <1>8, <1>9 DEF DreamNext

LEMMA DreamInvariance == DreamSpec => []DInv
<1>1. DInv /\ [DreamNext]_allVars => DInv'
  BY DInvNext
<1>2. QED
  BY <1>1, DInvInit, PTL DEF DreamSpec

\* Findings, proposals and the pending dream calls are well typed in every
\* reachable state.
THEOREM DreamTypeCorrect == DreamSpec => []DreamTypeOK
  BY DreamInvariance, PTL DEF DInv

\* However many promotions overlap and however late each writes back what it
\* read, a proposal above advisory carries a CoVE pass and the credential of its
\* own rule.
THEOREM PromotionIsJustified == DreamSpec => []PromotionJustified
<1>1. DInv => PromotionJustified
  BY DEF DInv, StoreJustified, Justified, PromotionJustified
<1>2. QED
  BY <1>1, DreamInvariance, PTL

-----------------------------------------------------------------------------
(* The gate between observe and propose, through direct assignments.  The   *)
(* strengthening says what a call between two locked sections may assign    *)
(* when it resumes: only a phase its mission has visited by now.            *)

PhaseVisited(m) ==
  /\ Exists(m) => mission[m].phase \in mission[m].visited
  /\ ~Exists(m) => mission[m].visited = {}

StoreVisited(m) ==
  /\ findings[m] # {} => "observe" \in mission[m].visited
  /\ DOMAIN proposals[m] # {} => {"observe", "propose"} \subseteq mission[m].visited

MayAssign(c) ==
  LET v == mission[c.mission].visited IN
  /\ c.op = "observe" /\ c.at = "write" => "observe" \in v
  /\ c.op = "propose" /\ c.at \in {"read", "write"} => "propose" \in v
  /\ c.op = "propose" /\ c.at = "write" => "observe" \in v
  /\ c.op = "promote" => {"observe", "propose"} \subseteq v

GateInv ==
  /\ TypeOK
  /\ \A m \in Missions : PhaseVisited(m) /\ StoreVisited(m)
  /\ \A c \in dreams : MayAssign(c)

\* What every step does to a mission: its visited phases only grow.
Grown(m) ==
  PhaseVisited(m) => PhaseVisited(m)' /\ mission[m].visited \subseteq mission'[m].visited

LEMMA GrownWhenSame ==
  ASSUME NEW m, mission'[m] = mission[m]
  PROVE  Grown(m)
  BY DEF Grown, PhaseVisited, Exists

\* A transition that raised has entered its phase all the same.
LEMMA HalfVisited ==
  ASSUME NEW r \in Mission, NEW ph \in Phases, NEW p \in Payload
  PROVE  /\ HalfTransitioned(r, ph, p).phase = ph
         /\ HalfTransitioned(r, ph, p).visited = r.visited \cup {ph}
<1> DEFINE e == Entered(r, ph, p)
<1>1. e \in Mission
  BY EnteredType
<1>2. e.phase = ph /\ e.visited = r.visited \cup {ph}
  BY DEF Entered, Mission
<1>3. HalfTransitioned(r, ph, p) \in {e, WithDag(e, p)}
  BY DEF HalfTransitioned
<1> HIDE DEF e
<1>4. WithDag(e, p).phase = ph /\ WithDag(e, p).visited = r.visited \cup {ph}
  BY <1>1, <1>2 DEF WithDag, Mission
<1>5. QED
  BY <1>2, <1>3, <1>4

LEMMA StepGrows ==
  ASSUME StoreTypeOK,
         NEW m \in Missions, NEW ph \in Phases, NEW p \in Payload,
         NEW ov, NEW cove, Step(m, ph, p, ov, cove)
  PROVE  \A n \in Missions : Grown(n)
<1> DEFINE r == mission[m]
           s == mission'[m]
<1>0. r \in Mission
  BY DEF StoreTypeOK
<1>1. ASSUME NEW n \in Missions, n # m
      PROVE  Grown(n)
  BY <1>1, StepFrame, GrownWhenSame
<1>2. Grown(m)
  <2>1. CASE UNCHANGED <<mission, ledger, forced, refused>>
    BY <2>1, GrownWhenSame
  <2>2. CASE Created(m, ph, p)
    <3>1. /\ ~Exists(m) /\ ph \in EntryPhases
          /\ s = NewMission(ph, p) /\ ledger'[m] = ph
      BY <2>2 DEF Created, StoreTypeOK
    <3>2. s.phase = ph /\ ph \in s.visited
      BY <3>1 DEF NewMission, NoMission
    <3>3. ph # "absent"
      BY DEF Phases
    <3> HIDE DEF s
    <3>4. QED
      BY <3>1, <3>2, <3>3 DEF Grown, PhaseVisited, Exists, s
  <2>3. CASE CoveBlocked(m, ph, ov, cove) \/ StaleBlocked(m, ph, ov, cove) \/ NotReadyBlocked(m, ph, ov)
    <3>1. ledger'[m] = ledger[m] /\ refused'[m] = refused[m]
      BY <2>3 DEF CoveBlocked, StaleBlocked, NotReadyBlocked
    <3>2. s.phase = r.phase /\ s.visited = r.visited
      BY <1>0, <2>3 DEF CoveBlocked, StaleBlocked, NotReadyBlocked, WithContract, StoreTypeOK, Mission
    <3>3. QED
      BY <3>1, <3>2 DEF Grown, PhaseVisited, Exists
  <2>4. CASE Advanced(m, ph, p, ov, cove)
    <3>1. s = Transitioned(r, ph, p) /\ ledger'[m] = ph
      BY <2>4 DEF Advanced, StoreTypeOK
    <3>2. Writes(r, ph, p, s)
      BY <1>0, <3>1, TransitionedFields
    <3> HIDE DEF s
    <3>3. s.phase = ph /\ s.visited = r.visited \cup {ph} /\ ph # "absent"
      BY <3>2 DEF Writes, Phases
    <3>4. QED
      BY <3>1, <3>3 DEF Grown, PhaseVisited, Exists, s
  <2>5. CASE AdvanceRaised(m, ph, p, ov, cove)
    <3>1. s = HalfTransitioned(r, ph, p) /\ refused'[m] = TRUE
      BY <2>5 DEF AdvanceRaised, StoreTypeOK
    <3>2. s.phase = ph /\ s.visited = r.visited \cup {ph}
      BY <1>0, <3>1, HalfVisited
    <3> HIDE DEF s
    <3>3. ph # "absent"
      BY DEF Phases
    <3>4. QED
      BY <3>1, <3>2, <3>3 DEF Grown, PhaseVisited, Exists, s
  <2>6. QED
    BY <2>1, <2>2, <2>3, <2>4, <2>5 DEF Step, StepOk, StepNotOk, CreationRefused, AlreadyAt, OutOfOrder
<1>3. QED
  BY <1>1, <1>2

\* step() returns ok only when the mission has visited the target, now or before.
LEMMA OkVisits ==
  ASSUME StoreTypeOK,
         NEW m \in Missions, NEW ph \in Phases, NEW p \in Payload,
         NEW ov, NEW cove, StepOk(m, ph, p, ov, cove), PhaseVisited(m)
  PROVE  ph \in mission'[m].visited
<1>0. mission[m] \in Mission /\ ph # "absent"
  BY DEF StoreTypeOK, Phases
<1>1. CASE Created(m, ph, p)
  <2>1. mission'[m] = NewMission(ph, p)
    BY <1>1 DEF Created, StoreTypeOK
  <2>2. QED
    BY <2>1 DEF NewMission, NoMission
<1>2. CASE AlreadyAt(m, ph)
  BY <1>0, <1>2 DEF AlreadyAt, PhaseVisited, Exists
<1>3. CASE Advanced(m, ph, p, ov, cove)
  <2>1. mission'[m] = Transitioned(mission[m], ph, p)
    BY <1>3 DEF Advanced, StoreTypeOK
  <2>2. Writes(mission[m], ph, p, mission'[m])
    BY <1>0, <2>1, TransitionedFields
  <2>3. QED
    BY <2>2 DEF Writes
<1>4. QED
  BY <1>1, <1>2, <1>3 DEF StepOk

\* An entry into observe with the override is never refused.
LEMMA ForcedObserveIsOk ==
  ASSUME NEW m, Step(m, "observe", EmptyPayload, TRUE, "none")
  PROVE  StepOk(m, "observe", EmptyPayload, TRUE, "none")
  BY DEF Step, StepNotOk, CreationRefused, OutOfOrder, CoveBlocked, StaleBlocked,
         NotReadyBlocked, AdvanceRaised, PayloadRefused, EntryPhases, EmptyPayload

-----------------------------------------------------------------------------
(* The steps of the lifecycle's own callers.                               *)

\* Every one is a step(), a realignment or leaves the missions alone.
LifecycleStep ==
  \/ UNCHANGED mission
  \/ \E m \in Missions, ph \in Phases, p \in Payload, ov \in BOOLEAN, cove \in CoveResults :
       Step(m, ph, p, ov, cove)
  \/ \E m \in Missions : Realign(m)

LEMMA NextIsLifecycleStep ==
  ASSUME TypeOK, StepNext
  PROVE  LifecycleStep
<1>0. FALSE \in BOOLEAN /\ "none" \in CoveResults /\ {"specify", "plan", "execute", "verify"} \subseteq Phases
  BY DEF CoveResults, Phases
<1>1. ASSUME NEW m \in Missions, NEW ph \in Phases, NEW ov \in Overrides,
             NEW cove \in CovesFor(ph), NEW p \in PayloadFor[ph],
             ClientStep(m, ph, p, ov, cove)
      PROVE  LifecycleStep
  <2>1. p \in Payload /\ ov \in BOOLEAN /\ cove \in CoveResults
    BY ConstantsAssumption DEF ConstantsAssumption, CovesFor, CoveResults
  <2>2. QED
    BY <1>1, <2>1 DEF ClientStep, LifecycleStep
<1>2. ASSUME NEW w \in Workers, NEW m \in Missions, NEW d \in PlanTemplates,
             ClassifySpecify(w, m, d)
      PROVE  LifecycleStep
  <2>1. Step(m, "specify", EmptyPayload, FALSE, "none")
    BY <1>2 DEF ClassifySpecify, Step
  <2>2. QED
    BY <1>0, <2>1, EmptyPayloadType DEF LifecycleStep
<1>3. ASSUME NEW c \in calls, ClassifyPlan(c) \/ DispatchEnd(c) \/ ProveEnd(c)
      PROVE  LifecycleStep
  <2>1. c.mission \in Missions /\ c.dag \in SUBSET Nodes /\ {"wrapped", "opaque"} \subseteq Reports
    BY DEF TypeOK, Call, Reports
  <2>2. /\ PlanPayload(c.dag) \in Payload /\ RunPayload(c.dag) \in Payload
        /\ \A rep \in {"wrapped", "opaque"} : ProofPayload(rep) \in Payload
    BY <2>1, HelperPayloadType
  <2>3. CASE ClassifyPlan(c)
    BY <1>0, <2>1, <2>2, <2>3 DEF ClassifyPlan, LifecycleStep
  <2>4. CASE DispatchEnd(c)
    BY <1>0, <2>1, <2>2, <2>4 DEF DispatchEnd, LifecycleStep
  <2>5. CASE ProveEnd(c)
    BY <1>0, <2>1, <2>2, <2>5 DEF ProveEnd, LifecycleStep
  <2>6. QED
    BY <1>3, <2>3, <2>4, <2>5
<1>4. ASSUME NEW w \in Workers, NEW m \in Missions, DispatchBegin(w, m) \/ ProveBegin(w, m)
      PROVE  LifecycleStep
  BY <1>4 DEF DispatchBegin, ProveBegin, LifecycleStep
<1>5. ASSUME NEW m \in Missions, Realign(m)
      PROVE  LifecycleStep
  BY <1>5 DEF LifecycleStep
<1>6. QED
  BY <1>1, <1>2, <1>3, <1>4, <1>5 DEF StepNext

LEMMA LifecycleStepGrows ==
  ASSUME StoreTypeOK, LifecycleStep
  PROVE  \A n \in Missions : Grown(n)
<1>1. CASE UNCHANGED mission
  BY <1>1, GrownWhenSame
<1>2. ASSUME NEW m \in Missions, NEW ph \in Phases, NEW p \in Payload,
             NEW ov \in BOOLEAN, NEW cove \in CoveResults, Step(m, ph, p, ov, cove)
      PROVE  \A n \in Missions : Grown(n)
  BY <1>2, StepGrows
<1>3. ASSUME NEW m \in Missions, Realign(m), NEW n \in Missions
      PROVE  Grown(n)
  <2>1. mission'[n].phase = mission[n].phase /\ mission'[n].visited = mission[n].visited
    BY <1>3 DEF Realign, StoreTypeOK, Mission
  <2>2. ledger' = ledger /\ refused' = refused
    BY <1>3 DEF Realign
  <2>3. QED
    BY <2>1, <2>2 DEF Grown, PhaseVisited, Exists
<1>4. QED
  BY <1>1, <1>2, <1>3 DEF LifecycleStep

-----------------------------------------------------------------------------
(* The steps of the dream methods.                                         *)

\* A step that lets no mission forget a phase and stores only what the visited
\* phases allow keeps the gate.
LEMMA GateKept ==
  ASSUME GateInv, TypeOK', dreams \subseteq DreamCall, \A n \in Missions : Grown(n),
         \A n \in Missions : findings'[n] # {} => findings[n] # {} \/ "observe" \in mission'[n].visited,
         \A n \in Missions :
           DOMAIN proposals'[n] # {} =>
             DOMAIN proposals[n] # {} \/ {"observe", "propose"} \subseteq mission'[n].visited,
         \A d \in dreams' : d \in dreams \/ MayAssign(d)'
  PROVE  GateInv'
<1>1. \A n \in Missions : PhaseVisited(n)'
                          /\ mission[n].visited \subseteq mission'[n].visited
  BY DEF GateInv, Grown
<1>2. \A n \in Missions : StoreVisited(n)'
  BY <1>1 DEF GateInv, StoreVisited
<1>3. ASSUME NEW d \in dreams
      PROVE  MayAssign(d)'
  <2>1. d.mission \in Missions
    BY DEF DreamCall
  <2>2. QED
    BY <1>1, <2>1 DEF GateInv, MayAssign
<1>4. \A d \in dreams' : MayAssign(d)'
  BY <1>3
<1>5. QED
  BY <1>1, <1>2, <1>4 DEF GateInv

\* The record of a call when only its stage, findings or override change.
LEMMA CallFields ==
  ASSUME NEW c \in DreamCall, NEW at, NEW F, NEW b
  PROVE  /\ [c EXCEPT !.at = at].mission = c.mission
         /\ [c EXCEPT !.at = at].op = c.op
         /\ [c EXCEPT !.at = at].at = at
         /\ [c EXCEPT !.at = at, !.found = F].mission = c.mission
         /\ [c EXCEPT !.at = at, !.found = F].op = c.op
         /\ [c EXCEPT !.at = at, !.found = F].at = at
         /\ [c EXCEPT !.ov = b].mission = c.mission
         /\ [c EXCEPT !.ov = b].op = c.op
         /\ [c EXCEPT !.ov = b].at = c.at
  BY DEF DreamCall

LEMMA GateInit == DreamInit => GateInv
<1> SUFFICES ASSUME DreamInit PROVE GateInv
  OBVIOUS
<1>1. TypeOK
  BY TypeInit DEF DreamInit
<1>2. ASSUME NEW m \in Missions
      PROVE  PhaseVisited(m) /\ StoreVisited(m)
  <2>1. mission[m] = NoMission /\ ledger[m] = "absent" /\ findings[m] = {}
        /\ DOMAIN proposals[m] = {}
    BY DEF DreamInit, Init, NoProposals
  <2>2. NoMission.phase = "absent" /\ NoMission.visited = {}
    BY DEF NoMission
  <2>3. QED
    BY <2>1, <2>2 DEF PhaseVisited, StoreVisited, Exists
<1>3. QED
  BY <1>1, <1>2 DEF GateInv, DreamInit

LEMMA GateNext ==
  ASSUME GateInv, DInv, [DreamNext]_allVars
  PROVE  GateInv'
<1>0. /\ dreams \subseteq DreamCall /\ findings \in [Missions -> SUBSET Bands]
      /\ StoreTypeOK /\ TypeOK /\ proposals = [m \in Missions |-> proposals[m]]
      /\ {"observe", "propose"} \subseteq Phases /\ EmptyPayload \in Payload
      /\ \A c \in dreams : c.mission \in Missions
  BY EmptyPayloadType DEF DInv, DreamTypeOK, GateInv, TypeOK, StoreTypeOK, DreamCall, Phases
\* A step of the dream methods that leaves the missions alone.
<1>1. ASSUME UNCHANGED vars
      PROVE  TypeOK' /\ \A n \in Missions : Grown(n) /\ mission'[n] = mission[n]
  BY <1>0, <1>1, GrownWhenSame DEF vars, TypeOK
\* A step() inside one.
<1>2. ASSUME NEW c \in dreams, NEW ph \in Phases, NEW ov,
             Step(c.mission, ph, EmptyPayload, ov, "none"), UNCHANGED <<calls, drifted>>
      PROVE  TypeOK' /\ \A n \in Missions : Grown(n)
  <2>1. StoreTypeOK'
    BY <1>0, <1>2, StepType
  <2>2. \A n \in Missions : Grown(n)
    BY <1>0, <1>2, StepGrows
  <2>3. QED
    BY <1>0, <1>2, <2>1, <2>2 DEF TypeOK, StoreTypeOK
\* A direct assignment of a phase the mission has visited.
<1>3. ASSUME NEW m \in Missions, NEW ph \in {"observe", "propose"}, ph \in mission[m].visited,
             Assigned(m, ph)
      PROVE  TypeOK' /\ \A n \in Missions : Grown(n) /\ mission'[n].visited = mission[n].visited
  <2>1. ph \in Phases
    BY DEF Phases
  <2>2. TypeOK'
    BY <1>0, <1>3, <2>1, TypeDreamAssign
  <2>3. /\ mission'[m].phase = ph /\ mission'[m].visited = mission[m].visited
        /\ \A n \in Missions : n # m => mission'[n] = mission[n]
    BY <1>0, <1>3, <2>1, AssignedFields DEF Assigned, StoreTypeOK
  <2>4. Grown(m)
    BY <1>3, <2>3 DEF Grown, PhaseVisited, Exists
  <2>5. \A n \in Missions : n # m => Grown(n)
    BY <2>3, GrownWhenSame
  <2>6. QED
    BY <2>2, <2>3, <2>4, <2>5
<1>4. CASE StepNext /\ UNCHANGED <<drifted, dreamVars>>
  <2>1. TypeOK' /\ \A n \in Missions : Grown(n)
    BY <1>0, <1>4, TypeStepNext, NextIsLifecycleStep, LifecycleStepGrows
  <2>2. QED
    BY <1>0, <1>4, <2>1, GateKept DEF dreamVars
<1>5. ASSUME NEW w \in DreamWorkers, NEW m \in Missions, ObserveBegin(w, m)
      PROVE  GateInv'
  <2>0. PICK d : d = NewCall(w, "observe", m, Looked(mission[m].phase))
    OBVIOUS
  <2>1. /\ UNCHANGED vars /\ findings' = findings /\ proposals' = proposals
        /\ dreams' = dreams \cup {d}
    BY <1>5, <2>0 DEF ObserveBegin, Starts
  <2>2. d.mission = m /\ d.op = "observe" /\ d.at = Looked(mission[m].phase)
    BY <2>0 DEF NewCall
  <2>3. Looked(mission[m].phase) = "write" => "observe" \in mission[m].visited
    BY DEF Looked, GateInv, PhaseVisited, Exists
  <2>4. MayAssign(d)'
    BY <1>1, <2>1, <2>2, <2>3 DEF MayAssign
  <2>5. QED
    BY <1>0, <1>1, <2>1, <2>4, GateKept
<1>6. ASSUME NEW w \in DreamWorkers, NEW m \in Missions, ProposeBegin(w, m)
      PROVE  GateInv'
  <2> DEFINE c == NewCall(w, "propose", m, "step")
             b == (mission[m].phase # "observe")
  <2>0. PICK d1, d2 : /\ d1 = [c EXCEPT !.at = "write", !.found = findings[m]]
                      /\ d2 = [c EXCEPT !.ov = b]
    OBVIOUS
  <2>1. c \in DreamCall /\ c.mission = m /\ c.op = "propose" /\ c.at = "step"
    <3>1. c \in DreamCall
      BY NewCallType DEF DreamOps, Stages
    <3>2. QED
      BY <3>1 DEF NewCall
  <2>2. /\ UNCHANGED vars /\ findings' = findings /\ proposals' = proposals
        /\ mission[m].phase = "observe" \/ findings[m] # {}
        /\ mission[m].phase = "propose" => dreams' = dreams \cup {d1}
        /\ mission[m].phase # "propose" => dreams' = dreams \cup {d2}
    BY <1>6, <2>0 DEF ProposeBegin, Starts
  <2> HIDE DEF c, b
  <2>3. d1.mission = m /\ d1.op = "propose" /\ d1.at = "write"
    BY <2>0, <2>1, CallFields
  <2>4. d2.mission = m /\ d2.op = "propose" /\ d2.at = "step"
    BY <2>0, <2>1, CallFields
  <2>5. ASSUME mission[m].phase = "propose"
        PROVE  MayAssign(d1)'
    <3>1. {"observe", "propose"} \subseteq mission[m].visited
      BY <2>2, <2>5 DEF GateInv, PhaseVisited, StoreVisited, Exists
    <3>2. QED
      BY <1>1, <2>2, <2>3, <3>1 DEF MayAssign
  <2>6. MayAssign(d2)'
    BY <2>4 DEF MayAssign
  <2>7. \A d \in dreams' : d \in dreams \/ MayAssign(d)'
    BY <2>2, <2>5, <2>6
  <2>8. QED
    BY <1>0, <1>1, <2>2, <2>7, GateKept
<1>7. ASSUME NEW w \in DreamWorkers, NEW m \in Missions, PromoteBegin(w, m)
      PROVE  GateInv'
  <2> DEFINE c == NewCall(w, "promote", m, "write")
  <2>1. c \in DreamCall /\ c.mission = m
    <3>1. c \in DreamCall
      BY NewCallType DEF DreamOps, Stages
    <3>2. QED
      BY <3>1 DEF NewCall
  <2>2. PICK i \in DOMAIN proposals[m], target \in {"candidate", "binding"}, cred \in Credentials :
          Starts([c EXCEPT !.id = i, !.seen = proposals[m][i], !.target = target, !.cred = cred])
    BY <1>7 DEF PromoteBegin
  <2> DEFINE p == proposals[m][i]
  <2>d. PICK d : d = [c EXCEPT !.id = i, !.seen = p, !.target = target, !.cred = cred]
    OBVIOUS
  <2>3. /\ UNCHANGED vars /\ findings' = findings /\ proposals' = proposals
        /\ dreams' = dreams \cup {d}
    BY <1>7, <2>2, <2>d DEF PromoteBegin, Starts
  <2>4. {"observe", "propose"} \subseteq mission[m].visited
    BY <2>2 DEF GateInv, StoreVisited
  <2> HIDE DEF c, p
  <2>5. d.mission = m /\ d.op = c.op /\ d.at = c.at
    BY <2>1, <2>d DEF DreamCall
  <2>6. c.op = "promote"
    BY DEF c, NewCall
  <2>7. MayAssign(d)'
    BY <1>1, <2>3, <2>4, <2>5, <2>6 DEF MayAssign
  <2>8. QED
    BY <1>0, <1>1, <2>3, <2>7, GateKept
<1>8. ASSUME NEW c \in dreams, ObserveCreate(c) \/ ObserveForce(c)
      PROVE  GateInv'
  <2>1. PICK ov \in BOOLEAN, at \in Stages :
          /\ Step(c.mission, "observe", EmptyPayload, ov, "none")
          /\ Goes(c, [c EXCEPT !.at = at])
          /\ at = "write" => ov = TRUE
          /\ at \in {"look", "write"} /\ c.op = "observe"
    BY <1>8 DEF ObserveCreate, ObserveForce, Stages
  <2>2. UNCHANGED <<calls, drifted>> /\ findings' = findings /\ proposals' = proposals
    BY <1>8 DEF ObserveCreate, ObserveForce
  <2>3. TypeOK' /\ \A n \in Missions : Grown(n)
    BY <1>0, <1>2, <2>1, <2>2
  <2> DEFINE d == [c EXCEPT !.at = at]
  <2>4. d.mission = c.mission /\ d.op = c.op /\ d.at = at
    BY <1>0, CallFields
  <2> HIDE DEF d
  <2>5. at = "write" => "observe" \in mission'[c.mission].visited
    <3>1. PhaseVisited(c.mission)
      BY <1>0 DEF GateInv
    <3>2. QED
      BY <1>0, <2>1, <3>1, OkVisits, ForcedObserveIsOk
  <2>6. MayAssign(d)'
    BY <2>1, <2>4, <2>5 DEF MayAssign
  <2>7. \A e \in dreams' : e \in dreams \/ MayAssign(e)'
    BY <2>1, <2>6 DEF Goes, d
  <2>8. QED
    BY <1>0, <2>2, <2>3, <2>7, GateKept
<1>9. ASSUME NEW c \in dreams, ObserveLook(c)
      PROVE  GateInv'
  <2>0. PICK at, d : at = Looked(mission[c.mission].phase) /\ d = [c EXCEPT !.at = at]
    OBVIOUS
  <2>1. /\ UNCHANGED vars /\ findings' = findings /\ proposals' = proposals
        /\ Goes(c, d) /\ c.op = "observe"
    BY <1>9, <2>0 DEF ObserveLook
  <2>2. at = "write" => "observe" \in mission[c.mission].visited
    BY <1>0, <2>0 DEF Looked, GateInv, PhaseVisited, Exists
  <2>3. d.mission = c.mission /\ d.op = c.op /\ d.at = at
    BY <1>0, <2>0, CallFields
  <2>4. MayAssign(d)'
    BY <1>0, <1>1, <2>1, <2>2, <2>3 DEF MayAssign
  <2>5. QED
    BY <1>0, <1>1, <2>1, <2>4, GateKept DEF Goes
<1>10. ASSUME NEW c \in dreams, ObserveWrite(c)
       PROVE  GateInv'
  <2>1. "observe" \in mission[c.mission].visited
    BY <1>10 DEF GateInv, MayAssign, ObserveWrite
  <2>2. PICK F \in FindingSets : findings' = [findings EXCEPT ![c.mission] = F]
    BY <1>10 DEF ObserveWrite
  <2>3. /\ Assigned(c.mission, "observe")
        /\ proposals' = proposals /\ dreams' = dreams \ {c}
    BY <1>10 DEF ObserveWrite, Ends
  <2>4. TypeOK' /\ \A n \in Missions : Grown(n) /\ mission'[n].visited = mission[n].visited
    BY <1>0, <1>3, <2>1, <2>3
  <2>5. \A n \in Missions : findings'[n] # {} => findings[n] # {} \/ "observe" \in mission'[n].visited
    BY <1>0, <2>1, <2>2, <2>4
  <2>6. QED
    BY <1>0, <2>3, <2>4, <2>5, GateKept
<1>11. ASSUME NEW c \in dreams, ProposeStep(c)
       PROVE  GateInv'
  <2>1. /\ c.op = "propose" /\ findings' = findings /\ proposals' = proposals /\ UNCHANGED <<calls, drifted>>
        /\ Step(c.mission, "propose", EmptyPayload, c.ov, "none")
    BY <1>11 DEF ProposeStep, Step
  <2>2. TypeOK' /\ \A n \in Missions : Grown(n)
    BY <1>0, <1>2, <2>1
  <2>3. CASE Ends(c)
    BY <1>0, <2>1, <2>2, <2>3, GateKept DEF Ends
  <2>4. CASE /\ StepOk(c.mission, "propose", EmptyPayload, c.ov, "none")
             /\ Goes(c, [c EXCEPT !.at = "read"])
    <3> DEFINE d == [c EXCEPT !.at = "read"]
    <3>1. PhaseVisited(c.mission)
      BY <1>0 DEF GateInv
    <3>2. "propose" \in mission'[c.mission].visited
      BY <1>0, <2>4, <3>1, OkVisits
    <3>3. d.mission = c.mission /\ d.op = c.op /\ d.at = "read"
      BY <1>0, CallFields
    <3>4. dreams' = (dreams \ {c}) \cup {d}
      BY <2>4 DEF Goes
    <3> HIDE DEF d
    <3>5. MayAssign(d)'
      BY <2>1, <3>2, <3>3 DEF MayAssign
    <3>6. QED
      BY <1>0, <2>1, <2>2, <3>4, <3>5, GateKept
  <2>5. QED
    BY <1>11, <2>3, <2>4 DEF ProposeStep
<1>12. ASSUME NEW c \in dreams, ProposeRead(c)
       PROVE  GateInv'
  <2>1. /\ c.op = "propose" /\ c.at = "read" /\ UNCHANGED vars
        /\ findings' = findings /\ proposals' = proposals
    BY <1>12 DEF ProposeRead
  <2>2. CASE Ends(c)
    BY <1>0, <1>1, <2>1, <2>2, GateKept DEF Ends
  <2>3. CASE /\ findings[c.mission] # {}
             /\ Goes(c, [c EXCEPT !.at = "write", !.found = findings[c.mission]])
    <3>0. PICK d : d = [c EXCEPT !.at = "write", !.found = findings[c.mission]]
      OBVIOUS
    <3>1. {"observe", "propose"} \subseteq mission[c.mission].visited
      BY <1>0, <2>1, <2>3 DEF GateInv, StoreVisited, MayAssign
    <3>2. d.mission = c.mission /\ d.op = c.op
      BY <1>0, <3>0, CallFields
    <3>3. dreams' = (dreams \ {c}) \cup {d}
      BY <2>3, <3>0 DEF Goes
    <3>4. MayAssign(d)'
      BY <1>0, <1>1, <2>1, <3>1, <3>2 DEF MayAssign
    <3>5. QED
      BY <1>0, <1>1, <2>1, <3>3, <3>4, GateKept
  <2>4. QED
    BY <1>12, <2>2, <2>3 DEF ProposeRead
<1>13. ASSUME NEW c \in dreams, ProposeWrite(c)
       PROVE  GateInv'
  <2>1. {"observe", "propose"} \subseteq mission[c.mission].visited
    BY <1>13 DEF GateInv, MayAssign, ProposeWrite
  <2>2. /\ Assigned(c.mission, "propose")
        /\ findings' = findings /\ dreams' = dreams \ {c}
    BY <1>13 DEF ProposeWrite, Ends
  <2>3. PICK choice \in RuleChoices :
          proposals' = [proposals EXCEPT ![c.mission] = Proposed(c.found, choice, batch)]
    BY <1>13 DEF ProposeWrite
  <2>4. TypeOK' /\ \A n \in Missions : Grown(n) /\ mission'[n].visited = mission[n].visited
    BY <1>0, <1>3, <2>1, <2>2
  <2>5. \A n \in Missions : n # c.mission => proposals'[n] = proposals[n]
    BY <1>0, <2>3
  <2>6. QED
    BY <1>0, <2>1, <2>2, <2>4, <2>5, GateKept
<1>14. ASSUME NEW c \in dreams, PromoteWrite(c)
       PROVE  GateInv'
  <2>1. {"observe", "propose"} \subseteq mission[c.mission].visited
    BY <1>14 DEF GateInv, MayAssign, PromoteWrite
  <2>2. UNCHANGED vars /\ findings' = findings /\ dreams' = dreams \ {c}
    BY <1>14 DEF PromoteWrite, Ends
  <2>3. \A n \in Missions : n # c.mission => proposals'[n] = proposals[n]
    BY <1>0, <1>14 DEF PromoteWrite
  <2>4. QED
    BY <1>0, <1>1, <2>1, <2>2, <2>3, GateKept
<1>15. CASE UNCHANGED allVars
  BY <1>0, <1>1, <1>15, GateKept DEF allVars, dreamVars
<1>16. QED
  BY <1>4, <1>5, <1>6, <1>7, <1>8, <1>9, <1>10, <1>11, <1>12, <1>13, <1>14, <1>15 DEF DreamNext

LEMMA GateInvariance == DreamSpec => []GateInv
<1>1. GateInv /\ DInv /\ [DreamNext]_allVars => GateInv'
  BY GateNext
<1>2. QED
  BY <1>1, GateInit, DreamInvariance, PTL DEF DreamSpec

\* observe_phase and propose_phase assign the phase without a check, yet never
\* one the mission has not entered through step(), and no mission holds a
\* proposal without having observed and proposed.
THEOREM DreamGateKept == DreamSpec => []DreamGateHolds
<1>1. GateInv => DreamGateHolds
  BY DEF GateInv, PhaseVisited, StoreVisited, DreamGateHolds
<1>2. QED
  BY <1>1, GateInvariance, PTL

\* The dream methods are callers of step(): with an empty payload, with and
\* without the override.
DreamsAreCallers ==
  /\ BOOLEAN \subseteq Overrides
  /\ EmptyPayload \in PayloadFor["observe"] /\ EmptyPayload \in PayloadFor["propose"]

\* What a step of the dream methods does to the mission is a step of
\* InstinctLifecycle: a caller's step(), or the assignment of a visited phase.
LEMMA DreamStepIsStep ==
  ASSUME GateInv, DInv, DreamsAreCallers, [DreamNext]_allVars
  PROVE  [Next]_vars
<1>0. dreams \subseteq DreamCall /\ {"observe", "propose"} \subseteq Phases
  BY DEF DInv, DreamTypeOK, Phases
<1>1. ASSUME NEW c \in dreams, NEW ph \in {"observe", "propose"}, NEW ov \in BOOLEAN,
             Step(c.mission, ph, EmptyPayload, ov, "none"), UNCHANGED <<calls, drifted>>
      PROVE  Next
  <2>1. /\ c.mission \in Missions /\ ph \in Phases /\ ov \in Overrides
        /\ EmptyPayload \in PayloadFor[ph] /\ "none" \in CovesFor(ph)
    BY <1>0 DEF DreamCall, DreamsAreCallers, CovesFor
  <2>2. ClientStep(c.mission, ph, EmptyPayload, ov, "none")
    BY <1>1 DEF ClientStep
  <2>3. StepNext
    BY <2>1, <2>2 DEF StepNext
  <2>4. QED
    BY <1>1, <2>3 DEF Next
<1>2. ASSUME NEW c \in dreams, NEW ph \in {"observe", "propose"},
             ph \in mission[c.mission].visited, Assigned(c.mission, ph)
      PROVE  Next
  <2>1. c.mission \in Missions /\ ph \in Phases
    BY <1>0 DEF DreamCall
  <2>2. DreamAssign(c.mission, ph)
    BY <1>2 DEF DreamAssign
  <2>3. QED
    BY <2>1, <2>2 DEF Next
<1>3. CASE StepNext /\ UNCHANGED <<drifted, dreamVars>>
  BY <1>3 DEF Next
<1>4. ASSUME NEW w \in DreamWorkers, NEW m \in Missions,
             ObserveBegin(w, m) \/ ProposeBegin(w, m) \/ PromoteBegin(w, m)
      PROVE  UNCHANGED vars
  BY <1>4 DEF ObserveBegin, ProposeBegin, PromoteBegin
<1>5. ASSUME NEW c \in dreams, ObserveLook(c) \/ ProposeRead(c) \/ PromoteWrite(c)
      PROVE  UNCHANGED vars
  BY <1>5 DEF ObserveLook, ProposeRead, PromoteWrite
<1>6. ASSUME NEW c \in dreams, ObserveCreate(c) \/ ObserveForce(c)
      PROVE  Next
  BY <1>1, <1>6 DEF ObserveCreate, ObserveForce
<1>7. ASSUME NEW c \in dreams, ProposeStep(c)
      PROVE  Next
  <2>1. c.ov \in BOOLEAN
    BY <1>0 DEF DreamCall
  <2>2. Step(c.mission, "propose", EmptyPayload, c.ov, "none") /\ UNCHANGED <<calls, drifted>>
    BY <1>7 DEF ProposeStep, Step
  <2>3. QED
    BY <1>1, <2>1, <2>2
<1>8. ASSUME NEW c \in dreams, ObserveWrite(c)
      PROVE  Next
  BY <1>2, <1>8 DEF ObserveWrite, GateInv, MayAssign
<1>9. ASSUME NEW c \in dreams, ProposeWrite(c)
      PROVE  Next
  BY <1>2, <1>9 DEF ProposeWrite, GateInv, MayAssign
<1>10. QED
  BY <1>3, <1>4, <1>5, <1>6, <1>7, <1>8, <1>9 DEF DreamNext, allVars

\* observe_phase, propose_phase and promote_finding, section by section and with
\* any number of threads, implement the lifecycle: whatever is proved of Spec
\* holds of missions under dream calls.
THEOREM LifecycleIsKept ==
  ASSUME DreamsAreCallers
  PROVE  DreamSpec => LifecycleKept
<1>1. DreamInit => Init
  BY DEF DreamInit
<1>2. GateInv /\ DInv /\ [DreamNext]_allVars => [Next]_vars
  BY DreamStepIsStep
<1>3. QED
  BY <1>1, <1>2, GateInvariance, DreamInvariance, PTL DEF DreamSpec, Spec, LifecycleKept

-----------------------------------------------------------------------------
(* With the dream methods on one thread there is one call at a time, and    *)
(* what a promotion writes back is still what the mission holds.            *)

OneWorker == \A v, w \in DreamWorkers : v = w

OneCall == \A c, d \in dreams : c = d

\* The ids a mission holds are of batches already handed out.
IdsUsed == \A m \in Missions : \A i \in DOMAIN proposals[m] : i.batch < batch

SeenCurrent ==
  \A c \in dreams :
    c.op = "promote" =>
      /\ c.id \in DOMAIN proposals[c.mission]
      /\ proposals[c.mission][c.id] = c.seen
      /\ c.target \in {"candidate", "binding"}

LInv == OneCall /\ IdsUsed /\ SeenCurrent

LEMMA LInvInit == DreamInit => LInv
<1>1. DreamInit => dreams = {} /\ \A m \in Missions : DOMAIN proposals[m] = {}
  BY DEF DreamInit, NoProposals
<1>2. QED
  BY <1>1 DEF LInv, OneCall, IdsUsed, SeenCurrent

\* Only a thread without a call begins one, and then it is the only call.
LEMMA AloneWithOneWorker ==
  ASSUME OneWorker, OneCall, dreams \subseteq DreamCall
  PROVE  /\ \A w \in DreamWorkers : Free(w) => dreams = {}
         /\ \A c \in dreams : dreams = {c}
<1>1. ASSUME NEW w \in DreamWorkers, Free(w), NEW c \in dreams PROVE FALSE
  <2>1. c.worker \in DreamWorkers
    BY DEF DreamCall
  <2>2. QED
    BY <1>1, <2>1 DEF OneWorker, Free
<1>2. QED
  BY <1>1 DEF OneCall

\* Steps that leave the proposals alone and move the one call, or end it.
LEMMA LInvMove ==
  ASSUME LInv, proposals' = proposals, batch' = batch, NEW d,
         dreams' \subseteq {d}, d.op # "promote"
  PROVE  LInv'
  BY DEF LInv, OneCall, IdsUsed, SeenCurrent

\* Steps that store proposals of batches handed out and end the one call.
LEMMA LInvStore ==
  ASSUME LInv, dreams' = {}, IdsUsed'
  PROVE  LInv'
  BY DEF LInv, OneCall, SeenCurrent

\* A new batch of proposals: the ids carry its number, the status is advisory.
LEMMA ProposedIds ==
  ASSUME NEW F \in SUBSET Bands, NEW choice, NEW k
  PROVE  \A i \in DOMAIN Proposed(F, choice, k) : i.batch = k
  BY DEF Proposed

LEMMA ProposedStatus ==
  ASSUME NEW F \in SUBSET Bands, NEW choice, NEW k
  PROVE  \A i \in DOMAIN Proposed(F, choice, k) : Proposed(F, choice, k)[i].status = "advisory"
  BY DEF Proposed, NewProposal

LEMMA LInvNext ==
  ASSUME OneWorker, DInv, LInv, [DreamNext]_allVars
  PROVE  LInv'
<1>0. /\ dreams \subseteq DreamCall /\ proposals = [m \in Missions |-> proposals[m]]
      /\ batch \in Nat
      /\ \A w \in DreamWorkers : Free(w) => dreams = {}
      /\ \A c \in dreams : dreams = {c} /\ c.mission \in Missions /\ c.found \in SUBSET Bands
  <2>1. dreams \subseteq DreamCall /\ proposals = [m \in Missions |-> proposals[m]] /\ batch \in Nat
    BY DreamConstants DEF DreamConstants, DInv, DreamTypeOK
  <2>2. QED
    BY <2>1, AloneWithOneWorker DEF LInv, DreamCall
<1>1. CASE UNCHANGED dreamVars
  BY <1>1 DEF dreamVars, LInv, OneCall, IdsUsed, SeenCurrent
<1>2. ASSUME NEW w \in DreamWorkers, NEW m \in Missions, ObserveBegin(w, m) \/ ProposeBegin(w, m)
      PROVE  LInv'
  <2>1. Free(w) /\ proposals' = proposals /\ batch' = batch
    BY <1>2 DEF ObserveBegin, ProposeBegin
  <2>2. PICK d : dreams' = dreams \cup {d} /\ d.op # "promote"
    <3>1. CASE ObserveBegin(w, m)
      <4> DEFINE e == NewCall(w, "observe", m, Looked(mission[m].phase))
      <4>1. dreams' = dreams \cup {e}
        BY <3>1 DEF ObserveBegin, Starts
      <4>2. e.op = "observe"
        BY DEF NewCall
      <4> HIDE DEF e
      <4>3. QED
        BY <4>1, <4>2
    <3>2. CASE ProposeBegin(w, m)
      <4> DEFINE c == NewCall(w, "propose", m, "step")
                 b == (mission[m].phase # "observe")
      <4>1. c \in DreamCall /\ c.op = "propose"
        <5>1. c \in DreamCall
          BY NewCallType DEF DreamOps, Stages
        <5>2. QED
          BY <5>1 DEF NewCall
      <4>2. \/ dreams' = dreams \cup {[c EXCEPT !.at = "write", !.found = findings[m]]}
            \/ dreams' = dreams \cup {[c EXCEPT !.ov = b]}
        BY <3>2 DEF ProposeBegin, Starts
      <4> HIDE DEF c, b
      <4>3. /\ [c EXCEPT !.at = "write", !.found = findings[m]].op = c.op
            /\ [c EXCEPT !.ov = b].op = c.op
        BY <4>1, CallFields
      <4>4. QED
        BY <4>1, <4>2, <4>3
    <3>3. QED
      BY <1>2, <3>1, <3>2
  <2>3. QED
    BY <1>0, <2>1, <2>2, LInvMove
<1>3. ASSUME NEW w \in DreamWorkers, NEW m \in Missions, PromoteBegin(w, m)
      PROVE  LInv'
  <2> DEFINE c == NewCall(w, "promote", m, "write")
  <2>1. c \in DreamCall /\ c.mission = m
    <3>1. c \in DreamCall
      BY NewCallType DEF DreamOps, Stages
    <3>2. QED
      BY <3>1 DEF NewCall
  <2>2. PICK i \in DOMAIN proposals[m], target \in {"candidate", "binding"}, cred \in Credentials :
          Starts([c EXCEPT !.id = i, !.seen = proposals[m][i], !.target = target, !.cred = cred])
    BY <1>3 DEF PromoteBegin
  <2> DEFINE p == proposals[m][i]
  <2>d. PICK d : d = [c EXCEPT !.id = i, !.seen = p, !.target = target, !.cred = cred]
    OBVIOUS
  <2>3. Free(w) /\ proposals' = proposals /\ batch' = batch /\ dreams' = dreams \cup {d}
    BY <1>3, <2>2, <2>d DEF PromoteBegin, Starts
  <2> HIDE DEF c, p
  <2>4. d.mission = m /\ d.id = i /\ d.seen = p /\ d.target = target
    BY <2>1, <2>d DEF DreamCall
  <2>5. dreams' = {d} /\ p = proposals'[m][i]
    BY <1>0, <2>3 DEF p
  <2>6. QED
    BY <2>2, <2>3, <2>4, <2>5 DEF LInv, OneCall, IdsUsed, SeenCurrent
<1>4. ASSUME NEW c \in dreams,
             \/ ObserveCreate(c) \/ ObserveLook(c) \/ ObserveForce(c) \/ ObserveWrite(c)
             \/ ProposeStep(c) \/ ProposeRead(c)
      PROVE  LInv'
  <2>1. proposals' = proposals /\ batch' = batch /\ c.op # "promote"
    BY <1>4 DEF ObserveCreate, ObserveLook, ObserveForce, ObserveWrite, ProposeStep, ProposeRead, vars
  <2>2. \/ \E at, F :
             \/ dreams' = (dreams \ {c}) \cup {[c EXCEPT !.at = at]}
             \/ dreams' = (dreams \ {c}) \cup {[c EXCEPT !.at = at, !.found = F]}
        \/ dreams' = dreams \ {c}
    BY <1>4 DEF ObserveCreate, ObserveLook, ObserveForce, ObserveWrite, ProposeStep, ProposeRead, Goes, Ends
  <2>3. \A at, F : [c EXCEPT !.at = at].op = c.op /\ [c EXCEPT !.at = at, !.found = F].op = c.op
    BY <1>0, CallFields
  <2>4. \E d : dreams' \subseteq {d} /\ d.op # "promote"
    <3>1. CASE dreams' = dreams \ {c}
      BY <2>1, <3>1, <1>0
    <3>2. ASSUME NEW e, dreams' = (dreams \ {c}) \cup {e}, e.op = c.op
          PROVE  \E d : dreams' \subseteq {d} /\ d.op # "promote"
      BY <1>0, <2>1, <3>2
    <3>3. QED
      BY <2>2, <2>3, <3>1, <3>2
  <2>5. QED
    BY <2>1, <2>4, LInvMove
<1>5. ASSUME NEW c \in dreams, ProposeWrite(c)
      PROVE  LInv'
  <2>1. PICK choice \in RuleChoices :
          proposals' = [proposals EXCEPT ![c.mission] = Proposed(c.found, choice, batch)]
    BY <1>5 DEF ProposeWrite
  <2>2. batch' = batch + 1 /\ dreams' = dreams \ {c}
    BY <1>5 DEF ProposeWrite, Ends
  <2> DEFINE P == Proposed(c.found, choice, batch)
  <2>3. \A i \in DOMAIN P : i.batch = batch
    <3>1. c.found \in SUBSET Bands
      BY <1>0
    <3>2. QED
      BY <3>1, ProposedIds
  <2> HIDE DEF P
  <2>4. \A m \in Missions : proposals'[m] = IF m = c.mission THEN P ELSE proposals[m]
    BY <1>0, <2>1 DEF P
  <2>5. ASSUME NEW m \in Missions, NEW i \in DOMAIN proposals'[m]
        PROVE  i.batch < batch'
    <3>1. CASE m = c.mission
      BY <1>0, <2>2, <2>3, <2>4, <3>1
    <3>2. CASE m # c.mission
      <4>1. i.batch < batch /\ i \in ProposalIds
        BY <2>4, <3>2 DEF LInv, IdsUsed, DInv, DreamTypeOK
      <4>2. i.batch \in Int
        BY <4>1 DEF ProposalIds
      <4>3. QED
        BY <1>0, <2>2, <4>1, <4>2
    <3>3. QED
      BY <3>1, <3>2
  <2>6. QED
    BY <1>0, <2>2, <2>5, LInvStore DEF IdsUsed
<1>6. ASSUME NEW c \in dreams, PromoteWrite(c)
      PROVE  LInv'
  <2> DEFINE old == proposals[c.mission]
             new == Promoted(c.seen, c.target, c.cred)
             P == [i \in DOMAIN old \cup {c.id} |-> IF i = c.id THEN new ELSE old[i]]
  <2>1. /\ proposals' = [proposals EXCEPT ![c.mission] = P]
        /\ batch' = batch /\ dreams' = dreams \ {c} /\ c.op = "promote"
    BY <1>6 DEF PromoteWrite, Ends
  <2>2. DOMAIN P = DOMAIN proposals[c.mission]
    BY <2>1 DEF LInv, SeenCurrent
  <2> HIDE DEF P
  <2>3. \A m \in Missions : DOMAIN proposals'[m] = DOMAIN proposals[m]
    BY <1>0, <2>1, <2>2
  <2>4. QED
    BY <1>0, <2>1, <2>3, LInvStore DEF LInv, IdsUsed
<1>7. CASE UNCHANGED allVars
  BY <1>1, <1>7 DEF allVars, dreamVars
<1>8. QED
  BY <1>1, <1>2, <1>3, <1>4, <1>5, <1>6, <1>7 DEF DreamNext

LEMMA LInvariance == ASSUME OneWorker PROVE DreamSpec => []LInv
<1>1. DInv /\ LInv /\ [DreamNext]_allVars => LInv'
  BY LInvNext
<1>2. QED
  BY <1>1, LInvInit, DreamInvariance, PTL DEF DreamSpec

-----------------------------------------------------------------------------
(* Every step of the dream methods is a step of the ladder or a stutter.    *)

\* A promotion leaves the status or takes it to the next rung.
LEMMA PromotedClimbs ==
  ASSUME NEW p \in Proposal, NEW target \in {"candidate", "binding"}, NEW cred \in Credential
  PROVE  LET s == Promoted(p, target, cred).status IN
         \/ s = p.status
         \/ p.status \in {"advisory", "candidate"} /\ s = Ladder!Above(p.status)
<1> DEFINE q == [p EXCEPT !.cove = cred.cove]
           s == [q EXCEPT !.status = target]
<1>1. q \in Proposal /\ q.status = p.status
  BY DEF Proposal, Credential
<1>2. target \in Statuses
  BY DEF Statuses
<1>3. s \in Proposal /\ s.status = target
  BY <1>1, <1>2 DEF Proposal
<1> HIDE DEF s
<1>4. WithCredentials(s, cred).status = target
  BY <1>3, WithCredentialsFields
<1>5. CASE Promoted(p, target, cred) \in {p, q}
  BY <1>1, <1>5
<1>6. CASE Promoted(p, target, cred) = WithCredentials(s, cred) /\ p.status = Below(target)
  BY <1>4, <1>6 DEF Below, Ladder!Above
<1>7. QED
  BY <1>5, <1>6 DEF Promoted, s

\* The rungs of all proposals; a step that keeps every one is a stutter.
LEMMA RungsSame ==
  ASSUME \A m \in Missions : \A i \in ProposalIds : Rung(m, i)' = Rung(m, i)
  PROVE  [x \in Missions \X ProposalIds |-> Rung(x[1], x[2])]'
           = [x \in Missions \X ProposalIds |-> Rung(x[1], x[2])]
  OBVIOUS

LEMMA LadderStart == DreamInit => Ladder!Init
<1> SUFFICES ASSUME DreamInit PROVE Ladder!Init
  OBVIOUS
<1>1. batch = 1 /\ \A m \in Missions : DOMAIN proposals[m] = {}
  BY DEF DreamInit, NoProposals
<1>2. ASSUME NEW m \in Missions, NEW i \in ProposalIds PROVE Rung(m, i) = "none"
  <2>1. ~(i.batch < 1)
    BY DreamConstants DEF DreamConstants, ProposalIds
  <2>2. QED
    BY <1>1, <2>1 DEF Rung
<1>3. QED
  BY <1>2 DEF Ladder!Init

\* A step that changes the rung of one proposal, and by one, climbs.
LEMMA OneClimbs ==
  ASSUME NEW m \in Missions, NEW i \in ProposalIds,
         Rung(m, i) \in {"advisory", "candidate"}, Rung(m, i)' = Ladder!Above(Rung(m, i)),
         \A n \in Missions : \A j \in ProposalIds :
           n # m \/ j # i => Rung(n, j)' = Rung(n, j)
  PROVE  Ladder!Next
<1> DEFINE Ids == Missions \X ProposalIds
           x == <<m, i>>
<1>1. x \in Ids /\ x[1] = m /\ x[2] = i
  OBVIOUS
<1>2. ASSUME NEW y \in Ids, y # x PROVE Rung(y[1], y[2])' = Rung(y[1], y[2])
  <2>1. y[1] \in Missions /\ y[2] \in ProposalIds /\ (y[1] # m \/ y[2] # i)
    BY <1>2
  <2>2. QED
    BY <2>1
<1>3. Ladder!Climb(x)
  BY <1>1, <1>2 DEF Ladder!Climb
<1>4. QED
  BY <1>1, <1>3 DEF Ladder!Next

\* A new batch: its ids are on the first rung, what the mission held is dropped.
LEMMA BatchProposes ==
  ASSUME DInv, LInv, NEW c \in dreams, ProposeWrite(c)
  PROVE  Ladder!Propose
<1> DEFINE Ids == Missions \X ProposalIds
<1>1. /\ c.mission \in Missions /\ c.found \in SUBSET Bands
      /\ batch \in Nat /\ batch' = batch + 1 /\ batch \in 1..MaxBatches
  <2>1. c \in DreamCall /\ batch \in 1..(MaxBatches + 1) /\ MaxBatches \in Nat
    BY DreamConstants DEF DreamConstants, DInv, DreamTypeOK
  <2>2. QED
    BY <2>1 DEF DreamCall, ProposeWrite
<1>2. PICK choice \in RuleChoices :
        proposals' = [proposals EXCEPT ![c.mission] = Proposed(c.found, choice, batch)]
  BY DEF ProposeWrite
<1> DEFINE P == Proposed(c.found, choice, batch)
<1>3. \A i \in DOMAIN P : i.batch = batch /\ P[i].status = "advisory"
  <2>1. c.found \in SUBSET Bands
    BY <1>1
  <2>2. \A i \in DOMAIN P : i.batch = batch
    BY <2>1, ProposedIds
  <2>3. \A i \in DOMAIN P : P[i].status = "advisory"
    BY <2>1, ProposedStatus
  <2>4. QED
    BY <2>2, <2>3
<1>4. DOMAIN P \subseteq ProposalIds
  BY <1>1, ProposedType
<1> HIDE DEF P
<1>5. \A m \in Missions : proposals'[m] = IF m = c.mission THEN P ELSE proposals[m]
  BY <1>1, <1>2 DEF DInv, P
<1> DEFINE New == {x \in Ids : x[1] = c.mission /\ x[2] \in DOMAIN P}
           Dropped == {x \in Ids \ New : Rung(x[1], x[2])' = "dropped"}
<1>6. ASSUME NEW x \in New
      PROVE  Rung(x[1], x[2]) = "none" /\ Rung(x[1], x[2])' = "advisory"
  <2>1. x[2].batch = batch /\ x[1] = c.mission /\ P[x[2]].status = "advisory"
    BY <1>3
  <2>2. x[2] \notin DOMAIN proposals[x[1]]
    BY <1>1, <2>1 DEF LInv, IdsUsed
  <2>3. Rung(x[1], x[2]) = "none"
    BY <1>1, <2>1, <2>2 DEF Rung
  <2>4. Rung(x[1], x[2])' = "advisory"
    BY <1>1, <1>5, <2>1 DEF Rung
  <2>5. QED
    BY <2>3, <2>4
<1>7. ASSUME NEW x \in Ids, x \notin New, x \notin Dropped
      PROVE  Rung(x[1], x[2])' = Rung(x[1], x[2])
  <2>0. PICK m \in Missions, i \in ProposalIds : m = x[1] /\ i = x[2]
    OBVIOUS
  <2>1. i.batch \in Int
    BY DEF ProposalIds
  <2>2. Rung(m, i)' # "dropped" /\ ~(m = c.mission /\ i \in DOMAIN P)
    BY <1>7, <2>0
  <2> HIDE DEF New, Dropped
  <2> SUFFICES Rung(m, i)' = Rung(m, i)
    BY <2>0
  <2>3. CASE m # c.mission /\ i \in DOMAIN proposals[m]
    BY <1>5, <2>1, <2>3 DEF Rung
  <2>4. CASE m = c.mission \/ i \notin DOMAIN proposals[m]
    <3>1. i \notin DOMAIN proposals'[m]
      BY <1>5, <2>1, <2>2, <2>4
    <3>2. ~(i.batch < batch')
      BY <2>2, <3>1 DEF Rung
    <3>3. ~(i.batch < batch)
      BY <1>1, <2>1, <3>2
    <3>4. i \notin DOMAIN proposals[m]
      BY <2>1, <3>3 DEF LInv, IdsUsed
    <3>5. QED
      BY <3>1, <3>2, <3>3, <3>4 DEF Rung
  <2>5. QED
    BY <2>3, <2>4
<1>8. New \in SUBSET {x \in Ids : [y \in Ids |-> Rung(y[1], y[2])][x] = "none"}
  <2>1. New \subseteq Ids
    OBVIOUS
  <2> HIDE DEF New
  <2>2. QED
    BY <1>6, <2>1
<1>9. Dropped \in SUBSET (Ids \ New)
  OBVIOUS
<1>10. ASSUME NEW x \in Ids
       PROVE  Rung(x[1], x[2])' = CASE x \in New     -> "advisory"
                                    [] x \in Dropped -> "dropped"
                                    [] OTHER         -> Rung(x[1], x[2])
  <2>1. x \in Dropped => x \notin New /\ Rung(x[1], x[2])' = "dropped"
    OBVIOUS
  <2> HIDE DEF New, Dropped
  <2>2. QED
    BY <1>6, <1>7, <2>1
<1> HIDE DEF New, Dropped
<1> DEFINE rung == [x \in Ids |-> Rung(x[1], x[2])]
<1>11. rung' = [x \in Ids |-> CASE x \in New     -> "advisory"
                               [] x \in Dropped -> "dropped"
                               [] OTHER         -> rung[x]]
  BY <1>10
<1>12. QED
  BY <1>8, <1>9, <1>11 DEF Ladder!Propose

\* The one pending promotion writes back what the mission still holds, promoted.
LEMMA PromotionClimbs ==
  ASSUME DInv, LInv, NEW c \in dreams, PromoteWrite(c)
  PROVE  \/ Ladder!Next
         \/ \A m \in Missions : \A i \in ProposalIds : Rung(m, i)' = Rung(m, i)
<1> DEFINE old == proposals[c.mission]
           new == Promoted(c.seen, c.target, c.cred)
           P == [i \in DOMAIN old \cup {c.id} |-> IF i = c.id THEN new ELSE old[i]]
<1>1. /\ c.mission \in Missions /\ c.id \in ProposalIds
      /\ c.seen \in Proposal /\ c.cred \in Credential
  BY DEF DInv, DreamTypeOK, DreamCall
<1>2. /\ proposals' = [proposals EXCEPT ![c.mission] = P]
      /\ batch' = batch /\ c.op = "promote"
  BY DEF PromoteWrite
<1>3. /\ c.id \in DOMAIN proposals[c.mission] /\ proposals[c.mission][c.id] = c.seen
      /\ c.target \in {"candidate", "binding"}
  BY <1>2 DEF LInv, SeenCurrent
<1>4. \/ new.status = c.seen.status
      \/ c.seen.status \in {"advisory", "candidate"} /\ new.status = Ladder!Above(c.seen.status)
  BY <1>1, <1>3, PromotedClimbs
<1> HIDE DEF new
<1>5. /\ DOMAIN P = DOMAIN proposals[c.mission] /\ P[c.id] = new
      /\ \A i \in DOMAIN P : i # c.id => P[i] = proposals[c.mission][i]
  BY <1>3
<1> HIDE DEF P
<1>6. \A m \in Missions : proposals'[m] = IF m = c.mission THEN P ELSE proposals[m]
  BY <1>1, <1>2 DEF DInv
<1>7. ASSUME NEW m \in Missions, NEW i \in ProposalIds, m # c.mission \/ i # c.id
      PROVE  Rung(m, i)' = Rung(m, i)
  BY <1>2, <1>5, <1>6, <1>7 DEF Rung
<1>8. Rung(c.mission, c.id) = c.seen.status /\ Rung(c.mission, c.id)' = new.status
  BY <1>1, <1>3, <1>5, <1>6 DEF Rung
<1>9. CASE new.status = c.seen.status
  BY <1>7, <1>8, <1>9
<1>10. CASE c.seen.status \in {"advisory", "candidate"} /\ new.status = Ladder!Above(c.seen.status)
  <2>1. Rung(c.mission, c.id)' = Ladder!Above(Rung(c.mission, c.id))
    BY <1>8, <1>10
  <2>2. Ladder!Next
    BY <1>1, <1>7, <1>8, <1>10, <2>1, OneClimbs
  <2>3. QED
    BY <2>2
<1>11. QED
  BY <1>4, <1>9, <1>10

LEMMA LadderStep ==
  ASSUME DInv, LInv, [DreamNext]_allVars
  PROVE  [Ladder!Next]_([x \in Missions \X ProposalIds |-> Rung(x[1], x[2])])
<1>1. CASE proposals' = proposals /\ batch' = batch
  <2>1. \A m \in Missions : \A i \in ProposalIds : Rung(m, i)' = Rung(m, i)
    BY <1>1 DEF Rung
  <2>2. QED
    BY <2>1, RungsSame
<1>2. ASSUME NEW c \in dreams, ProposeWrite(c)
      PROVE  Ladder!Next
  BY <1>2, BatchProposes DEF Ladder!Next
<1>3. ASSUME NEW c \in dreams, PromoteWrite(c)
      PROVE  [Ladder!Next]_([x \in Missions \X ProposalIds |-> Rung(x[1], x[2])])
  BY <1>3, PromotionClimbs, RungsSame
<1>4. QED
  BY <1>1, <1>2, <1>3
     DEF DreamNext, allVars, dreamVars, ObserveBegin, ProposeBegin, PromoteBegin, ObserveCreate,
         ObserveLook, ObserveForce, ObserveWrite, ProposeStep, ProposeRead

\* With the dream methods on one thread, whatever the clients do in between, a
\* proposal is made once, climbs one rung at a time and, once dropped, never
\* returns: the lifecycle implements the promotion ladder.
THEOREM LadderIsClimbed == ASSUME OneWorker PROVE DreamSpec => LadderClimbed
<1>1. DInv /\ LInv /\ [DreamNext]_allVars
        => [Ladder!Next]_([x \in Missions \X ProposalIds |-> Rung(x[1], x[2])])
  BY LadderStep
<1>2. QED
  BY <1>1, LadderStart, LInvariance, DreamInvariance, PTL DEF DreamSpec, LadderClimbed, Ladder!Spec

LEMMA LadderKeepsRank ==
  ASSUME DInv, DInv', NEW m \in Missions, NEW i \in DOMAIN proposals[m] \cap DOMAIN proposals'[m],
         [Ladder!Next]_([x \in Missions \X ProposalIds |-> Rung(x[1], x[2])])
  PROVE  Rank(proposals'[m][i].status) >= Rank(proposals[m][i].status)
<1> DEFINE Ids == Missions \X ProposalIds
           rung == [x \in Ids |-> Rung(x[1], x[2])]
           s == proposals[m][i].status
           t == proposals'[m][i].status
<1>1. i \in ProposalIds /\ s \in Statuses /\ t \in Statuses
  BY DEF DInv, DreamTypeOK, Proposal
<1>2. /\ <<m, i>> \in Ids
      /\ rung[<<m, i>>] = s /\ rung'[<<m, i>>] = t
  BY <1>1 DEF Rung
<1> HIDE DEF Ids, rung
<1>3. t = s \/ (s \in {"advisory", "candidate"} /\ t = Ladder!Above(s))
  <2>1. CASE rung' = rung
    BY <1>2, <2>1
  <2>2. ASSUME NEW j \in Ids, Ladder!Climb(j)
        PROVE  t = s \/ (s \in {"advisory", "candidate"} /\ t = Ladder!Above(s))
    <3>1. rung[j] \in {"advisory", "candidate"} /\ rung' = [rung EXCEPT ![j] = Ladder!Above(@)]
      BY <2>2 DEF Ladder!Climb, rung, Ids
    <3>2. rung'[<<m, i>>] = IF j = <<m, i>> THEN Ladder!Above(rung[j]) ELSE rung[<<m, i>>]
      BY <1>2, <3>1 DEF rung
    <3>3. QED
      BY <1>2, <3>1, <3>2
  <2>3. CASE Ladder!Propose
    <3> DEFINE Moved(New, Dropped) ==
                 rung' = [x \in Ids |-> CASE x \in New     -> "advisory"
                                          [] x \in Dropped -> "dropped"
                                          [] OTHER         -> rung[x]]
    <3>0. PICK New \in SUBSET {x \in Ids : rung[x] = "none"} :
            \E Dropped \in SUBSET (Ids \ New) : Moved(New, Dropped)
      BY <2>3 DEF Ladder!Propose, rung, Ids
    <3>1. PICK Dropped \in SUBSET (Ids \ New) : Moved(New, Dropped)
      BY <3>0
    <3>2. <<m, i>> \notin New /\ <<m, i>> \notin Dropped
      BY <1>1, <1>2, <3>1 DEF Statuses
    <3>3. QED
      BY <1>2, <3>1, <3>2
  <2>4. QED
    BY <2>1, <2>2, <2>3 DEF Ladder!Next, rung, Ids
<1>4. QED
  BY <1>1, <1>3 DEF Statuses, Rank, Ladder!Above

\* The run lost_promotion shows a promotion written over by a late one: it takes
\* a second thread.  With one, no promotion is ever lost.
THEOREM OneThreadLosesNothing == ASSUME OneWorker PROVE DreamSpec => PromotionNeverLost
<1>1. DInv /\ DInv' /\ LInv /\ [DreamNext]_allVars
        => [\A m \in Missions : \A i \in DOMAIN proposals[m] \cap DOMAIN proposals'[m] :
              Rank(proposals'[m][i].status) >= Rank(proposals[m][i].status)]_allVars
  BY LadderStep, LadderKeepsRank
<1>2. QED
  BY <1>1, LInvariance, DreamInvariance, PTL DEF DreamSpec, PromotionNeverLost
=============================================================================
