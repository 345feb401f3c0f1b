---------------------------- MODULE DreamBinding ----------------------------
(***************************************************************************)
(* The dream-cycle binding of hlf_mcp/instinct/lifecycle.py and the        *)
(* promotion rules of hlf_mcp/hlf/dream_proposal.py, composed with the     *)
(* mission state machine.  observe_phase, propose_phase and                *)
(* promote_finding take the lifecycle's lock for each read and each write  *)
(* and give it up in between: every locked section is one action, and a    *)
(* call is an element of `dreams' from its first section to its last.      *)
(***************************************************************************)
EXTENDS InstinctLifecycle

CONSTANTS
  DreamWorkers,  \* threads that run the dream methods
  FindingSets,   \* what build_dream_findings may return: sets of bands
  RuleChoices,   \* promotion rules a caller may ask propose_phase for
  Credentials,   \* what callers of promote_finding may present
  MaxBatches     \* bound on the propose_phase calls that store proposals

VARIABLES
  findings,   \* mission["dream_findings"]: the confidence band of each finding
  proposals,  \* mission["dream_proposals"]: a function on the proposal ids
  dreams,     \* calls of the dream methods between two locked sections
  batch       \* number of the next batch of proposal ids

dreamVars == <<findings, proposals, dreams, batch>>
allVars == <<vars, dreamVars>>

-----------------------------------------------------------------------------
(* Findings, proposals and credentials.                                    *)

\* confidence >= 0.85, >= 0.6, below.
Bands == {"high", "mid", "low"}

Rules == {"auto", "manual", "vote"}
RuleOf(band) == CASE band = "high" -> "auto" [] band = "mid" -> "manual" [] OTHER -> "vote"

Statuses == {"advisory", "candidate", "binding"}

\* "assumed" is the pass run_observe_propose_cycle makes up when it is given no
\* CoVE result.
CoveVerdicts == {"none", "failed", "passed", "assumed"}
CovePassed(v) == v \in {"passed", "assumed"}

Tokens == {"none", "junk", "valid"}
Votes  == {"none", "few", "quorum"}
Credential == [cove: CoveVerdicts, token: Tokens, votes: Votes]

ProposalIds == [batch: 1..MaxBatches, band: Bands]
Proposal ==
  [status: Statuses, band: Bands, rule: Rules, cove: CoveVerdicts,
   token: Tokens, votes: Votes]

NewProposal(band, rule) ==
  [status |-> "advisory", band |-> band, rule |-> rule, cove |-> "none",
   token |-> "none", votes |-> "none"]

NoProposals == [i \in {} |-> NewProposal("low", "vote")]

ASSUME DreamConstants ==
  /\ FindingSets \subseteq SUBSET Bands
  /\ RuleChoices \subseteq Rules \cup {"byConfidence"}
  /\ Credentials \subseteq Credential
  /\ MaxBatches \in Nat \ {0}

DreamOps == {"observe", "propose", "promote"}
Stages == {"look", "create", "force", "step", "read", "write"}
DreamCall ==
  [worker: DreamWorkers, op: DreamOps, at: Stages, mission: Missions,
   ov: BOOLEAN, found: SUBSET Bands, id: ProposalIds, seen: Proposal,
   target: Statuses, cred: Credential]

-----------------------------------------------------------------------------
(* The promotion rules.                                                    *)

\* Mutation: votes count unchecked.
EligibleByAnyVote(p, cred) ==
  CASE p.rule = "auto"   -> p.band = "high"
    [] p.rule = "manual" -> cred.token = "valid"
    [] p.rule = "vote"   -> cred.votes # "none" \/ p.votes = "quorum"

\* Votes given with the call count; without them the stored ones do.
Eligible(p, cred) ==
  CASE p.rule = "auto"   -> p.band = "high"
    [] p.rule = "manual" -> cred.token = "valid"
    [] p.rule = "vote"   -> IF cred.votes # "none" THEN cred.votes = "quorum"
                                                   ELSE p.votes = "quorum"

Below(target) == IF target = "candidate" THEN "advisory" ELSE "candidate"

WithCredentials(p, cred) ==
  [p EXCEPT !.token = IF cred.token # "none" THEN cred.token ELSE @,
            !.votes = IF cred.votes # "none" THEN cred.votes ELSE @]

\* Mutation: the current status is not checked.
PromotedFromAny(p, target, cred) ==
  LET q == [p EXCEPT !.cove = cred.cove] IN
    IF ~CovePassed(cred.cove) THEN p
    ELSE IF ~Eligible(p, cred) THEN q
    ELSE WithCredentials([q EXCEPT !.status = target], cred)

\* promote_to_candidate and promote_to_binding: the CoVE result is kept even if
\* the rule then refuses, the credentials only if it does not.
Promoted(p, target, cred) ==
  LET q == [p EXCEPT !.cove = cred.cove] IN
    IF p.status # Below(target) \/ ~CovePassed(cred.cove) THEN p
    ELSE IF ~Eligible(p, cred) THEN q
    ELSE WithCredentials([q EXCEPT !.status = target], cred)

-----------------------------------------------------------------------------
(* Calls of the dream methods.                                             *)

Free(w) == \A c \in dreams : c.worker # w

\* Fields a method does not use keep these values.
Blank == [batch |-> 1, band |-> "low"]
NoCredential == [cove |-> "none", token |-> "none", votes |-> "none"]
NewCall(w, op, m, at) ==
  [worker |-> w, op |-> op, at |-> at, mission |-> m, ov |-> FALSE, found |-> {},
   id |-> Blank, seen |-> NewProposal("low", "vote"), target |-> "candidate",
   cred |-> NoCredential]

Starts(c) == dreams' = dreams \cup {c}
Goes(c, d) == dreams' = (dreams \ {c}) \cup {d}
Ends(c) == dreams' = dreams \ {c}

\* Mutation: the forced transition is skipped.
LookedUnforced(ph) == IF ph = "absent" THEN "create" ELSE "write"

\* What observe_phase does next, by the phase it reads.
Looked(ph) ==
  CASE ph = "absent"  -> "create"
    [] ph = "observe" -> "write"
    [] OTHER          -> "force"

ObserveBegin(w, m) ==
  /\ Free(w)
  /\ Starts(NewCall(w, "observe", m, Looked(mission[m].phase)))
  /\ UNCHANGED <<vars, findings, proposals, batch>>

ObserveCreate(c) ==
  /\ c.op = "observe" /\ c.at = "create"
  /\ Step(c.mission, "observe", EmptyPayload, FALSE, "none")
  /\ Goes(c, [c EXCEPT !.at = "look"])
  /\ UNCHANGED <<calls, drifted, findings, proposals, batch>>

ObserveLook(c) ==
  /\ c.op = "observe" /\ c.at = "look"
  /\ Goes(c, [c EXCEPT !.at = Looked(mission[c.mission].phase)])
  /\ UNCHANGED <<vars, findings, proposals, batch>>

ObserveForce(c) ==
  /\ c.op = "observe" /\ c.at = "force"
  /\ Step(c.mission, "observe", EmptyPayload, TRUE, "none")
  /\ Goes(c, [c EXCEPT !.at = "write"])
  /\ UNCHANGED <<calls, drifted, findings, proposals, batch>>

ObserveWrite(c) ==
  /\ c.op = "observe" /\ c.at = "write"
  /\ \E F \in FindingSets : findings' = [findings EXCEPT ![c.mission] = F]
  /\ Assigned(c.mission, "observe")
  /\ Ends(c)
  /\ UNCHANGED <<proposals, batch>>

\* propose_phase refuses at once a mission that is neither at observe nor has
\* findings, and one at propose without findings.
ProposeBegin(w, m) ==
  LET ph == mission[m].phase
      c  == NewCall(w, "propose", m, "step") IN
  /\ Free(w) /\ Exists(m)
  /\ ph = "observe" \/ findings[m] # {}
  /\ IF ph = "propose"
       THEN Starts([c EXCEPT !.at = "write", !.found = findings[m]])
       ELSE Starts([c EXCEPT !.ov = (ph # "observe")])
  /\ UNCHANGED <<vars, findings, proposals, batch>>

ProposeStep(c) ==
  /\ c.op = "propose" /\ c.at = "step"
  /\ \/ StepOk(c.mission, "propose", EmptyPayload, c.ov, "none")
        /\ Goes(c, [c EXCEPT !.at = "read"])
     \/ StepNotOk(c.mission, "propose", EmptyPayload, c.ov, "none")
        /\ Ends(c)
  /\ UNCHANGED <<calls, drifted, findings, proposals, batch>>

ProposeRead(c) ==
  /\ c.op = "propose" /\ c.at = "read"
  /\ IF findings[c.mission] = {}
       THEN Ends(c)
       ELSE Goes(c, [c EXCEPT !.at = "write", !.found = findings[c.mission]])
  /\ UNCHANGED <<vars, findings, proposals, batch>>

\* Mutation: the rule asked for is stored as it is.
ProposedUnresolved(F, choice, k) ==
  [i \in {[batch |-> k, band |-> b] : b \in F} |-> NewProposal(i.band, choice)]

\* Every finding gets a proposal with a new id; the old proposals are dropped.
Proposed(F, choice, k) ==
  [i \in {[batch |-> k, band |-> b] : b \in F} |->
     NewProposal(i.band, IF choice = "byConfidence" THEN RuleOf(i.band) ELSE choice)]

ProposeWrite(c) ==
  /\ c.op = "propose" /\ c.at = "write"
  /\ batch <= MaxBatches
  /\ \E choice \in RuleChoices :
       proposals' = [proposals EXCEPT ![c.mission] = Proposed(c.found, choice, batch)]
  /\ batch' = batch + 1
  /\ Assigned(c.mission, "propose")
  /\ Ends(c)
  /\ UNCHANGED findings

PromoteBegin(w, m) ==
  /\ Free(w)
  /\ \E i \in DOMAIN proposals[m], target \in {"candidate", "binding"}, cred \in Credentials :
       Starts([NewCall(w, "promote", m, "write") EXCEPT
                 !.id = i, !.seen = proposals[m][i], !.target = target, !.cred = cred])
  /\ UNCHANGED <<vars, findings, proposals, batch>>

\* The proposal read at the start is written back, promoted or not, and whether
\* or not the mission still has it.
PromoteWrite(c) ==
  LET old == proposals[c.mission]
      new == Promoted(c.seen, c.target, c.cred) IN
  /\ c.op = "promote"
  /\ proposals' = [proposals EXCEPT ![c.mission] =
                     [i \in DOMAIN old \cup {c.id} |-> IF i = c.id THEN new ELSE old[i]]]
  /\ Ends(c)
  /\ UNCHANGED <<vars, findings, batch>>

DreamInit ==
  /\ Init
  /\ findings = [m \in Missions |-> {}]
  /\ proposals = [m \in Missions |-> NoProposals]
  /\ dreams = {}
  /\ batch = 1

DreamNext ==
  \/ StepNext /\ UNCHANGED <<drifted, dreamVars>>
  \/ \E w \in DreamWorkers, m \in Missions :
       ObserveBegin(w, m) \/ ProposeBegin(w, m) \/ PromoteBegin(w, m)
  \/ \E c \in dreams :
       \/ ObserveCreate(c) \/ ObserveLook(c) \/ ObserveForce(c) \/ ObserveWrite(c)
       \/ ProposeStep(c) \/ ProposeRead(c) \/ ProposeWrite(c)
       \/ PromoteWrite(c)

DreamSpec == DreamInit /\ [][DreamNext]_allVars
-----------------------------------------------------------------------------
(* Properties.                                                             *)

\* Findings, proposals and pending calls have their types.
DreamTypeOK ==
  /\ findings \in [Missions -> SUBSET Bands]
  /\ \A m \in Missions :
       /\ DOMAIN proposals[m] \subseteq ProposalIds
       /\ \A i \in DOMAIN proposals[m] : proposals[m][i] \in Proposal
  /\ dreams \subseteq DreamCall
  /\ batch \in 1..(MaxBatches + 1)

\* Whatever calls overlap, and however late one writes back what it read, a
\* stored proposal above advisory carries the CoVE pass and the credential its
\* own rule asks for: no mixture of two calls is ever stored.
PromotionJustified ==
  \A m \in Missions : \A i \in DOMAIN proposals[m] :
    LET p == proposals[m][i] IN
    p.status # "advisory" =>
      /\ CovePassed(p.cove)
      /\ p.rule = "auto" => p.band = "high"
      /\ p.rule = "manual" => p.token = "valid"
      /\ p.rule = "vote" => p.votes = "quorum"

\* A mission with proposals has been through observe and propose, and the phase
\* it shows is one it entered through step(), although observe_phase and
\* propose_phase assign the phase directly.
DreamGateHolds ==
  \A m \in Missions :
    /\ Exists(m) => mission[m].phase \in mission[m].visited
    /\ DOMAIN proposals[m] # {} => {"observe", "propose"} \subseteq mission[m].visited

\* The calls of the dream methods, section by section, do to the mission what
\* InstinctLifecycle allows: each writes a phase through step() or assigns one
\* the mission has entered, so its theorems hold of missions under dream calls.
LifecycleKept == Spec

\* Documented: the lifecycle is thread-safe and promotes advisory to candidate
\* to binding; nothing says that a stored proposal may be demoted.
Rank(s) == CASE s = "advisory" -> 0 [] s = "candidate" -> 1 [] OTHER -> 2
PromotionNeverLost ==
  [][\A m \in Missions : \A i \in DOMAIN proposals[m] \cap DOMAIN proposals'[m] :
       Rank(proposals'[m][i].status) >= Rank(proposals[m][i].status)]_allVars

-----------------------------------------------------------------------------
(* One thread of dream calls climbs the ladder of PromotionLadder.  An id    *)
(* whose batch has been handed out and that no mission holds is dropped.     *)

Rung(m, i) ==
  IF i \in DOMAIN proposals[m] THEN proposals[m][i].status
  ELSE IF i.batch < batch THEN "dropped" ELSE "none"

Ladder == INSTANCE PromotionLadder WITH
            Ids <- Missions \X ProposalIds,
            rung <- [x \in Missions \X ProposalIds |-> Rung(x[1], x[2])]

\* With the dream methods on one thread, while clients step the mission, a
\* proposal is made once, climbs one rung at a time and is gone for good when a
\* new batch replaces it.
LadderClimbed == Ladder!Spec
=============================================================================
