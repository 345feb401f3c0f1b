------------------------ MODULE MCInstinctLifecycle ------------------------
(* Instances of InstinctLifecycle for TLC. *)
EXTENDS InstinctLifecycle, TLC

CONSTANTS n1, n2

MCTemplates == {{n1}, {n1, n2}}

Plan(kind, d) == [EmptyPayload EXCEPT !.plan = kind, !.dag = d]
Run(kind, t)  == [EmptyPayload EXCEPT !.run = kind, !.trace = t]

PlanPayloads == {EmptyPayload, Plan("bad", {}), Plan("good", {n1})}

\* A run that succeeds for {n1}, one that fails, one that replaces the plan on
\* the way, and one whose trace is refused after its plan has been stored.
ExecutePayloads ==
  {EmptyPayload,
   Run("good", [n \in Nodes |-> IF n = n1 THEN "allowed" ELSE "planned"]),
   Run("good", [n \in Nodes |-> IF n = n1 THEN "denied" ELSE "planned"]),
   [Plan("good", {n2}) EXCEPT
      !.run = "good", !.trace = [n \in Nodes |-> IF n = n2 THEN "allowed" ELSE "planned"]],
   [Plan("good", {n2}) EXCEPT !.run = "bad"]}

VerifyPayloads ==
  {EmptyPayload} \cup
  {[EmptyPayload EXCEPT !.report = "passing", !.evidence = e] : e \in {"none", "stale"}}

MCPayloadFor ==
  [ph \in Phases |->
     CASE ph = "specify" -> {EmptyPayload, Plan("good", {n2})}
       [] ph = "plan"    -> PlanPayloads
       [] ph = "execute" -> ExecutePayloads
       [] ph = "verify"  -> VerifyPayloads
       [] OTHER -> {EmptyPayload}]

\* One plan and one run, each also refused: enough to disturb the ledger and the
\* contract when overrides let a mission jump between any two phases.
MCFewPayloads ==
  [ph \in Phases |->
     CASE ph = "plan"    -> {Plan("bad", {}), Plan("good", {n1})}
       [] ph = "execute" -> {Run("bad", NoTrace), Plan("good", {}),
                             Run("good", [n \in Nodes |-> IF n = n1 THEN "allowed" ELSE "planned"])}
       [] ph = "verify"  -> {[EmptyPayload EXCEPT !.report = "passing", !.evidence = e] :
                               e \in {"none", "stale"}}
       [] OTHER -> {EmptyPayload}]

=============================================================================
