--------------------------- MODULE MCDreamBinding ---------------------------
(* Instances of DreamBinding for TLC. *)
EXTENDS DreamBinding, TLC

\* Clients step the mission between observe, propose and one later phase, with
\* empty payloads; an override makes the way back as short as the way on.
MCPhases == {"observe", "propose", "specify"}
MCPayloadFor ==
  [ph \in Phases |-> IF ph \in MCPhases THEN {EmptyPayload} ELSE {}]
NoClients == [ph \in Phases |-> {}]

MCFindingSets == {{}, {"high"}, {"mid", "low"}}
OneFinding == {{}, {"low"}}

Cred(v, t, s) == [cove |-> v, token |-> t, votes |-> s]
MCCredentials ==
  {Cred("none", "valid", "quorum"), Cred("failed", "valid", "none"),
   Cred("passed", "none", "none"), Cred("passed", "junk", "quorum"),
   Cred("passed", "valid", "few"), Cred("assumed", "none", "quorum")}
TwoPasses == {Cred("passed", "valid", "quorum"), Cred("passed", "none", "few")}

Symmetric == Permutations(DreamWorkers)
=============================================================================
