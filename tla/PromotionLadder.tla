-------------------------- MODULE PromotionLadder --------------------------
(***************************************************************************)
(* What dream_proposal.py promises of a proposal: advisory to candidate to *)
(* binding, one rung at a time, until it is dropped; a dropped proposal    *)
(* never returns.                                                          *)
(***************************************************************************)
CONSTANT Ids

VARIABLE rung

Rungs == {"none", "advisory", "candidate", "binding", "dropped"}

Above(r) == CASE r = "advisory" -> "candidate" [] r = "candidate" -> "binding"

Init == rung = [i \in Ids |-> "none"]

\* New proposals, and the ones (or the unused ids) they push out.
Propose ==
  \E New \in SUBSET {i \in Ids : rung[i] = "none"} :
    \E Dropped \in SUBSET (Ids \ New) :
      rung' = [i \in Ids |-> CASE i \in New     -> "advisory"
                               [] i \in Dropped -> "dropped"
                               [] OTHER         -> rung[i]]

Climb(i) ==
  /\ rung[i] \in {"advisory", "candidate"}
  /\ rung' = [rung EXCEPT ![i] = Above(@)]

Next == Propose \/ \E i \in Ids : Climb(i)

Spec == Init /\ [][Next]_rung
=============================================================================
