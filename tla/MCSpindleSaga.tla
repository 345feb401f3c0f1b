--------------------------- MODULE MCSpindleSaga ---------------------------
(* A diamond: b and c depend on a, d on both; b and d can be compensated,  *)
(* and so can a.                                                           *)
EXTENDS SpindleSaga

MCNodes == {"a", "b", "c", "d"}
MCDependsOn ==
  [n \in MCNodes |-> CASE n = "a" -> {} [] n = "d" -> {"b", "c"} [] OTHER -> {"a"}]
MCCompensable == {"a", "b", "d"}
=============================================================================
