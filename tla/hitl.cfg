\* Four calls decide one request, in every order and with every crash.
SPECIFICATION Spec
CONSTANT Calls = {c1, c2, c3, c4}
SYMMETRY Interchangeable
INVARIANTS
  HITLTypeOK
  ConflictsOverlap
  UndecodableExplained
CHECK_DEADLOCK FALSE
