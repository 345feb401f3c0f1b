\* One mission, one helper thread, clients that never override, dream writes.
SPECIFICATION Spec
CONSTANTS
  n1 = n1
  n2 = n2
  Missions = {m1}
  Workers = {w1}
  Nodes = {n1, n2}
  PlanTemplates <- MCTemplates
  PayloadFor <- MCPayloadFor
  Overrides = {FALSE}
  MaxEdits = 11
  MaxFailures = 1
  MaxRealigns = 1
INVARIANTS
  TypeOK
  MergeEarned
  DispatchSnapshotCurrent
PROPERTIES
  VerifiedWorkIsFrozen
