\* One mission, one helper thread, clients that may override.
SPECIFICATION Spec
CONSTANTS
  n1 = n1
  n2 = n2
  Missions = {m1}
  Workers = {w1}
  Nodes = {n1, n2}
  PlanTemplates <- MCTemplates
  PayloadFor <- MCFewPayloads
  Overrides = {TRUE, FALSE}
  MaxEdits = 6
  MaxFailures = 1
  MaxRealigns = 0
INVARIANTS
  RefusalIsTheOnlyLeak
  LedgerMissesNoGate
  SealCoversArtifacts
