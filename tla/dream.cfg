\* Two threads of dream calls and the clients, which override as they do.
SPECIFICATION DreamSpec
CONSTANTS
  Missions = {m1}
  Workers = {}
  Nodes = {}
  PlanTemplates = {}
  PayloadFor <- MCPayloadFor
  Overrides = {TRUE, FALSE}
  MaxEdits = 4
  MaxFailures = 0
  MaxRealigns = 0
  DreamWorkers = {w1, w2}
  FindingSets <- OneFinding
  RuleChoices = {"byConfidence"}
  Credentials <- TwoPasses
  MaxBatches = 2
SYMMETRY Symmetric
INVARIANTS
  DreamTypeOK
  PromotionJustified
  DreamGateHolds
PROPERTIES
  LifecycleKept
