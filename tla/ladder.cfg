\* One thread of dream calls, every credential and rule, with the clients.
SPECIFICATION DreamSpec
CONSTANTS
  Missions = {m1}
  Workers = {}
  Nodes = {}
  PlanTemplates = {}
  PayloadFor <- MCPayloadFor
  Overrides = {FALSE}
  MaxEdits = 3
  MaxFailures = 0
  MaxRealigns = 0
  DreamWorkers = {w1}
  FindingSets <- MCFindingSets
  RuleChoices = {"byConfidence", "vote"}
  Credentials <- MCCredentials
  MaxBatches = 2
PROPERTIES
  LadderClimbed
