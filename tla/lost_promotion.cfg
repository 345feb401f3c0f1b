\* Two threads promoting: a promotion is written over by a blocked one.
SPECIFICATION DreamSpec
CONSTANTS
  Missions = {m1}
  Workers = {}
  Nodes = {}
  PlanTemplates = {}
  PayloadFor <- MCPayloadFor
  Overrides = {FALSE}
  MaxEdits = 4
  MaxFailures = 0
  MaxRealigns = 0
  DreamWorkers = {w1, w2}
  FindingSets <- OneFinding
  RuleChoices = {"byConfidence"}
  Credentials <- TwoPasses
  MaxBatches = 1
PROPERTIES
  PromotionNeverLost
