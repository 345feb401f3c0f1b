\* A diamond of four nodes run twice, two workers, interrupts at any time.
SPECIFICATION FairSpec
CONSTANTS
  Nodes <- MCNodes
  DependsOn <- MCDependsOn
  Compensable <- MCCompensable
  MaxWorkers = 2
  MaxRuns = 2
INVARIANTS
  SagaTypeOK
  RunsAfterDependencies
  QuietRollback
  DependentsFirst
PROPERTIES
  RunReturns
  SagaKept
\* An executor nobody runs again has stopped.
CHECK_DEADLOCK FALSE
