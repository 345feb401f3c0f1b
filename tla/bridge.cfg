\* A bridge of each kind shares a circuit, a limiter and a policy.
SPECIFICATION BridgeFairSpec
CONSTANTS
  Callers = {m1, r1}
  RestCallers = {r1}
  FailureThreshold = 3
  ProbeCount = 3
  RecoveryTimeout = 1
  MaxRecoveryTimeout = 3
  FloatMaxExp = 3
  Effects = {"file_read"}
  EffectOf <- MCEffectOf
  Burst <- MCBurst
  Rate <- MCRate
  MaxRetries = 2
  MaxBudget = 1
  BudgetWindow = 1
INVARIANTS
  CircuitTypeOK
  ProbesBounded
  StaleResultsBounded
  HalfTheThresholdFails
  BridgeTypeOK
  OverdraftBounded
PROPERTIES
  CircuitKept
  CallsReturn
  RecoversUnlessWorn
