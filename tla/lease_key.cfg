\* An agent that holds leases on two keys.
SPECIFICATION Spec
CONSTANTS
  Holders = {a, b}
  Keys = {k, l}
  Priorities = {0, 1}
  MaxRounds = 2
  MaxDuration = 1
  MaxLeases = 3
INVARIANT FoundOnKey
CHECK_DEADLOCK FALSE
