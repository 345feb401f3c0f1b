\* Two agents, two keys and two priorities.
SPECIFICATION Spec
CONSTANTS
  Holders = {a, b}
  Keys = {k, l}
  Priorities = {0, 1}
  MaxRounds = 2
  MaxDuration = 1
  MaxLeases = 3
SYMMETRY Interchangeable
INVARIANTS
  LeaseTypeOK
  Compatible
  UsersAlone
CHECK_DEADLOCK FALSE
