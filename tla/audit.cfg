\* Two processes write the same log; two faults.
SPECIFICATION Spec
CONSTANTS
  Processes = {p, q}
  Payloads = {e, f}
  Limit = 3
  MaxEntries = 4
  MaxFaults = 2
SYMMETRY Interchangeable
INVARIANTS
  AuditTypeOK
  ErrorsExplained
  LossShows
CHECK_DEADLOCK FALSE
