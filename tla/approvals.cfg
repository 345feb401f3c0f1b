\* Two threads of one server and one of another, one capsule.
SPECIFICATION Spec
CONSTANTS
  t1 = t1
  t2 = t2
  t3 = t3
  p = p
  q = q
  Threads = {t1, t2, t3}
  Processes = {p, q}
  Home <- TwoServers
  Capsules = {c1}
SYMMETRY Interchangeable
INVARIANTS
  LedgerTypeOK
  ChainVerifies
  OncePerServer
  RunJustified
