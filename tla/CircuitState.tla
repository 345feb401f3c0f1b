---------------------------- MODULE CircuitState ----------------------------
(***************************************************************************)
(* The record a hlf_mcp/ecosystem/circuit_breaker.py CircuitBreaker keeps  *)
(* and what each of its methods does to it.  Every method holds self.lock, *)
(* so each operator is one step of the modules that use it.  Time is       *)
(* measured in ticks since the circuit last opened.                        *)
(***************************************************************************)
EXTENDS Integers

CONSTANTS
  FailureThreshold,    \* failure_threshold, checked to be at least 1
  ProbeCount,          \* half_open_probe_count
  RecoveryTimeout,     \* recovery_timeout in ticks, checked to be positive
  MaxRecoveryTimeout,  \* max_recovery_timeout in ticks
  FloatMaxExp          \* the least n for which 2.0 ** n is no float: 1024

ASSUME CircuitAssumption ==
  /\ FailureThreshold \in Nat \ {0}
  /\ ProbeCount \in Nat \ {0}
  /\ RecoveryTimeout \in Nat \ {0}
  /\ MaxRecoveryTimeout \in Nat \ {0}
  /\ FloatMaxExp \in Nat \ {0}

Closed == "CLOSED"
Open == "OPEN"
HalfOpen == "HALF_OPEN"

\* No timeout is longer: since is not counted any further.
LongestWait == IF RecoveryTimeout > MaxRecoveryTimeout THEN RecoveryTimeout
               ELSE MaxRecoveryTimeout

(* trip_count is read by _current_recovery_timeout only, where every value *)
(* above FloatMaxExp does the same: it stops at FloatMaxExp + 1.           *)
Circuit == [state: {Closed, Open, HalfOpen},
            failures: Nat,                  \* failure_count
            successes: Nat, failed: Nat,    \* probe_successes, probe_failures
            trips: 0 .. FloatMaxExp + 1,    \* trip_count
            since: 0 .. LongestWait]        \* time since open_since, 0 unless open

InitCircuit == [state |-> Closed, failures |-> 0, successes |-> 0, failed |-> 0,
                trips |-> 0, since |-> 0]

-----------------------------------------------------------------------------
\* _transition_to_open: the recovery timeout begins anew, also when already open.
Opened(b) ==
  [b EXCEPT !.state = Open, !.failures = 0, !.successes = 0, !.failed = 0, !.since = 0,
            !.trips = IF @ > FloatMaxExp THEN @ ELSE @ + 1]

\* _transition_to_half_open
HalfOpened(b) ==
  [b EXCEPT !.state = HalfOpen, !.successes = 0, !.failed = 0, !.since = 0]

\* _transition_to_closed: trip_count is kept.
Reset(b) ==
  [b EXCEPT !.state = Closed, !.failures = 0, !.successes = 0, !.failed = 0, !.since = 0]

(* _current_recovery_timeout raises OverflowError where backoff_multiplier *)
(* ** (trip_count - 1) is no float.                                        *)
Worn(b) == b.trips - 1 >= FloatMaxExp

Timeout(b) ==
  IF b.trips <= 1 THEN RecoveryTimeout
  ELSE LET backoff == RecoveryTimeout * 2 ^ (b.trips - 1)
       IN IF backoff < MaxRecoveryTimeout THEN backoff ELSE MaxRecoveryTimeout

Due(b) == b.state = Open /\ ~Worn(b) /\ b.since >= Timeout(b)

\* allow_request() is True; when the circuit is open the request makes it half-open.
Allows(b) ==
  \/ b.state = Closed
  \/ Due(b)
  \/ b.state = HalfOpen /\ b.successes + b.failed < ProbeCount

Allowed(b) == IF Due(b) THEN HalfOpened(b) ELSE b

\* Mutation: a success does not end a series of failures.
SuccessKeepsFailures(b) ==
  CASE b.state = HalfOpen ->
         IF b.successes + 1 >= ProbeCount THEN Reset(b) ELSE [b EXCEPT !.successes = @ + 1]
    [] OTHER -> b

\* Mutation: the half-open branch is missing.
SuccessIgnoresProbes(b) == IF b.state = Closed THEN [b EXCEPT !.failures = 0] ELSE b

\* record_success()
Success(b) ==
  CASE b.state = Closed -> [b EXCEPT !.failures = 0]
    [] b.state = HalfOpen ->
         IF b.successes + 1 >= ProbeCount THEN Reset(b) ELSE [b EXCEPT !.successes = @ + 1]
    [] OTHER -> b

\* Mutation: a failed probe is counted and the circuit stays half-open.
FailureLeavesHalfOpen(b) ==
  CASE b.state = HalfOpen -> [b EXCEPT !.failed = @ + 1]
    [] b.state = Closed ->
         IF b.failures + 1 >= FailureThreshold THEN Opened(b) ELSE [b EXCEPT !.failures = @ + 1]
    [] OTHER -> b

\* record_failure(): a failed probe opens the circuit, which clears its count.
Failure(b) ==
  CASE b.state = HalfOpen -> Opened(b)
    [] b.state = Closed ->
         IF b.failures + 1 >= FailureThreshold THEN Opened(b) ELSE [b EXCEPT !.failures = @ + 1]
    [] OTHER -> b

\* A tick of the clock.
Waited(b) ==
  IF b.state = Open /\ b.since < LongestWait THEN [b EXCEPT !.since = @ + 1] ELSE b
=============================================================================
