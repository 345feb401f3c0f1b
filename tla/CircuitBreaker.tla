--------------------------- MODULE CircuitBreaker ---------------------------
(***************************************************************************)
(* The circuit breaker of a bridge and the threads that call through it.   *)
(* CircuitBreaker.call() asks allow_request(), runs the function without   *)
(* the lock and records the result, which may by then meet another state   *)
(* of the circuit than the one that let the request through.  MCPBridge's  *)
(* dispatch_tool_call ends there; the handler of a RESTBridge route        *)
(* catches what call() re-raises and records the failure once more.        *)
(***************************************************************************)
EXTENDS CircuitState, FiniteSets

CONSTANTS
  Callers,      \* threads that call through the circuit
  RestCallers   \* those of them that are handlers of RESTBridge routes

ASSUME CallersAssumption == IsFiniteSet(Callers) /\ RestCallers \subseteq Callers

VARIABLES
  cb,       \* the circuit
  pc,       \* where each caller is
  healed,   \* the service answers for good and nobody trips the circuit any more
  probe,    \* callers whose request was let through since the circuit is half-open
  probed,   \* requests let through since then
  own,      \* successes of these requests recorded since then
  streak    \* calls whose failure was recorded since failure_count was 0

ghosts == <<probe, probed, own, streak>>
vars == <<cb, pc, healed, ghosts>>

Init ==
  /\ cb = InitCircuit
  /\ pc = [c \in Callers |-> "idle"]
  /\ healed = FALSE
  /\ probe = {} /\ probed = 0 /\ own = 0 /\ streak = 0

(* What a step that leaves the circuit as b does to the ghosts: lets are   *)
(* the requests it lets through, wins the callers whose success it records *)
(* and losses the calls whose failure it records.                          *)
Observe(b, lets, wins, losses) ==
  LET same == b.state = HalfOpen /\ cb.state = HalfOpen IN
  /\ cb' = b
  /\ probe' = IF b.state # HalfOpen THEN {} ELSE (IF same THEN probe \ wins ELSE {}) \cup lets
  /\ probed' = IF b.state # HalfOpen THEN 0
               ELSE (IF same THEN probed ELSE 0) + Cardinality(lets)
  /\ own' = IF same THEN own + Cardinality(wins \cap probe) ELSE 0
  /\ streak' = IF b.state = Closed /\ b.failures > 0 /\ wins = {} THEN streak + losses ELSE 0

-----------------------------------------------------------------------------
(* call(): the circuit lets the request through.  A rejected request, and  *)
(* one for which the timeout overflows, raises and changes nothing.        *)
Request(c) ==
  /\ pc[c] = "idle"
  /\ Allows(cb)
  /\ pc' = [pc EXCEPT ![c] = "running"]
  /\ Observe(Allowed(cb), {c}, {}, 0)
  /\ UNCHANGED healed

\* Mutation: the handler records the success of call() once more.
SucceedTwice(c) ==
  /\ pc[c] = "running"
  /\ pc' = [pc EXCEPT ![c] = "idle"]
  /\ Observe(Success(Success(cb)), {}, {c}, 0)
  /\ UNCHANGED healed

\* The function returns.
Succeed(c) ==
  /\ pc[c] = "running"
  /\ pc' = [pc EXCEPT ![c] = "idle"]
  /\ Observe(Success(cb), {}, {c}, 0)
  /\ UNCHANGED healed

\* The function raises; call() records the failure and raises again.
Fail(c) ==
  /\ pc[c] = "running"
  /\ ~healed
  /\ pc' = [pc EXCEPT ![c] = IF c \in RestCallers THEN "raised" ELSE "idle"]
  /\ Observe(Failure(cb), {}, {}, 1)
  /\ UNCHANGED healed

\* The except clauses of a route's handler record the failure again.
FailAgain(c) ==
  /\ pc[c] = "raised"
  /\ pc' = [pc EXCEPT ![c] = "idle"]
  /\ Observe(Failure(cb), {}, {}, 0)
  /\ UNCHANGED healed

\* trip(), by an operator or the resilience coordinator
ManualTrip ==
  /\ ~healed
  /\ Observe(Opened(cb), {}, {}, 0)
  /\ UNCHANGED <<pc, healed>>

\* reset()
ManualReset == Observe(Reset(cb), {}, {}, 0) /\ UNCHANGED <<pc, healed>>

Tick ==
  /\ Waited(cb) # cb
  /\ cb' = Waited(cb)
  /\ UNCHANGED <<pc, healed, ghosts>>

\* The outage ends.
Heal == ~healed /\ healed' = TRUE /\ UNCHANGED <<cb, pc, ghosts>>

Call(c) == Request(c) \/ Succeed(c) \/ FailAgain(c)

Next == (\E c \in Callers : Call(c) \/ Fail(c)) \/ ManualTrip \/ ManualReset \/ Tick \/ Heal

Spec == Init /\ [][Next]_vars

-----------------------------------------------------------------------------
(* The types, and the counters belong to the state: only a half-open       *)
(* circuit has counted probes, all of them successful and fewer than it    *)
(* needs, and only a closed one has counted failures, too few to open.     *)
CircuitTypeOK ==
  /\ cb \in Circuit
  /\ pc \in [Callers -> {"idle", "running", "raised"}]
  /\ healed \in BOOLEAN
  /\ probe \in SUBSET Callers /\ probed \in Nat /\ own \in Nat /\ streak \in Nat
  /\ cb.failed = 0
  /\ cb.successes < (IF cb.state = HalfOpen THEN ProbeCount ELSE 1)
  /\ cb.failures < (IF cb.state = Closed THEN FailureThreshold ELSE 1)

(* The quota of a half-open circuit counts finished probes only, so more   *)
(* requests than it are let through, but no more than the callers add.     *)
ProbesBounded ==
  cb.state = HalfOpen => probed <= ProbeCount - 1 + Cardinality(Callers)

(* Results of requests let through before the circuit was half-open count  *)
(* as probes, but each caller brings at most one, and the caller that made *)
(* the circuit half-open brings none.                                      *)
StaleResultsBounded ==
  cb.state = HalfOpen => cb.successes <= own + Cardinality(Callers) - 1

(* The circuit opens after failure_threshold failures in a row, or after   *)
(* about half as many failed calls when they come through REST routes.     *)
HalfTheThresholdFails == cb.failures <= 2 * streak + Cardinality(RestCallers)

(* When the outage is over the circuit closes and stays closed, unless it  *)
(* opened so often before that its backoff is no float any more.           *)
RecoversUnlessWorn == <>healed => <>[](cb.state = Closed \/ Worn(cb))
=============================================================================
