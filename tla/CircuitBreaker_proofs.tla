------------------------ MODULE CircuitBreaker_proofs ------------------------
(***************************************************************************)
(* What is proved of CircuitBreaker for any callers, thresholds and        *)
(* timeouts.  The bounds are inductive once they are stated of what is     *)
(* still under way: callers that have not returned and handlers that have  *)
(* not yet recorded a failure for the second time.  BridgeDispatch is      *)
(* shown to implement the circuit, so that they hold of it as well.  What  *)
(* recovery and the end of a call rest on are steps that count down.       *)
(***************************************************************************)
EXTENDS BridgeDispatch, FiniteSetTheorems, TLAPS

Running == {c \in Callers : pc[c] = "running"}
Raised == {c \in Callers : pc[c] = "raised"}

\* Requests that are under way since before the circuit was half-open.
Stale == Running \ probe

Counted ==
  /\ probe \subseteq Running
  /\ Raised \subseteq RestCallers
  /\ cb.state # HalfOpen => probe = {} /\ own = 0
  /\ own <= cb.successes

\* A request that was let through is under way or has succeeded.
LetThrough == cb.state = HalfOpen => probed <= own + Cardinality(probe)

StaleCounted ==
  cb.state = HalfOpen =>
    cb.successes + Cardinality(Stale) <= own + Cardinality(Callers) - 1

\* A handler that is about to record a failure again has recorded it once.
FailuresCounted == cb.failures + Cardinality(Raised) <= 2 * streak + Cardinality(RestCallers)

IInv == CircuitTypeOK /\ Counted /\ LetThrough /\ StaleCounted /\ FailuresCounted

-----------------------------------------------------------------------------
(* The circuit.                                                            *)

LEMMA Waits == ASSUME CircuitAssumption PROVE LongestWait \in Nat
BY DEF CircuitAssumption, LongestWait

Bounded(b) ==
  /\ b \in Circuit /\ b.failed = 0
  /\ b.successes < (IF b.state = HalfOpen THEN ProbeCount ELSE 1)
  /\ b.failures < (IF b.state = Closed THEN FailureThreshold ELSE 1)

LEMMA OpenedBounded ==
  ASSUME CircuitAssumption, NEW b \in Circuit
  PROVE  Bounded(Opened(b)) /\ Opened(b).state = Open /\ Opened(b).successes = 0 /\ Opened(b).failures = 0
<1> DEFINE n == IF b.trips > FloatMaxExp THEN b.trips ELSE b.trips + 1
           z == [b EXCEPT !.state = Open, !.failures = 0, !.successes = 0, !.failed = 0, !.since = 0]
<1>1. n \in 0 .. FloatMaxExp + 1 /\ 0 \in 0 .. LongestWait
  BY Waits DEF CircuitAssumption, Circuit
<1>2. z \in Circuit
  BY <1>1 DEF Circuit
<1>3. z.state = Open /\ z.failures = 0 /\ z.successes = 0 /\ z.failed = 0
  BY DEF Circuit
<1>4. Opened(b) = [z EXCEPT !.trips = n]
  BY DEF Opened, Circuit
<1> HIDE DEF n, z
<1>5. Opened(b) \in Circuit
  BY <1>1, <1>2, <1>4 DEF Circuit
<1>6. /\ Opened(b).state = Open /\ Opened(b).failures = 0
      /\ Opened(b).successes = 0 /\ Opened(b).failed = 0
  BY <1>2, <1>3, <1>4 DEF Circuit
<1> QED BY <1>5, <1>6 DEF Bounded, Open, Closed, HalfOpen

LEMMA HalfOpenedBounded ==
  ASSUME CircuitAssumption, NEW b, Bounded(b), b.state = Open
  PROVE  Bounded(HalfOpened(b)) /\ HalfOpened(b).state = HalfOpen /\ HalfOpened(b).successes = 0
         /\ HalfOpened(b).failures = b.failures
<1>1. b \in Circuit /\ b.failures < 1 /\ 0 \in 0 .. LongestWait
  BY Waits DEF Bounded, Open, Closed
<1>2. HalfOpened(b) \in Circuit
  BY <1>1 DEF Circuit, HalfOpened
<1>3. /\ HalfOpened(b).state = HalfOpen /\ HalfOpened(b).failures = b.failures
      /\ HalfOpened(b).successes = 0 /\ HalfOpened(b).failed = 0
  BY <1>1 DEF Circuit, HalfOpened
<1> QED BY <1>1, <1>2, <1>3 DEF CircuitAssumption, Bounded, Open, Closed, HalfOpen

LEMMA ResetBounded ==
  ASSUME CircuitAssumption, NEW b \in Circuit
  PROVE  Bounded(Reset(b)) /\ Reset(b).state = Closed /\ Reset(b).successes = 0 /\ Reset(b).failures = 0
<1>1. 0 \in 0 .. LongestWait
  BY Waits
<1>2. Reset(b) \in Circuit
  BY <1>1 DEF Circuit, Reset
<1>3. /\ Reset(b).state = Closed /\ Reset(b).failures = 0
      /\ Reset(b).successes = 0 /\ Reset(b).failed = 0
  BY DEF Circuit, Reset
<1> QED BY <1>2, <1>3 DEF CircuitAssumption, Bounded, Open, Closed, HalfOpen

\* A success counts in a half-open circuit, which it may close.
LEMMA SuccessBounded ==
  ASSUME CircuitAssumption, NEW b, Bounded(b)
  PROVE  /\ Bounded(Success(b))
         /\ Success(b).failures = 0 \/ (Success(b).failures = b.failures /\ b.state = Open)
         /\ Success(b).state = HalfOpen =>
              b.state = HalfOpen /\ Success(b).successes = b.successes + 1
         /\ Success(b).state # HalfOpen => Success(b).successes = 0
<1>1. b \in Circuit
  BY DEF Bounded
<1>2. CASE b.state = Closed
  BY <1>1, <1>2 DEF CircuitAssumption, Circuit, Bounded, Success, Open, Closed, HalfOpen
<1>3. CASE b.state = HalfOpen
  <2>1. Success(b) = IF b.successes + 1 >= ProbeCount THEN Reset(b) ELSE [b EXCEPT !.successes = @ + 1]
    BY <1>3 DEF Success, Closed, HalfOpen
  <2>2. CASE b.successes + 1 >= ProbeCount
    BY <1>1, <2>1, <2>2, ResetBounded DEF Closed, HalfOpen
  <2>3. CASE ~(b.successes + 1 >= ProbeCount)
    BY <1>1, <1>3, <2>1, <2>3 DEF CircuitAssumption, Circuit, Bounded, Open, Closed, HalfOpen
  <2> QED BY <2>2, <2>3
<1>4. CASE b.state = Open
  BY <1>1, <1>4 DEF CircuitAssumption, Circuit, Bounded, Success, Open, Closed, HalfOpen
<1> QED BY <1>1, <1>2, <1>3, <1>4 DEF Circuit

\* A failure counts in a closed circuit, which it may open.
LEMMA FailureBounded ==
  ASSUME CircuitAssumption, NEW b, Bounded(b)
  PROVE  /\ Bounded(Failure(b))
         /\ Failure(b).state # HalfOpen /\ Failure(b).successes = 0
         /\ \/ Failure(b).failures = 0
            \/ /\ Failure(b).state = Closed /\ b.state = Closed
               /\ Failure(b).failures = b.failures + 1
<1>1. b \in Circuit
  BY DEF Bounded
<1>2. CASE b.state = HalfOpen
  BY <1>1, <1>2, OpenedBounded DEF Failure, Open, Closed, HalfOpen
<1>3. CASE b.state = Closed
  <2>1. Failure(b) = IF b.failures + 1 >= FailureThreshold THEN Opened(b) ELSE [b EXCEPT !.failures = @ + 1]
    BY <1>3 DEF Failure, Closed, HalfOpen
  <2>2. CASE b.failures + 1 >= FailureThreshold
    BY <1>1, <2>1, <2>2, OpenedBounded DEF Open, HalfOpen
  <2>3. CASE ~(b.failures + 1 >= FailureThreshold)
    BY <1>1, <1>3, <2>1, <2>3 DEF CircuitAssumption, Circuit, Bounded, Open, Closed, HalfOpen
  <2> QED BY <2>2, <2>3
<1>4. CASE b.state = Open
  BY <1>1, <1>4 DEF CircuitAssumption, Circuit, Bounded, Failure, Open, Closed, HalfOpen
<1> QED BY <1>1, <1>2, <1>3, <1>4 DEF Circuit

LEMMA WaitedBounded ==
  ASSUME CircuitAssumption, NEW b, Bounded(b)
  PROVE  /\ Bounded(Waited(b)) /\ Waited(b).state = b.state
         /\ Waited(b).successes = b.successes /\ Waited(b).failures = b.failures
BY Waits DEF CircuitAssumption, Circuit, Bounded, Waited, Open, Closed, HalfOpen

-----------------------------------------------------------------------------
(* The callers.                                                            *)

LEMMA SomeCallers ==
  ASSUME CallersAssumption, NEW S \in SUBSET Callers
  PROVE  IsFiniteSet(S) /\ Cardinality(S) \in Nat /\ Cardinality(S) <= Cardinality(Callers)
         /\ Cardinality(Callers) \in Nat
BY FS_Subset, FS_CardinalityType DEF CallersAssumption

LEMMA SomeRestCallers ==
  ASSUME CallersAssumption, NEW S \in SUBSET RestCallers
  PROVE  Cardinality(S) <= Cardinality(RestCallers) /\ Cardinality(RestCallers) \in Nat
BY FS_Subset, FS_CardinalityType, SomeCallers DEF CallersAssumption

LEMMA OneMore ==
  ASSUME CallersAssumption, NEW S \in SUBSET Callers, NEW c \in Callers, c \notin S
  PROVE  Cardinality(S \cup {c}) = Cardinality(S) + 1
BY SomeCallers, FS_AddElement

LEMMA OneLess ==
  ASSUME CallersAssumption, NEW S \in SUBSET Callers, NEW c \in Callers, c \in S
  PROVE  Cardinality(S \ {c}) = Cardinality(S) - 1
BY SomeCallers, FS_RemoveElement

LEMMA Numbers ==
  ASSUME IInv, CircuitAssumption, CallersAssumption
  PROVE  /\ cb.failures \in Nat /\ cb.successes \in Nat /\ streak \in Nat /\ own \in Nat /\ probed \in Nat
         /\ Cardinality(Raised) \in Nat /\ Cardinality(RestCallers) \in Nat
         /\ Cardinality(Stale) \in Nat /\ Cardinality(probe) \in Nat /\ Cardinality(Callers) \in Nat
         /\ Bounded(cb) /\ probe \subseteq Callers /\ Running \subseteq Callers /\ Raised \subseteq Callers
         /\ pc \in [Callers -> {"idle", "running", "raised"}]
<1>1. Running \subseteq Callers /\ Raised \subseteq Callers /\ Stale \subseteq Callers /\ probe \subseteq Callers
  BY DEF IInv, CircuitTypeOK, Running, Raised, Stale
<1>2. Bounded(cb) /\ cb \in Circuit
  BY DEF IInv, CircuitTypeOK, Bounded
<1>3. cb.failures \in Nat /\ cb.successes \in Nat
  BY <1>2 DEF Circuit
<1>4. /\ Cardinality(Raised) \in Nat /\ Cardinality(RestCallers) \in Nat
      /\ Cardinality(Stale) \in Nat /\ Cardinality(probe) \in Nat /\ Cardinality(Callers) \in Nat
  BY <1>1, SomeCallers DEF CallersAssumption
<1> QED BY <1>1, <1>2, <1>3, <1>4 DEF IInv, CircuitTypeOK

\* What is left to show of a step.
LEMMA StepOK ==
  ASSUME Bounded(cb'), pc' \in [Callers -> {"idle", "running", "raised"}], healed' \in BOOLEAN,
         (probe \in SUBSET Callers /\ probed \in Nat /\ own \in Nat /\ streak \in Nat)',
         Counted', LetThrough', StaleCounted', FailuresCounted'
  PROVE  IInv'
BY DEF IInv, CircuitTypeOK, Bounded

(* A step after which the circuit is not half-open: only the failures are  *)
(* left to count.                                                          *)
LEMMA CalmStep ==
  ASSUME CallersAssumption, NEW b, Bounded(b), b.state # HalfOpen,
         NEW lets, NEW wins, NEW losses, Observe(b, lets, wins, losses),
         pc' \in [Callers -> {"idle", "running", "raised"}], healed' \in BOOLEAN,
         streak' \in Nat, Raised' \subseteq RestCallers, FailuresCounted'
  PROVE  IInv'
<1>1. cb' = b /\ probe' = {} /\ probed' = 0 /\ own' = 0
  BY DEF Observe
<1>2. b \in Circuit /\ b.successes \in Nat
  BY DEF Bounded, Circuit
<1>3. Counted'
  BY <1>1, <1>2 DEF Counted
<1>4. LetThrough' /\ StaleCounted'
  BY <1>1 DEF LetThrough, StaleCounted
<1> QED BY <1>1, <1>3, <1>4, StepOK

\* No failures are counted any more.
LEMMA NoFailures ==
  ASSUME CallersAssumption, cb'.failures = 0, streak' \in Nat, Raised' \subseteq RestCallers
  PROVE  FailuresCounted'
<1>1. Cardinality(Raised') <= Cardinality(RestCallers) /\ Cardinality(RestCallers) \in Nat
  BY SomeRestCallers
<1>2. IsFiniteSet(Raised') /\ Cardinality(Raised') \in Nat
  BY SomeCallers DEF CallersAssumption
<1> QED BY <1>1, <1>2 DEF FailuresCounted

-----------------------------------------------------------------------------
(* The steps.                                                              *)

LEMMA InitIInv ==
  ASSUME CircuitAssumption, CallersAssumption, Init
  PROVE  IInv
<1>1. Running = {} /\ Raised = {} /\ Stale = {}
  BY DEF Init, Running, Raised, Stale
<1>2. InitCircuit \in Circuit
  BY Waits DEF CircuitAssumption, InitCircuit, Circuit
<1>3. CircuitTypeOK
  <2>1. Bounded(InitCircuit)
    BY <1>2 DEF CircuitAssumption, InitCircuit, Bounded, Closed, Open, HalfOpen
  <2>2. cb = InitCircuit
    BY DEF Init
  <2>3. /\ pc \in [Callers -> {"idle", "running", "raised"}] /\ healed \in BOOLEAN
        /\ probe \in SUBSET Callers /\ probed \in Nat /\ own \in Nat /\ streak \in Nat
    BY DEF Init
  <2> QED BY <2>1, <2>2, <2>3 DEF Bounded, CircuitTypeOK
<1>4. Counted /\ LetThrough /\ StaleCounted
  BY <1>1 DEF Init, InitCircuit, Counted, LetThrough, StaleCounted, Closed, HalfOpen
<1>5. FailuresCounted
  BY <1>1, FS_EmptySet, SomeRestCallers DEF Init, InitCircuit, FailuresCounted
<1> QED BY <1>3, <1>4, <1>5 DEF IInv

\* A request is let through.
LEMMA RequestStep ==
  ASSUME IInv, CircuitAssumption, CallersAssumption, NEW c \in Callers, Request(c)
  PROVE  IInv'
<1>1. /\ pc[c] = "idle" /\ Allows(cb) /\ pc' = [pc EXCEPT ![c] = "running"]
      /\ Observe(Allowed(cb), {c}, {}, 0) /\ healed' = healed
  BY DEF Request
<1>2. /\ pc' \in [Callers -> {"idle", "running", "raised"}] /\ healed' \in BOOLEAN
      /\ Running' = Running \cup {c} /\ Raised' = Raised /\ c \notin Running
  BY <1>1, Numbers DEF IInv, CircuitTypeOK, Running, Raised
<1>3. Raised' \subseteq RestCallers
  BY <1>2 DEF IInv, Counted
<1>4. CASE cb.state = Closed
  <2>1. Allowed(cb) = cb
    BY <1>4 DEF Allowed, Due, Closed, Open
  <2>2. /\ Observe(cb, {c}, {}, 0) /\ cb' = cb
        /\ streak' = IF cb.failures > 0 THEN streak + 0 ELSE 0
    BY <1>1, <1>4, <2>1 DEF Observe
  <2>3. streak' \in Nat
    BY <2>2, Numbers
  <2>4. FailuresCounted'
    <3>1. CASE cb.failures > 0
      BY <1>2, <2>2, <3>1, Numbers DEF IInv, FailuresCounted
    <3>2. CASE ~(cb.failures > 0)
      BY <1>3, <2>2, <2>3, <3>2, Numbers, NoFailures
    <3> QED BY <3>1, <3>2
  <2> QED BY <1>2, <1>3, <1>4, <2>2, <2>3, <2>4, Numbers, CalmStep DEF Closed, HalfOpen
<1>5. CASE cb.state = Open
  <2>1. Due(cb) /\ Allowed(cb) = HalfOpened(cb)
    BY <1>1, <1>5 DEF Allows, Allowed, Closed, Open, HalfOpen
  <2>2. /\ Bounded(cb') /\ cb'.state = HalfOpen /\ cb'.successes = 0 /\ cb'.failures = 0
        /\ cb' = HalfOpened(cb)
    <3>1. cb' = HalfOpened(cb)
      BY <1>1, <2>1 DEF Observe
    <3>2. cb.failures = 0
      BY <1>5, Numbers DEF Bounded, Closed, Open
    <3> QED BY <1>5, <3>1, <3>2, Numbers, HalfOpenedBounded
  <2>3. probe' = {c} /\ probed' = 0 + Cardinality({c}) /\ own' = 0 /\ streak' = 0
    BY <1>1, <1>5, <2>1, <2>2 DEF Observe, Open, Closed, HalfOpen
  <2>4. Cardinality({c}) = 1
    BY FS_Singleton
  <2>5. Counted'
    BY <1>2, <1>3, <2>2, <2>3 DEF Counted
  <2>6. LetThrough'
    BY <2>3, <2>4 DEF LetThrough
  <2>7. StaleCounted'
    <3>1. Stale' = Running /\ Running \in SUBSET Callers /\ Running \cup {c} \in SUBSET Callers
      BY <1>2, <2>3, Numbers DEF Stale
    <3>2. Cardinality(Running \cup {c}) = Cardinality(Running) + 1
      BY <1>2, <3>1, OneMore
    <3>3. Cardinality(Running) + 1 <= Cardinality(Callers)
      BY <3>1, <3>2, SomeCallers
    <3>4. Cardinality(Running) \in Nat /\ Cardinality(Callers) \in Nat
      BY <3>1, SomeCallers
    <3> QED BY <2>2, <2>3, <3>1, <3>3, <3>4 DEF StaleCounted
  <2>8. FailuresCounted'
    BY <1>3, <2>2, <2>3, NoFailures
  <2> QED BY <1>2, <2>2, <2>3, <2>4, <2>5, <2>6, <2>7, <2>8, StepOK
<1>6. CASE cb.state = HalfOpen
  <2>1. Allowed(cb) = cb
    BY <1>6 DEF Allowed, Due, HalfOpen, Open
  <2>2. /\ cb' = cb /\ probe' = (probe \ {}) \cup {c} /\ probed' = probed + Cardinality({c})
        /\ own' = own + Cardinality({} \cap probe) /\ streak' = 0
    BY <1>1, <1>6, <2>1 DEF Observe, Closed, HalfOpen
  <2>3. Cardinality({c}) = 1 /\ Cardinality({} \cap probe) = 0
    <3>1. {} \cap probe = {}
      OBVIOUS
    <3> QED BY <3>1, FS_Singleton, FS_EmptySet
  <2>4. /\ probe' = probe \cup {c} /\ probed' = probed + 1 /\ own' = own /\ c \notin probe
    BY <1>2, <2>2, <2>3, Numbers DEF IInv, Counted
  <2>5. Counted'
    BY <1>2, <1>3, <1>6, <2>2, <2>4 DEF IInv, Counted
  <2>6. LetThrough'
    <3>1. Cardinality(probe \cup {c}) = Cardinality(probe) + 1
      BY <2>4, Numbers, OneMore
    <3> QED BY <1>6, <2>4, <3>1, Numbers DEF IInv, LetThrough
  <2>7. StaleCounted'
    <3>1. Stale' = Stale
      BY <1>2, <2>4 DEF Stale
    <3> QED BY <1>6, <2>2, <2>4, <3>1 DEF IInv, StaleCounted
  <2>8. FailuresCounted'
    <3>1. cb'.failures = 0
      BY <1>6, <2>2, Numbers DEF Bounded, Closed, HalfOpen
    <3> QED BY <1>3, <2>2, <3>1, NoFailures
  <2>9. probe' \in SUBSET Callers
    BY <2>4, Numbers
  <2> QED BY <1>2, <2>2, <2>4, <2>5, <2>6, <2>7, <2>8, <2>9, Numbers, StepOK
<1>7. cb.state \in {Closed, Open, HalfOpen}
  BY Numbers DEF Bounded, Circuit
<1> QED BY <1>4, <1>5, <1>6, <1>7

\* The function returns.
LEMMA SucceedStep ==
  ASSUME IInv, CircuitAssumption, CallersAssumption, NEW c \in Callers, Succeed(c)
  PROVE  IInv'
<1> DEFINE b == Success(cb)
<1>1. /\ pc[c] = "running" /\ pc' = [pc EXCEPT ![c] = "idle"]
      /\ Observe(b, {}, {c}, 0) /\ healed' = healed
  BY DEF Succeed
<1>2. /\ pc' \in [Callers -> {"idle", "running", "raised"}] /\ healed' \in BOOLEAN
      /\ Running' = Running \ {c} /\ Raised' = Raised /\ c \in Running
  BY <1>1, Numbers DEF IInv, CircuitTypeOK, Running, Raised
<1>3. Raised' \subseteq RestCallers
  BY <1>2 DEF IInv, Counted
<1>4. /\ Bounded(b)
      /\ b.state = HalfOpen => cb.state = HalfOpen /\ b.successes = cb.successes + 1
      /\ b.failures = 0
  <2>1. /\ Bounded(b)
        /\ b.state = HalfOpen => cb.state = HalfOpen /\ b.successes = cb.successes + 1
        /\ b.failures = 0 \/ (b.failures = cb.failures /\ cb.state = Open)
    BY Numbers, SuccessBounded
  <2>2. cb.state = Open => cb.failures = 0
    BY Numbers DEF Bounded, Closed, Open
  <2> QED BY <2>1, <2>2
<1> HIDE DEF b
<1>5. cb' = b /\ streak' = 0
  BY <1>1 DEF Observe
<1>6. FailuresCounted'
  BY <1>3, <1>4, <1>5, NoFailures
<1>7. CASE b.state # HalfOpen
  BY <1>1, <1>2, <1>3, <1>4, <1>5, <1>6, <1>7, CalmStep
<1>8. CASE b.state = HalfOpen
  <2>1. /\ probe' = (probe \ {c}) \cup {} /\ probed' = probed + Cardinality({})
        /\ own' = own + Cardinality({c} \cap probe)
    BY <1>1, <1>4, <1>8 DEF Observe
  <2>2. probe' = probe \ {c} /\ probed' = probed
    BY <2>1, FS_EmptySet, Numbers
  <2>3. cb.state = HalfOpen /\ cb'.state = HalfOpen /\ cb'.successes = cb.successes + 1
    BY <1>4, <1>5, <1>8
  <2>4. CASE c \in probe
    <3>1. {c} \cap probe = {c}
      BY <2>4
    <3>2. own' = own + 1
      BY <2>1, <3>1, FS_Singleton
    <3>3. Cardinality(probe \ {c}) = Cardinality(probe) - 1
      BY <2>4, Numbers, OneLess
    <3>4. Stale' = Stale
      BY <1>2, <2>2, <2>4 DEF Stale
    <3>5. Counted'
      BY <1>2, <1>3, <2>2, <2>3, <3>2, Numbers DEF IInv, Counted
    <3>6. LetThrough'
      BY <2>2, <2>3, <3>2, <3>3, Numbers DEF IInv, LetThrough
    <3>7. StaleCounted'
      BY <2>3, <3>2, <3>4, Numbers DEF IInv, StaleCounted
    <3>8. probe' \in SUBSET Callers /\ probed' \in Nat /\ own' \in Nat /\ streak' \in Nat
      BY <1>5, <2>2, <3>2, Numbers
    <3> QED BY <1>2, <1>4, <1>5, <1>6, <3>5, <3>6, <3>7, <3>8, StepOK
  <2>5. CASE c \notin probe
    <3>1. {c} \cap probe = {} /\ probe \ {c} = probe
      BY <2>5
    <3>2. own' = own /\ probe' = probe
      BY <2>1, <2>2, <3>1, FS_EmptySet, Numbers
    <3>3. Stale' = Stale \ {c} /\ c \in Stale /\ Stale \in SUBSET Callers
      BY <1>2, <2>5, <3>2 DEF Stale, Running
    <3>4. Cardinality(Stale') = Cardinality(Stale) - 1
      BY <3>3, OneLess
    <3>5. Counted'
      BY <1>2, <1>3, <2>3, <2>5, <3>2, Numbers DEF IInv, Counted
    <3>6. LetThrough'
      BY <2>2, <2>3, <3>2 DEF IInv, LetThrough
    <3>7. StaleCounted'
      BY <2>3, <3>2, <3>4, Numbers DEF IInv, StaleCounted
    <3>8. probe' \in SUBSET Callers /\ probed' \in Nat /\ own' \in Nat /\ streak' \in Nat
      BY <1>5, <2>2, <3>2, Numbers
    <3> QED BY <1>2, <1>4, <1>5, <1>6, <3>5, <3>6, <3>7, <3>8, StepOK
  <2> QED BY <2>4, <2>5
<1> QED BY <1>7, <1>8

\* The function raises.
LEMMA FailStep ==
  ASSUME IInv, CircuitAssumption, CallersAssumption, NEW c \in Callers, Fail(c)
  PROVE  IInv'
<1> DEFINE b == Failure(cb)
<1>1. /\ pc[c] = "running" /\ Observe(b, {}, {}, 1) /\ healed' = healed
      /\ pc' = [pc EXCEPT ![c] = IF c \in RestCallers THEN "raised" ELSE "idle"]
  BY DEF Fail
<1>2. /\ pc' \in [Callers -> {"idle", "running", "raised"}] /\ healed' \in BOOLEAN
      /\ Raised' = (IF c \in RestCallers THEN Raised \cup {c} ELSE Raised) /\ c \notin Raised
  BY <1>1, Numbers DEF IInv, CircuitTypeOK, Raised
<1>3. Raised' \subseteq RestCallers
  BY <1>2 DEF IInv, Counted
<1>4. /\ Bounded(b) /\ b.state # HalfOpen
      /\ b.failures = 0 \/ (b.state = Closed /\ b.failures = cb.failures + 1)
  BY Numbers, FailureBounded
<1> HIDE DEF b
<1>5. /\ cb' = b
      /\ streak' = IF b.state = Closed /\ b.failures > 0 THEN streak + 1 ELSE 0
  BY <1>1 DEF Observe
<1>6. streak' \in Nat
  BY <1>5, Numbers
<1>7. FailuresCounted'
  <2>1. CASE b.failures = 0
    BY <1>3, <1>5, <1>6, <2>1, NoFailures
  <2>2. CASE b.failures # 0
    <3>1. b.state = Closed /\ b.failures = cb.failures + 1
      BY <1>4, <2>2
    <3>2. streak' = streak + 1
      BY <1>5, <3>1, Numbers
    <3>3. Cardinality(Raised') <= Cardinality(Raised) + 1 /\ Cardinality(Raised') \in Nat
      BY <1>2, Numbers, OneMore
    <3>4. cb'.failures = cb.failures + 1
      BY <1>5, <3>1
    <3> QED BY <3>2, <3>3, <3>4, Numbers DEF IInv, FailuresCounted
  <2> QED BY <2>1, <2>2
<1> QED BY <1>1, <1>2, <1>3, <1>4, <1>6, <1>7, CalmStep

\* The handler of a route records the failure again.
LEMMA FailAgainStep ==
  ASSUME IInv, CircuitAssumption, CallersAssumption, NEW c \in Callers, FailAgain(c)
  PROVE  IInv'
<1> DEFINE b == Failure(cb)
<1>1. /\ pc[c] = "raised" /\ Observe(b, {}, {}, 0) /\ healed' = healed
      /\ pc' = [pc EXCEPT ![c] = "idle"]
  BY DEF FailAgain
<1>2. /\ pc' \in [Callers -> {"idle", "running", "raised"}] /\ healed' \in BOOLEAN
      /\ Raised' = Raised \ {c} /\ c \in Raised
  BY <1>1, Numbers DEF IInv, CircuitTypeOK, Raised
<1>3. Raised' \subseteq RestCallers
  BY <1>2 DEF IInv, Counted
<1>4. /\ Bounded(b) /\ b.state # HalfOpen
      /\ b.failures = 0 \/ (b.state = Closed /\ b.failures = cb.failures + 1)
  BY Numbers, FailureBounded
<1> HIDE DEF b
<1>5. /\ cb' = b
      /\ streak' = IF b.state = Closed /\ b.failures > 0 THEN streak + 0 ELSE 0
  BY <1>1 DEF Observe
<1>6. streak' \in Nat
  BY <1>5, Numbers
<1>7. FailuresCounted'
  <2>1. CASE b.failures = 0
    BY <1>3, <1>5, <1>6, <2>1, NoFailures
  <2>2. CASE b.failures # 0
    <3>1. b.state = Closed /\ b.failures = cb.failures + 1
      BY <1>4, <2>2
    <3>2. streak' = streak
      BY <1>5, <3>1, Numbers
    <3>3. Cardinality(Raised') = Cardinality(Raised) - 1
      BY <1>2, Numbers, OneLess
    <3>4. cb'.failures = cb.failures + 1
      BY <1>5, <3>1
    <3> QED BY <3>2, <3>3, <3>4, Numbers DEF IInv, FailuresCounted
  <2> QED BY <2>1, <2>2
<1> QED BY <1>1, <1>2, <1>3, <1>4, <1>6, <1>7, CalmStep

\* trip() and reset()
LEMMA ManualStep ==
  ASSUME IInv, CircuitAssumption, CallersAssumption, ManualTrip \/ ManualReset
  PROVE  IInv'
<1>1. cb \in Circuit
  BY Numbers DEF Bounded
<1>2. PICK b : /\ Bounded(b) /\ b.state # HalfOpen /\ b.failures = 0
               /\ Observe(b, {}, {}, 0) /\ pc' = pc /\ healed' = healed
  BY <1>1, OpenedBounded, ResetBounded DEF ManualTrip, ManualReset, Open, Closed, HalfOpen
<1>3. cb' = b /\ streak' = 0 /\ Raised' = Raised
  BY <1>2 DEF Observe, Raised
<1>4. /\ pc' \in [Callers -> {"idle", "running", "raised"}] /\ healed' \in BOOLEAN
      /\ Raised' \subseteq RestCallers
  BY <1>2, <1>3, Numbers DEF IInv, CircuitTypeOK, Counted
<1>5. FailuresCounted'
  BY <1>2, <1>3, <1>4, NoFailures
<1> QED BY <1>2, <1>3, <1>4, <1>5, CalmStep

\* The clock, the end of the outage, and steps of other systems.
LEMMA OtherStep ==
  ASSUME IInv, CircuitAssumption, CallersAssumption, Tick \/ Heal \/ UNCHANGED vars
  PROVE  IInv'
<1>1. /\ Bounded(cb') /\ cb'.state = cb.state /\ cb'.successes = cb.successes
      /\ cb'.failures = cb.failures
  BY Numbers, WaitedBounded DEF Tick, Heal, vars
<1>2. UNCHANGED <<pc, ghosts>> /\ healed' \in BOOLEAN
  BY DEF Tick, Heal, vars, ghosts, IInv, CircuitTypeOK
<1>3. Running' = Running /\ Raised' = Raised /\ Stale' = Stale
  BY <1>2 DEF Running, Raised, Stale, ghosts
<1>4. Counted' /\ LetThrough' /\ StaleCounted' /\ FailuresCounted'
  BY <1>1, <1>2, <1>3 DEF IInv, Counted, LetThrough, StaleCounted, FailuresCounted, ghosts
<1> QED BY <1>1, <1>2, <1>4, Numbers, StepOK DEF ghosts

-----------------------------------------------------------------------------
LEMMA NextIInv ==
  ASSUME CircuitAssumption, CallersAssumption
  PROVE  IInv /\ [Next]_vars => IInv'
<1> SUFFICES ASSUME IInv, [Next]_vars PROVE IInv'
  OBVIOUS
<1>1. CASE \E c \in Callers : Call(c) \/ Fail(c)
  BY <1>1, RequestStep, SucceedStep, FailStep, FailAgainStep DEF Call
<1>2. CASE ManualTrip \/ ManualReset
  BY <1>2, ManualStep
<1>3. CASE Tick \/ Heal \/ UNCHANGED vars
  BY <1>3, OtherStep
<1> QED BY <1>1, <1>2, <1>3 DEF Next

\* The strengthening holds in every reachable state, for any callers.
LEMMA InvariantHolds == Spec => []IInv
<1>1. Init => IInv
  BY InitIInv, CircuitAssumption, CallersAssumption
<1>2. IInv /\ [Next]_vars => IInv'
  BY NextIInv, CircuitAssumption, CallersAssumption
<1> QED BY <1>1, <1>2, PTL DEF Spec

(* The types, and no counter of the circuit outlives the state it belongs  *)
(* to: each _transition_to_ method clears what the next state must not see.*)
THEOREM CircuitTypeCorrect == Spec => []CircuitTypeOK
<1>1. IInv => CircuitTypeOK
  BY DEF IInv
<1> QED BY <1>1, InvariantHolds, PTL

(* While the circuit is half-open allow_request() lets at most one request *)
(* fewer than the quota through, and one for each caller.                  *)
THEOREM ProbesAreBounded == Spec => []ProbesBounded
<1>1. IInv => ProbesBounded
  <2> SUFFICES ASSUME IInv, cb.state = HalfOpen
               PROVE  probed <= ProbeCount - 1 + Cardinality(Callers)
    BY DEF ProbesBounded
  <2>1. probed <= own + Cardinality(probe) /\ own <= cb.successes /\ cb.successes < ProbeCount
    BY DEF IInv, LetThrough, Counted, CircuitTypeOK
  <2>2. Cardinality(probe) <= Cardinality(Callers)
    BY SomeCallers, CallersAssumption DEF IInv, CircuitTypeOK
  <2> QED BY <2>1, <2>2, Numbers, CircuitAssumption, CallersAssumption DEF CircuitAssumption
<1> QED BY <1>1, InvariantHolds, PTL

(* Of the successes that close a half-open circuit, at most one for each   *)
(* other caller is the result of a request from before it was half-open.   *)
THEOREM StaleResultsAreBounded == Spec => []StaleResultsBounded
<1>1. IInv => StaleResultsBounded
  <2> SUFFICES ASSUME IInv, cb.state = HalfOpen
               PROVE  cb.successes <= own + Cardinality(Callers) - 1
    BY DEF StaleResultsBounded
  <2>1. cb.successes + Cardinality(Stale) <= own + Cardinality(Callers) - 1
    BY DEF IInv, StaleCounted
  <2> QED BY <2>1, Numbers, CircuitAssumption, CallersAssumption
<1> QED BY <1>1, InvariantHolds, PTL

(* failure_count never exceeds the failed calls in a row by more than what *)
(* the handlers of REST routes record twice.                               *)
THEOREM FailuresAreCounted == Spec => []HalfTheThresholdFails
<1>1. IInv => HalfTheThresholdFails
  <2> SUFFICES ASSUME IInv PROVE cb.failures <= 2 * streak + Cardinality(RestCallers)
    BY DEF HalfTheThresholdFails
  <2>1. cb.failures + Cardinality(Raised) <= 2 * streak + Cardinality(RestCallers)
    BY DEF IInv, FailuresCounted
  <2> QED BY <2>1, Numbers, CircuitAssumption, CallersAssumption
<1> QED BY <1>1, InvariantHolds, PTL
-----------------------------------------------------------------------------
(* The bridge.                                                             *)

(* The pipeline implements the circuit: a step of a caller inside call()   *)
(* is a step of CircuitBreaker, and the limiter and the policy touch none  *)
(* of its variables.                                                       *)
THEOREM BridgeKeepsCircuit == BridgeSpec => CircuitKept
<1>1. BridgeInit => Init
  BY DEF BridgeInit
<1>2. [BridgeNext]_bvars => [Next]_vars
  <2> SUFFICES ASSUME [BridgeNext]_bvars PROVE [Next]_vars
    OBVIOUS
  <2>1. ASSUME NEW c \in Callers, BridgeCall(c) PROVE [Next]_vars
    <3>1. \/ Request(c) \/ Succeed(c) \/ Fail(c) \/ FailAgain(c) \/ UNCHANGED vars
      BY <2>1 DEF BridgeCall, Ask, AskGlobal, TakeGlobal, TakeEffect, Dispatch, Refuse, Return,
                  BackOff, Retry, GiveUp, Handle
    <3> QED BY <3>1 DEF Next, Call
  <2>2. CASE BridgeTick
    <3>1. cb' = Waited(cb) /\ UNCHANGED <<pc, healed, ghosts>>
      BY <2>2 DEF BridgeTick
    <3>2. CASE Waited(cb) = cb
      BY <3>1, <3>2 DEF vars
    <3>3. CASE Waited(cb) # cb
      BY <3>1, <3>3 DEF Tick, Next
    <3> QED BY <3>2, <3>3
  <2>3. CASE Operate
    BY <2>3 DEF Operate, Next
  <2>4. CASE (\E b \in Buckets : ResetBucket(b)) \/ ResetBudget \/ Escalate
    BY <2>4 DEF ResetBucket, ResetBudget, Escalate
  <2>5. CASE UNCHANGED bvars
    BY <2>5 DEF bvars
  <2> QED BY <2>1, <2>2, <2>3, <2>4, <2>5 DEF BridgeNext
<1> QED BY <1>1, <1>2, PTL DEF BridgeSpec, CircuitKept, Spec

-----------------------------------------------------------------------------
\* Callers a bucket has shown a token to and that have not come to take it.
Shown(b) ==
  IF b = Global THEN {c \in Callers : at[c] = "take"}
  ELSE {c \in UsersOf(b) : at[c] \in {"global", "take", "effect"}}

(* A bucket that has run out has shown its last tokens to callers of whom  *)
(* one took the last.                                                      *)
Overdraft(b) ==
  /\ unpaid[b] > 0 => tokens[b] = 0
  /\ tokens[b] = 0 => unpaid[b] + Cardinality(Shown(b)) < Cardinality(UsersOf(b))

BInv ==
  /\ BridgeTypeOK
  /\ \A c \in Callers : at[c] = "backoff" => tries[c] < MaxRetries
  /\ \A c \in Callers : at[c] = "effect" => Limited(c)
  /\ \A b \in Buckets : Overdraft(b)

Stages == {"idle", "global", "take", "effect", "admitted", "executing", "backoff"}

LEMMA SomeUsers ==
  ASSUME CallersAssumption, NEW b
  PROVE  /\ UsersOf(b) \subseteq Callers /\ Shown(b) \subseteq UsersOf(b)
         /\ IsFiniteSet(UsersOf(b)) /\ Cardinality(UsersOf(b)) \in Nat
         /\ IsFiniteSet(Shown(b)) /\ Cardinality(Shown(b)) \in Nat
         /\ Cardinality(Shown(b)) <= Cardinality(UsersOf(b))
<1>1. UsersOf(b) \subseteq Callers /\ Shown(b) \subseteq UsersOf(b)
  BY DEF UsersOf, Shown
<1>2. IsFiniteSet(UsersOf(b)) /\ IsFiniteSet(Shown(b))
  BY <1>1, FS_Subset DEF CallersAssumption
<1> QED BY <1>1, <1>2, FS_Subset, FS_CardinalityType

(* A step that neither takes from a bucket nor shows a token: whom the     *)
(* bucket has shown one can only become fewer.                             *)
LEMMA OverdraftFrame ==
  ASSUME CallersAssumption, BInv, NEW b \in Buckets,
         tokens'[b] = tokens[b], unpaid'[b] = unpaid[b],
         tokens[b] = 0 => Shown(b)' \subseteq Shown(b)
  PROVE  Overdraft(b)'
<1>1. unpaid[b] \in Nat /\ tokens[b] \in Nat /\ Overdraft(b)
  BY DEF BInv, BridgeTypeOK
<1>2. CASE tokens[b] = 0
  <2>1. Cardinality(Shown(b)') <= Cardinality(Shown(b)) /\ Cardinality(Shown(b)') \in Nat
    BY <1>2, SomeUsers, FS_Subset, FS_CardinalityType
  <2>2. UsersOf(b)' = UsersOf(b)
    BY DEF UsersOf
  <2> QED BY <1>1, <1>2, <2>1, <2>2, SomeUsers DEF Overdraft
<1>3. CASE tokens[b] # 0
  BY <1>1, <1>3 DEF Overdraft
<1> QED BY <1>2, <1>3

\* A caller takes from a bucket, or goes on without a token.
LEMMA OverdraftTaken ==
  ASSUME CallersAssumption, BInv, NEW b \in Buckets, NEW c \in Shown(b),
         Consume(b), Shown(b)' = Shown(b) \ {c}
  PROVE  Overdraft(b)'
<1>1. /\ unpaid[b] \in Nat /\ tokens[b] \in Nat /\ Overdraft(b)
      /\ unpaid \in [Buckets -> Nat] /\ tokens \in [Buckets -> Nat]
  BY DEF BInv, BridgeTypeOK
<1>2. Cardinality(Shown(b)') = Cardinality(Shown(b)) - 1
  BY SomeUsers, FS_RemoveElement
<1>3. UsersOf(b)' = UsersOf(b)
  BY DEF UsersOf
<1>4. CASE tokens[b] >= 1
  <2>1. tokens'[b] = tokens[b] - 1 /\ unpaid'[b] = unpaid[b]
    BY <1>1, <1>4 DEF Consume
  <2>2. unpaid[b] = 0
    BY <1>1, <1>4 DEF Overdraft
  <2> QED BY <1>2, <1>3, <2>1, <2>2, SomeUsers DEF Overdraft
<1>5. CASE ~(tokens[b] >= 1)
  <2>1. tokens'[b] = tokens[b] /\ unpaid'[b] = unpaid[b] + 1 /\ tokens[b] = 0
    BY <1>1, <1>5 DEF Consume
  <2> QED BY <1>1, <1>2, <1>3, <2>1, SomeUsers DEF Overdraft
<1> QED BY <1>4, <1>5

\* What a step keeps that moves one caller along and leaves the buckets alone.
LEMMA MoveStep ==
  ASSUME CallersAssumption, BridgeAssumption, BInv, NEW c \in Callers,
         NEW from, NEW to \in Stages, Go(c, from, to),
         UNCHANGED limiter,
         \A b \in Buckets : tokens[b] = 0 => Shown(b)' \subseteq Shown(b)
  PROVE  /\ \A b \in Buckets : Overdraft(b)'
         /\ at' \in [Callers -> Stages] /\ at'[c] = to
         /\ \A d \in Callers \ {c} : at'[d] = at[d]
<1>1. at \in [Callers -> Stages] /\ tokens' = tokens /\ unpaid' = unpaid
  BY DEF BInv, BridgeTypeOK, Stages, limiter
<1>2. \A b \in Buckets : Overdraft(b)'
  BY <1>1, OverdraftFrame
<1> QED BY <1>1, <1>2 DEF Go

(* Stages a caller leaves show it no more: only Ask and AskGlobal add to   *)
(* the callers a bucket has shown a token.                                 *)
LEMMA NothingShown ==
  ASSUME BInv, NEW c \in Callers, NEW from, NEW to, Go(c, from, to),
         to \notin {"global", "take", "effect"}
  PROVE  \A b \in Buckets : Shown(b)' \subseteq Shown(b)
<1>1. at \in [Callers -> Stages]
  BY DEF BInv, BridgeTypeOK, Stages
<1>2. at' = [at EXCEPT ![c] = to]
  BY DEF Go
<1>3. ASSUME NEW b \in Buckets, NEW d \in Shown(b)' PROVE d \in Shown(b)
  <2>1. d \in Callers /\ d # c
    BY <1>1, <1>2, <1>3 DEF Shown, UsersOf
  <2>2. at'[d] = at[d]
    BY <1>1, <1>2, <2>1
  <2> QED BY <1>3, <2>2 DEF Shown, UsersOf
<1> QED BY <1>3

LEMMA InitBInv ==
  ASSUME CallersAssumption, BridgeAssumption, BridgeInit
  PROVE  BInv
<1>1. /\ at = [c \in Callers |-> "idle"] /\ tokens = Burst /\ unpaid = [b \in Buckets |-> 0]
      /\ budget = [age \in 0 .. BudgetWindow - 1 |-> 0] /\ retries = MaxRetries
      /\ tries = [c \in Callers |-> 0] /\ pc = [c \in Callers |-> "idle"]
  BY DEF BridgeInit, Init
<1>2. \A b \in Buckets : tokens[b] \in Nat /\ tokens[b] # 0 /\ tokens[b] <= Burst[b] /\ unpaid[b] = 0
  BY <1>1 DEF BridgeAssumption
<1>3. BridgeTypeOK
  BY <1>1, <1>2 DEF BridgeAssumption, BridgeTypeOK
<1>4. \A b \in Buckets : Overdraft(b)
  BY <1>2 DEF Overdraft
<1> QED BY <1>1, <1>3, <1>4 DEF BInv

\* RateLimiter.consume() looks at a bucket.
LEMMA AskStep ==
  ASSUME CallersAssumption, BridgeAssumption, BInv, NEW c \in Callers,
         Ask(c) \/ AskGlobal(c)
  PROVE  BInv'
<1>1. /\ at \in [Callers -> Stages] /\ tokens \in [Buckets -> Nat]
      /\ UNCHANGED <<vars, limiter, policy>> /\ pc' = pc
  BY DEF BInv, BridgeTypeOK, Stages, Ask, AskGlobal, vars
<1>2. PICK from \in {"idle", "global"}, to \in {"idle", "global", "take"} :
        /\ Go(c, from, to) /\ (to = "idle" => from = "global")
        /\ to = "global" => from = "idle" /\ (Limited(c) => tokens[EffectOf[c]] >= 1)
        /\ to = "take" => from = "global" /\ tokens[Global] >= 1
  BY DEF Ask, AskGlobal
<1>3. \A b \in Buckets : tokens[b] = 0 => Shown(b)' \subseteq Shown(b)
  <2> SUFFICES ASSUME NEW b \in Buckets, tokens[b] = 0, NEW d \in Shown(b)' PROVE d \in Shown(b)
    OBVIOUS
  <2>1. at' = [at EXCEPT ![c] = to] /\ at[c] = from
    BY <1>2 DEF Go
  <2>2. CASE d # c
    BY <1>1, <2>1, <2>2 DEF Shown, UsersOf
  <2>3. CASE d = c
    <3>1. at'[d] = to
      BY <1>1, <2>1, <2>3
    <3>2. CASE b = Global
      BY <1>2, <3>1, <3>2 DEF Shown
    <3>3. CASE b # Global
      <4>1. EffectOf[c] = b /\ b \in Effects
        BY <2>3, <3>3 DEF Shown, UsersOf, Buckets
      <4>2. to = "take"
        BY <1>2, <3>1, <3>3, <4>1, <2>3 DEF Shown, Limited
      <4> QED BY <1>2, <2>1, <2>3, <3>3, <4>1, <4>2 DEF Shown, UsersOf
    <3> QED BY <3>2, <3>3
  <2> QED BY <2>2, <2>3
<1>4. /\ \A b \in Buckets : Overdraft(b)'
      /\ at' \in [Callers -> Stages] /\ at'[c] = to /\ \A d \in Callers \ {c} : at'[d] = at[d]
  BY <1>1, <1>2, <1>3, MoveStep DEF Stages
<1>5. at[c] = from
  BY <1>2 DEF Go
<1>6. \A d \in Callers : (at[d] = "effect" => Limited(d))'
  BY <1>2, <1>4 DEF BInv, Limited
<1> QED BY <1>1, <1>2, <1>4, <1>5, <1>6 DEF BInv, BridgeTypeOK, Stages, limiter, policy

\* RateLimiter.consume() takes from a bucket.
LEMMA TakeStep ==
  ASSUME CallersAssumption, BridgeAssumption, BInv, NEW c \in Callers,
         TakeGlobal(c) \/ TakeEffect(c)
  PROVE  BInv'
<1>1. /\ at \in [Callers -> Stages] /\ tokens \in [Buckets -> Nat] /\ unpaid \in [Buckets -> Nat]
      /\ UNCHANGED <<vars, policy>> /\ pc' = pc
  BY DEF BInv, BridgeTypeOK, Stages, TakeGlobal, TakeEffect, vars
<1>2. PICK b \in Buckets, to \in {"effect", "admitted"} :
        /\ Consume(b) /\ c \in Shown(b) /\ Shown(b)' = Shown(b) \ {c}
        /\ at' = [at EXCEPT ![c] = to] /\ (to = "effect" => Limited(c))
        /\ \A d \in Buckets \ {b} : Shown(d)' \subseteq Shown(d)
        /\ at[c] \notin {"executing", "backoff"}
  <2>1. CASE TakeGlobal(c)
    <3> DEFINE to == IF Limited(c) THEN "effect" ELSE "admitted"
    <3>1. at[c] = "take" /\ at' = [at EXCEPT ![c] = to] /\ Consume(Global)
      BY <2>1 DEF TakeGlobal, Go
    <3>2. c \in Shown(Global) /\ Shown(Global)' = Shown(Global) \ {c}
      BY <1>1, <3>1 DEF Shown
    <3>3. \A d \in Buckets \ {Global} : Shown(d)' \subseteq Shown(d)
      BY <1>1, <3>1 DEF Shown, UsersOf
    <3> QED BY <3>1, <3>2, <3>3 DEF Buckets
  <2>2. CASE TakeEffect(c)
    <3>1. at[c] = "effect" /\ at' = [at EXCEPT ![c] = "admitted"] /\ Consume(EffectOf[c])
      BY <2>2 DEF TakeEffect, Go
    <3>2. EffectOf[c] \in Effects /\ EffectOf[c] # Global
      BY <3>1 DEF BInv, BridgeAssumption, Limited
    <3>3. c \in Shown(EffectOf[c]) /\ Shown(EffectOf[c])' = Shown(EffectOf[c]) \ {c}
      BY <1>1, <3>1, <3>2 DEF Shown, UsersOf
    <3>4. \A d \in Buckets \ {EffectOf[c]} : Shown(d)' \subseteq Shown(d)
      BY <1>1, <3>1 DEF Shown, UsersOf
    <3> QED BY <3>1, <3>2, <3>3, <3>4 DEF Buckets
  <2> QED BY <2>1, <2>2
<1>3. /\ tokens' \in [Buckets -> Nat] /\ \A d \in Buckets : tokens'[d] <= tokens[d]
      /\ unpaid' \in [Buckets -> Nat]
      /\ \A d \in Buckets \ {b} : tokens'[d] = tokens[d] /\ unpaid'[d] = unpaid[d]
  <2>1. CASE tokens[b] >= 1
    BY <1>1, <1>2, <2>1 DEF Consume
  <2>2. CASE ~(tokens[b] >= 1)
    BY <1>1, <1>2, <2>2 DEF Consume
  <2> QED BY <2>1, <2>2
<1>4. \A d \in Buckets : tokens'[d] <= Burst[d]
  BY <1>1, <1>3 DEF BInv, BridgeTypeOK, BridgeAssumption
<1>5. Overdraft(b)'
  BY <1>2, OverdraftTaken
<1>6. \A d \in Buckets \ {b} : Overdraft(d)'
  BY <1>2, <1>3, OverdraftFrame
<1>7. BridgeTypeOK'
  BY <1>1, <1>2, <1>3, <1>4 DEF BInv, BridgeTypeOK, Stages, policy
<1>8. \A d \in Callers : (at[d] = "backoff" => tries[d] < MaxRetries)'
  BY <1>1, <1>2 DEF BInv, policy
<1>9. \A d \in Callers : (at[d] = "effect" => Limited(d))'
  BY <1>1, <1>2 DEF BInv, Limited
<1> QED BY <1>5, <1>6, <1>7, <1>8, <1>9 DEF BInv

\* The circuit and the policy.
LEMMA CallStep ==
  ASSUME CallersAssumption, BridgeAssumption, BInv, CircuitTypeOK, NEW c \in Callers,
         Dispatch(c) \/ Refuse(c) \/ Return(c) \/ BackOff(c) \/ Retry(c) \/ GiveUp(c)
  PROVE  BInv'
<1>1. /\ at \in [Callers -> Stages] /\ pc \in [Callers -> {"idle", "running", "raised"}]
      /\ tries \in [Callers -> 0 .. MaxRetries] /\ budget \in [0 .. BudgetWindow - 1 -> Nat]
      /\ retries \in 1 .. MaxRetries /\ MaxRetries \in Nat /\ 0 \in 0 .. BudgetWindow - 1
  BY DEF BInv, BridgeTypeOK, CircuitTypeOK, Stages, BridgeAssumption
<1>2. PICK from \in Stages, to \in {"idle", "executing", "backoff"} :
        /\ Go(c, from, to) /\ UNCHANGED limiter
        /\ \A d \in Callers \ {c} : pc'[d] = pc[d]
        /\ pc'[c] = "running" <=> to \in {"executing", "backoff"}
  <2>1. CASE Dispatch(c)
    BY <1>1, <2>1 DEF Dispatch, Request, Stages
  <2>2. CASE Refuse(c)
    <3>1. pc[c] # "running" /\ at[c] = "admitted"
      BY <2>2 DEF Refuse, Go, BInv, BridgeTypeOK
    <3> QED BY <2>2, <3>1 DEF Refuse, vars, Stages
  <2>3. CASE Return(c)
    BY <1>1, <2>3 DEF Return, Succeed, Stages
  <2>4. CASE BackOff(c)
    <3>1. pc[c] = "running"
      BY <2>4 DEF BackOff, Go, BInv, BridgeTypeOK
    <3> QED BY <2>4, <3>1 DEF BackOff, vars, Stages
  <2>5. CASE Retry(c)
    <3>1. pc[c] = "running"
      BY <2>5 DEF Retry, Go, BInv, BridgeTypeOK
    <3> QED BY <2>5, <3>1 DEF Retry, vars, Stages
  <2>6. CASE GiveUp(c)
    BY <1>1, <2>6 DEF GiveUp, Fail, Stages
  <2> QED BY <2>1, <2>2, <2>3, <2>4, <2>5, <2>6
<1>3. /\ \A b \in Buckets : Overdraft(b)'
      /\ at' \in [Callers -> Stages] /\ at'[c] = to /\ \A d \in Callers \ {c} : at'[d] = at[d]
  BY <1>2, NothingShown, MoveStep DEF Stages
<1>4. \A d \in Callers : (pc[d] = "running" <=> at[d] \in {"executing", "backoff"})'
  BY <1>2, <1>3 DEF BInv, BridgeTypeOK
<1>5. /\ tries' \in [Callers -> 0 .. MaxRetries] /\ budget' \in [0 .. BudgetWindow - 1 -> Nat]
      /\ retries' = retries
      /\ \A d \in Callers : (at[d] = "backoff" => tries[d] < MaxRetries)'
  <2>1. CASE Dispatch(c) \/ Refuse(c)
    BY <1>1, <1>3, <2>1 DEF Dispatch, Refuse, Go, BInv, policy
  <2>2. CASE Return(c) \/ GiveUp(c)
    <3>1. /\ tries' = [tries EXCEPT ![c] = 0] /\ budget' = budget /\ retries' = retries
          /\ at' = [at EXCEPT ![c] = "idle"]
      BY <2>2 DEF Return, GiveUp, Go
    <3> QED BY <1>1, <3>1 DEF BInv
  <2>3. CASE BackOff(c)
    BY <1>1, <1>3, <2>3 DEF BackOff, Go, BInv
  <2>4. CASE Retry(c)
    BY <1>1, <1>3, <2>4 DEF Retry, Go, BInv
  <2> QED BY <2>1, <2>2, <2>3, <2>4
<1>6. BridgeTypeOK'
  BY <1>1, <1>2, <1>3, <1>4, <1>5 DEF BInv, BridgeTypeOK, Stages, limiter
<1>7. \A d \in Callers : (at[d] = "effect" => Limited(d))'
  BY <1>2, <1>3 DEF BInv, Limited
<1> QED BY <1>3, <1>5, <1>6, <1>7 DEF BInv

\* The handler of a route, operators and the service: the pipeline stands still.
LEMMA AsideStep ==
  ASSUME CallersAssumption, BridgeAssumption, BInv, CircuitTypeOK,
         \/ \E c \in Callers : Handle(c)
         \/ Operate \/ ResetBudget \/ Escalate \/ UNCHANGED bvars
  PROVE  BInv'
<1>1. /\ at' = at /\ tokens' = tokens /\ unpaid' = unpaid /\ tries' = tries
      /\ \A d \in Callers : pc'[d] = "running" <=> pc[d] = "running"
  <2>1. ASSUME NEW c \in Callers, Handle(c)
        PROVE  \A d \in Callers : pc'[d] = "running" <=> pc[d] = "running"
    BY <2>1 DEF Handle, FailAgain, CircuitTypeOK
  <2>2. Operate \/ ResetBudget \/ Escalate \/ UNCHANGED bvars => pc' = pc
    BY DEF Operate, ManualTrip, ManualReset, Heal, ResetBudget, Escalate, bvars, vars
  <2> QED BY <2>1, <2>2 DEF Handle, Operate, ResetBudget, Escalate, bvars, limiter, policy
<1>2. budget' \in [0 .. BudgetWindow - 1 -> Nat] /\ retries' \in 1 .. MaxRetries
  BY DEF Handle, Operate, ResetBudget, Escalate, bvars, policy, BInv, BridgeTypeOK, BridgeAssumption
<1>3. \A b \in Buckets : Overdraft(b)'
  BY <1>1 DEF BInv, Overdraft, Shown, UsersOf
<1>4. BridgeTypeOK'
  BY <1>1, <1>2 DEF BInv, BridgeTypeOK
<1>5. \A d \in Callers : (at[d] = "effect" => Limited(d))'
  BY <1>1 DEF BInv, Limited
<1> QED BY <1>1, <1>3, <1>4, <1>5 DEF BInv

\* The buckets gain tokens.
LEMMA RefillStep ==
  ASSUME CallersAssumption, BridgeAssumption, BInv,
         BridgeTick \/ \E b \in Buckets : ResetBucket(b)
  PROVE  BInv'
<1>1. /\ tokens \in [Buckets -> Nat] /\ unpaid \in [Buckets -> Nat] /\ Burst \in [Buckets -> Nat \ {0}]
      /\ Rate \in [Buckets -> Nat \ {0}] /\ \A b \in Buckets : tokens[b] <= Burst[b]
  BY DEF BInv, BridgeTypeOK, BridgeAssumption
<1>2. at' = at /\ pc' = pc /\ tries' = tries /\ retries' = retries
  BY DEF BridgeTick, ResetBucket, vars, policy
<1>3. /\ tokens' \in [Buckets -> Nat] /\ unpaid' \in [Buckets -> Nat]
      /\ \A b \in Buckets : tokens'[b] <= Burst[b]
      /\ \A b \in Buckets : \/ tokens'[b] # 0 /\ unpaid'[b] = 0
                            \/ tokens'[b] = tokens[b] /\ unpaid'[b] = unpaid[b]
  <2>1. CASE BridgeTick
    BY <1>1, <2>1 DEF BridgeTick, Refilled
  <2>2. CASE \E b \in Buckets : ResetBucket(b)
    BY <1>1, <2>2 DEF ResetBucket
  <2> QED BY <2>1, <2>2
<1>4. budget' \in [0 .. BudgetWindow - 1 -> Nat]
  <2>1. budget \in [0 .. BudgetWindow - 1 -> Nat] /\ BudgetWindow \in Nat
    BY DEF BInv, BridgeTypeOK, BridgeAssumption
  <2>2. CASE BridgeTick
    BY <2>1, <2>2 DEF BridgeTick
  <2>3. CASE \E b \in Buckets : ResetBucket(b)
    BY <2>1, <2>3 DEF ResetBucket, policy
  <2> QED BY <2>2, <2>3
<1>5. ASSUME NEW b \in Buckets PROVE Overdraft(b)'
  <2>1. Shown(b)' = Shown(b) /\ UsersOf(b)' = UsersOf(b)
    BY <1>2 DEF Shown, UsersOf
  <2>2. Overdraft(b)
    BY DEF BInv
  <2>3. CASE tokens'[b] # 0 /\ unpaid'[b] = 0
    BY <2>3 DEF Overdraft
  <2>4. CASE tokens'[b] = tokens[b] /\ unpaid'[b] = unpaid[b]
    BY <2>1, <2>2, <2>4 DEF Overdraft
  <2> QED BY <1>3, <2>3, <2>4
<1>6. BridgeTypeOK'
  BY <1>2, <1>3, <1>4 DEF BInv, BridgeTypeOK
<1>7. \A d \in Callers : (at[d] = "effect" => Limited(d))'
  BY <1>2 DEF BInv, Limited
<1> QED BY <1>2, <1>5, <1>6, <1>7 DEF BInv

LEMMA BridgeInvariant == BridgeSpec => []BInv
<1>1. BridgeInit => BInv
  BY InitBInv, CallersAssumption, BridgeAssumption
<1>2. BInv /\ CircuitTypeOK /\ [BridgeNext]_bvars => BInv'
  BY AskStep, TakeStep, CallStep, AsideStep, RefillStep, CallersAssumption, BridgeAssumption
     DEF BridgeNext, BridgeCall
<1>3. BridgeSpec => []CircuitTypeOK
  BY BridgeKeepsCircuit, CircuitTypeCorrect, PTL DEF CircuitKept
<1> QED BY <1>1, <1>2, <1>3, PTL DEF BridgeSpec

(* The types, and no call is inside the circuit that the limiter has not   *)
(* admitted.                                                               *)
THEOREM BridgeTypeCorrect == BridgeSpec => []BridgeTypeOK
<1>1. BInv => BridgeTypeOK
  BY DEF BInv
<1> QED BY <1>1, BridgeInvariant, PTL

(* RateLimiter.consume() looks and takes under different locks: on each    *)
(* token a bucket runs out of, at most one request for each other user of  *)
(* the bucket passes unpaid.                                               *)
THEOREM OverdraftIsBounded == BridgeSpec => []OverdraftBounded
<1>1. BInv => OverdraftBounded
  <2> SUFFICES ASSUME BInv, NEW b \in Buckets, unpaid[b] > 0
               PROVE  unpaid[b] < Cardinality(UsersOf(b))
    BY DEF OverdraftBounded
  <2>1. unpaid[b] + Cardinality(Shown(b)) < Cardinality(UsersOf(b)) /\ unpaid[b] \in Nat
    BY DEF BInv, Overdraft, BridgeTypeOK
  <2> QED BY <2>1, SomeUsers, CallersAssumption
<1> QED BY <1>1, BridgeInvariant, PTL

-----------------------------------------------------------------------------
(* Recovery.  RecoversUnlessWorn is a liveness property, and its last step *)
(* is left to TLC; what it rests on is proved here for any callers: once   *)
(* nobody is left who records a failure the circuit only comes nearer to   *)
(* closed, it never waits for anything but time and its callers, and a     *)
(* closed circuit stays closed.                                            *)

\* Nobody is left who records a failure or trips the circuit.
Recovering == healed /\ Raised = {}

\* Ticks and successes that a circuit is away from closed.
ToClose(b) ==
  CASE b.state = Closed -> 0
    [] b.state = HalfOpen -> ProbeCount - b.successes
    [] OTHER -> ProbeCount + 1 + (LongestWait - b.since)

\* The clock, the request that makes the circuit half-open, or a probe's success.
Advance ==
  \/ Tick
  \/ \E c \in Callers : \/ Request(c) /\ cb.state = Open
                        \/ Succeed(c) /\ cb.state = HalfOpen

LEMMA ToCloseType ==
  ASSUME CircuitAssumption, NEW b, Bounded(b)
  PROVE  ToClose(b) \in Nat /\ (ToClose(b) = 0 <=> b.state = Closed)
<1>1. /\ b.state \in {Closed, Open, HalfOpen} /\ b.successes \in Nat
      /\ b.since \in 0 .. LongestWait /\ LongestWait \in Nat /\ ProbeCount \in Nat \ {0}
  BY Waits DEF Bounded, Circuit, CircuitAssumption
<1>2. CASE b.state = Closed
  BY <1>2 DEF ToClose, Closed, HalfOpen
<1>3. CASE b.state = HalfOpen
  BY <1>1, <1>3 DEF ToClose, Bounded, Closed, HalfOpen
<1>4. CASE b.state = Open
  BY <1>1, <1>4 DEF ToClose, Open, Closed, HalfOpen
<1> QED BY <1>1, <1>2, <1>3, <1>4

LEMMA HalfOpenedNearer ==
  ASSUME CircuitAssumption, NEW b, Bounded(b), b.state = Open
  PROVE  ToClose(HalfOpened(b)) < ToClose(b)
<1>1. HalfOpened(b).state = HalfOpen /\ HalfOpened(b).successes = 0
  BY HalfOpenedBounded
<1>2. b.since \in 0 .. LongestWait /\ LongestWait \in Nat /\ ProbeCount \in Nat \ {0}
  BY Waits DEF Bounded, Circuit, CircuitAssumption
<1>3. ToClose(HalfOpened(b)) = ProbeCount
  BY <1>1, <1>2 DEF ToClose, Closed, HalfOpen
<1>4. ToClose(b) = ProbeCount + 1 + (LongestWait - b.since)
  BY DEF ToClose, Open, Closed, HalfOpen
<1> QED BY <1>2, <1>3, <1>4

LEMMA SuccessNearer ==
  ASSUME CircuitAssumption, NEW b, Bounded(b)
  PROVE  /\ ToClose(Success(b)) <= ToClose(b)
         /\ b.state = HalfOpen => ToClose(Success(b)) < ToClose(b)
<1>1. /\ b \in Circuit /\ b.state \in {Closed, Open, HalfOpen} /\ b.successes \in Nat
      /\ ProbeCount \in Nat \ {0} /\ ToClose(b) \in Nat
      /\ Success(b).state # HalfOpen => Success(b).successes = 0
      /\ Success(b).state = HalfOpen => Success(b).successes = b.successes + 1
  BY ToCloseType, SuccessBounded DEF Bounded, Circuit, CircuitAssumption
<1>2. CASE b.state = Closed
  <2>1. Success(b).state = Closed
    BY <1>1, <1>2 DEF Success, Circuit, Closed, HalfOpen
  <2> QED BY <1>2, <2>1 DEF ToClose, Closed, HalfOpen
<1>3. CASE b.state = HalfOpen
  <2>1. ToClose(b) = ProbeCount - b.successes /\ b.successes < ProbeCount
    BY <1>3 DEF ToClose, Bounded, Closed, HalfOpen
  <2>2. Success(b) = IF b.successes + 1 >= ProbeCount THEN Reset(b) ELSE [b EXCEPT !.successes = @ + 1]
    BY <1>3 DEF Success, Closed, HalfOpen
  <2>3. CASE b.successes + 1 >= ProbeCount
    <3>1. Success(b).state = Closed
      BY <1>1, <2>2, <2>3, ResetBounded
    <3>2. ToClose(Success(b)) = 0
      BY <3>1 DEF ToClose, Closed, HalfOpen
    <3> QED BY <1>1, <2>1, <3>2
  <2>4. CASE ~(b.successes + 1 >= ProbeCount)
    <3>1. Success(b).state = HalfOpen
      BY <1>1, <1>3, <2>2, <2>4 DEF Circuit
    <3>2. ToClose(Success(b)) = ProbeCount - (b.successes + 1)
      BY <1>1, <3>1 DEF ToClose, Closed, HalfOpen
    <3> QED BY <1>1, <2>1, <3>2
  <2> QED BY <2>3, <2>4
<1>4. CASE b.state = Open
  <2>1. Success(b) = b
    BY <1>4 DEF Success, Open, Closed, HalfOpen
  <2> QED BY <1>1, <1>4, <2>1 DEF Open, HalfOpen
<1> QED BY <1>1, <1>2, <1>3, <1>4

LEMMA WaitedNearer ==
  ASSUME CircuitAssumption, NEW b, Bounded(b), Waited(b) # b
  PROVE  ToClose(Waited(b)) < ToClose(b)
<1>1. b \in Circuit /\ b.since \in 0 .. LongestWait /\ LongestWait \in Nat /\ ProbeCount \in Nat
  BY Waits DEF Bounded, Circuit, CircuitAssumption
<1>2. b.state = Open /\ b.since < LongestWait /\ Waited(b) = [b EXCEPT !.since = @ + 1]
  BY DEF Waited
<1>3. Waited(b).state = Open /\ Waited(b).since = b.since + 1
  BY <1>1, <1>2 DEF Circuit
<1>4. /\ ToClose(b) = ProbeCount + 1 + (LongestWait - b.since)
      /\ ToClose(Waited(b)) = ProbeCount + 1 + (LongestWait - (b.since + 1))
  BY <1>2, <1>3 DEF ToClose, Open, Closed, HalfOpen
<1> QED BY <1>1, <1>4

\* A step of a circuit that recovers brings it nearer to closed, or no farther.
LEMMA RecoveringStep ==
  ASSUME IInv, Recovering, [Next]_vars
  PROVE  /\ Recovering' /\ ToClose(cb') <= ToClose(cb)
         /\ Advance => ToClose(cb') < ToClose(cb)
<1>1. /\ Bounded(cb) /\ healed = TRUE /\ pc \in [Callers -> {"idle", "running", "raised"}]
      /\ \A c \in Callers : pc[c] # "raised"
      /\ ToClose(cb) \in Nat /\ (ToClose(cb) = 0 <=> cb.state = Closed)
      /\ cb.state \in {Closed, Open, HalfOpen}
  BY Numbers, ToCloseType, CircuitAssumption, CallersAssumption
     DEF IInv, CircuitTypeOK, Recovering, Raised, Circuit
<1>2. ASSUME NEW c \in Callers, Request(c)
      PROVE  /\ Recovering' /\ ToClose(cb') <= ToClose(cb)
             /\ cb.state = Open => ToClose(cb') < ToClose(cb)
             /\ cb' = cb \/ cb.state = Open
  <2>1. cb' = Allowed(cb) /\ healed' = healed /\ pc' = [pc EXCEPT ![c] = "running"]
        /\ (cb.state = Open => Due(cb))
    BY <1>2 DEF Request, Observe, Allows, Open, Closed, HalfOpen
  <2>2. Recovering'
    BY <1>1, <2>1 DEF Recovering, Raised
  <2>3. CASE Due(cb)
    <3>1. cb.state = Open /\ cb' = HalfOpened(cb)
      BY <2>1, <2>3 DEF Due, Allowed
    <3>2. ToClose(cb') < ToClose(cb) /\ ToClose(cb') \in Nat
      BY <1>1, <3>1, HalfOpenedNearer, HalfOpenedBounded, ToCloseType, CircuitAssumption
    <3> QED BY <1>1, <2>2, <3>1, <3>2
  <2>4. CASE ~Due(cb)
    BY <1>1, <2>1, <2>2, <2>4 DEF Allowed
  <2> QED BY <2>3, <2>4
<1>3. ASSUME NEW c \in Callers, Succeed(c)
      PROVE  /\ Recovering' /\ ToClose(cb') <= ToClose(cb)
             /\ cb.state = HalfOpen => ToClose(cb') < ToClose(cb)
  <2>1. cb' = Success(cb) /\ healed' = healed /\ pc' = [pc EXCEPT ![c] = "idle"]
    BY <1>3 DEF Succeed, Observe
  <2>2. Recovering'
    BY <1>1, <2>1 DEF Recovering, Raised
  <2> QED BY <1>1, <2>1, <2>2, SuccessNearer, CircuitAssumption
<1>4. ASSUME Tick PROVE Recovering' /\ ToClose(cb') < ToClose(cb) /\ ToClose(cb') <= ToClose(cb)
  <2>1. cb' = Waited(cb) /\ Waited(cb) # cb /\ UNCHANGED <<pc, healed>>
    BY <1>4 DEF Tick
  <2>2. Recovering'
    BY <2>1 DEF Recovering, Raised
  <2>3. ToClose(cb') < ToClose(cb) /\ ToClose(cb') \in Nat
    BY <1>1, <2>1, WaitedNearer, WaitedBounded, ToCloseType, CircuitAssumption
  <2> QED BY <1>1, <2>2, <2>3
<1>5. ASSUME ManualReset PROVE Recovering' /\ ToClose(cb') <= ToClose(cb)
  <2>1. cb' = Reset(cb) /\ UNCHANGED <<pc, healed>> /\ cb \in Circuit
    BY <1>1, <1>5 DEF ManualReset, Observe, Bounded
  <2>2. ToClose(cb') = 0
    BY <2>1, ResetBounded, CircuitAssumption DEF ToClose, Closed, HalfOpen
  <2>3. Recovering'
    BY <2>1 DEF Recovering, Raised
  <2> QED BY <1>1, <2>2, <2>3
<1>6. ASSUME UNCHANGED vars PROVE Recovering' /\ ToClose(cb') <= ToClose(cb)
  <2>1. cb' = cb /\ pc' = pc /\ healed' = healed
    BY <1>6 DEF vars
  <2> QED BY <1>1, <2>1 DEF Recovering, Raised
<1>7. \/ \E c \in Callers : Request(c) \/ Succeed(c)
      \/ Tick \/ ManualReset \/ UNCHANGED vars
  BY <1>1 DEF Next, Call, FailAgain, Fail, ManualTrip, Heal
<1>8. Recovering' /\ ToClose(cb') <= ToClose(cb)
  BY <1>2, <1>3, <1>4, <1>5, <1>6, <1>7
<1>9. Advance => ToClose(cb') < ToClose(cb)
  BY <1>2, <1>3, <1>4 DEF Advance
<1> QED BY <1>8, <1>9

(* When the outage is over and the last handler has recorded its failure,  *)
(* no step moves the circuit farther from closed, and each tick of the     *)
(* clock while it is open, the request that makes it half-open and each    *)
(* success of a probe move it nearer.                                      *)
THEOREM RecoveryNeverTurnsBack ==
  Spec => /\ [](ToClose(cb) \in Nat /\ (ToClose(cb) = 0 <=> cb.state = Closed))
          /\ [][Recovering => /\ Recovering' /\ ToClose(cb') <= ToClose(cb)
                              /\ Advance => ToClose(cb') < ToClose(cb)]_vars
<1>1. IInv => ToClose(cb) \in Nat /\ (ToClose(cb) = 0 <=> cb.state = Closed)
  BY Numbers, ToCloseType, CircuitAssumption, CallersAssumption
<1>2. IInv /\ [Next]_vars =>
        [Recovering => /\ Recovering' /\ ToClose(cb') <= ToClose(cb)
                       /\ Advance => ToClose(cb') < ToClose(cb)]_vars
  BY RecoveringStep
<1> QED BY <1>1, <1>2, InvariantHolds, PTL DEF Spec

(* A circuit that has recovered stays closed: no late result of a request  *)
(* from before the outage was over opens it again.                         *)
THEOREM ClosedForGood ==
  Spec => [](Recovering /\ cb.state = Closed => [](Recovering /\ cb.state = Closed))
<1> DEFINE Recovered == Recovering /\ cb.state = Closed
<1>1. IInv /\ Recovered /\ [Next]_vars => Recovered'
  <2> SUFFICES ASSUME IInv, Recovered, [Next]_vars PROVE Recovered'
    OBVIOUS
  <2>1. /\ Recovering' /\ ToClose(cb') <= ToClose(cb)
    BY RecoveringStep
  <2>2. ToClose(cb) = 0
    BY DEF ToClose, Closed, HalfOpen
  <2>3. Bounded(cb')
    BY NextIInv, Numbers, CircuitAssumption, CallersAssumption DEF IInv, CircuitTypeOK, Bounded
  <2>4. ToClose(cb') \in Nat /\ (ToClose(cb') = 0 <=> cb'.state = Closed)
    BY <2>3, ToCloseType, CircuitAssumption
  <2> QED BY <2>1, <2>2, <2>4
<1> HIDE DEF Recovered
<1>2. Spec => [](Recovered => []Recovered)
  BY <1>1, InvariantHolds, PTL DEF Spec
<1> QED BY <1>2 DEF Recovered

\* What allow_request() compares with: no timeout is longer than LongestWait.
LEMMA TimeoutReached ==
  ASSUME CircuitAssumption, NEW b \in Circuit, b.since = LongestWait, ~Worn(b), b.state = Open
  PROVE  Due(b)
<1>1. /\ b.trips \in Nat /\ LongestWait \in Nat /\ RecoveryTimeout \in Nat /\ MaxRecoveryTimeout \in Nat
      /\ RecoveryTimeout <= LongestWait /\ MaxRecoveryTimeout <= LongestWait
  BY Waits DEF CircuitAssumption, Circuit, LongestWait
<1>2. Timeout(b) \in Int /\ Timeout(b) <= LongestWait
  <2>1. CASE b.trips <= 1
    BY <1>1, <2>1 DEF Timeout
  <2>2. CASE ~(b.trips <= 1)
    <3>1. PICK n \in Nat : n = b.trips - 1
      BY <1>1, <2>2
    <3>2. 2 ^ n \in Int
      BY SMT
    <3>3. PICK p \in Int : p = RecoveryTimeout * 2 ^ n
      BY <1>1, <3>2
    <3>4. Timeout(b) = IF p < MaxRecoveryTimeout THEN p ELSE MaxRecoveryTimeout
      BY <2>2, <3>1, <3>3 DEF Timeout
    <3> QED BY <1>1, <3>3, <3>4
  <2> QED BY <2>1, <2>2
<1> QED BY <1>1, <1>2 DEF Due

(* Nothing but time stands between a circuit and its next request: closed  *)
(* and half-open circuits always let one through, an open one when its     *)
(* timeout is over, and only one that opened too often never does.         *)
THEOREM CircuitNeverSticks ==
  Spec => [](Allows(cb) \/ (cb.state = Open /\ (Worn(cb) \/ Waited(cb) # cb)))
<1>1. IInv => Allows(cb) \/ (cb.state = Open /\ (Worn(cb) \/ Waited(cb) # cb))
  <2> SUFFICES ASSUME IInv, ~Allows(cb) PROVE cb.state = Open /\ (Worn(cb) \/ Waited(cb) # cb)
    OBVIOUS
  <2>1. /\ cb \in Circuit /\ cb.failed = 0 /\ cb.successes \in Nat
        /\ cb.state = HalfOpen => cb.successes < ProbeCount
    BY Numbers, CircuitAssumption, CallersAssumption DEF Bounded
  <2>2. cb.state = Open /\ ~Due(cb)
    BY <2>1 DEF Allows, Circuit
  <2>3. ASSUME ~Worn(cb) PROVE Waited(cb) # cb
    <3>1. cb.since \in 0 .. LongestWait /\ cb.since # LongestWait /\ LongestWait \in Nat
      BY <2>1, <2>2, <2>3, TimeoutReached, Waits, CircuitAssumption DEF Circuit
    <3>2. Waited(cb) = [cb EXCEPT !.since = @ + 1]
      BY <2>2, <3>1 DEF Waited
    <3>3. Waited(cb).since = cb.since + 1
      BY <2>1, <3>2 DEF Circuit
    <3> QED BY <3>1, <3>3
  <2> QED BY <2>2, <2>3
<1> QED BY <1>1, InvariantHolds, PTL

\* What the methods of the circuit make of it, in one step of the callers.
LEMMA CircuitSteps ==
  ASSUME [Next]_vars
  PROVE  cb' \in {cb, HalfOpened(cb), Success(cb), Failure(cb), Opened(cb), Reset(cb), Waited(cb)}
<1>1. \/ \E c \in Callers : Request(c) \/ Succeed(c) \/ FailAgain(c) \/ Fail(c)
      \/ ManualTrip \/ ManualReset \/ Tick \/ Heal \/ UNCHANGED vars
  BY DEF Next, Call
<1>2. ASSUME NEW c \in Callers, Request(c) \/ Succeed(c) \/ FailAgain(c) \/ Fail(c)
      PROVE  cb' \in {cb, HalfOpened(cb), Success(cb), Failure(cb)}
  BY <1>2 DEF Request, Allowed, Succeed, FailAgain, Fail, Observe
<1>3. ASSUME ManualTrip \/ ManualReset \/ Tick \/ Heal \/ UNCHANGED vars
      PROVE  cb' \in {cb, Opened(cb), Reset(cb), Waited(cb)}
  BY <1>3 DEF ManualTrip, ManualReset, Tick, Heal, vars, Observe
<1> QED BY <1>1, <1>2, <1>3

\* No method clears trip_count.
LEMMA TripsKept ==
  ASSUME CircuitAssumption, NEW b \in Circuit,
         NEW z \in {b, HalfOpened(b), Success(b), Failure(b), Opened(b), Reset(b), Waited(b)}
  PROVE  z.trips \in Nat /\ z.trips >= b.trips
<1>1. b.trips \in Nat /\ FloatMaxExp \in Nat
  BY DEF Circuit, CircuitAssumption
<1>2. HalfOpened(b).trips = b.trips /\ Reset(b).trips = b.trips /\ Waited(b).trips = b.trips
  BY DEF Circuit, HalfOpened, Reset, Waited
<1>3. Opened(b).trips = IF b.trips > FloatMaxExp THEN b.trips ELSE b.trips + 1
  BY DEF Circuit, Opened
<1>4. Success(b) \in {[b EXCEPT !.failures = 0], Reset(b), [b EXCEPT !.successes = @ + 1], b}
  <2>1. b.state \in {Closed, Open, HalfOpen}
    BY DEF Circuit
  <2> QED BY <2>1 DEF Success, Open, Closed, HalfOpen
<1>5. Failure(b) \in {Opened(b), [b EXCEPT !.failures = @ + 1], b}
  <2>1. b.state \in {Closed, Open, HalfOpen}
    BY DEF Circuit
  <2> QED BY <2>1 DEF Failure, Open, Closed, HalfOpen
<1>6. /\ [b EXCEPT !.failures = 0].trips = b.trips /\ [b EXCEPT !.successes = @ + 1].trips = b.trips
      /\ [b EXCEPT !.failures = @ + 1].trips = b.trips
  BY DEF Circuit
<1>7. z.trips \in {b.trips, Opened(b).trips}
  BY <1>2, <1>4, <1>5, <1>6
<1> QED BY <1>1, <1>3, <1>7

(* Why recovery needs its exception: reset() and a successful probe keep   *)
(* trip_count, so that a circuit whose backoff is no float any more stays  *)
(* that way, and once it is open only an operator's reset() closes it.     *)
THEOREM WornForGood ==
  Spec => /\ [](Worn(cb) => []Worn(cb))
          /\ [][Worn(cb) /\ cb.state = Open => cb'.state = Open \/ ManualReset]_vars
<1>1. IInv /\ Worn(cb) /\ [Next]_vars => Worn(cb)'
  <2> SUFFICES ASSUME IInv, Worn(cb), [Next]_vars PROVE Worn(cb')
    OBVIOUS
  <2>1. cb \in Circuit /\ cb.trips \in Nat /\ FloatMaxExp \in Nat
    BY Numbers, CircuitAssumption, CallersAssumption DEF Bounded, Circuit, CircuitAssumption
  <2>2. cb'.trips \in Nat /\ cb'.trips >= cb.trips
    BY <2>1, CircuitSteps, TripsKept, CircuitAssumption
  <2> QED BY <2>1, <2>2 DEF Worn
<1>2. IInv /\ [Next]_vars =>
        [Worn(cb) /\ cb.state = Open => cb'.state = Open \/ ManualReset]_vars
  <2> SUFFICES ASSUME IInv, Next, Worn(cb), cb.state = Open
               PROVE  cb'.state = Open \/ ManualReset
    OBVIOUS
  <2>1. cb \in Circuit
    BY Numbers, CircuitAssumption, CallersAssumption DEF Bounded
  <2>2. \A c \in Callers : ~Request(c)
    BY DEF Request, Allows, Due, Open, Closed, HalfOpen
  <2>3. Success(cb) = cb /\ Failure(cb) = cb
    BY DEF Success, Failure, Open, Closed, HalfOpen
  <2>4. Opened(cb).state = Open /\ Waited(cb).state = Open
    BY <2>1, OpenedBounded, CircuitAssumption, Numbers, CallersAssumption, WaitedBounded
  <2>5. CASE \E c \in Callers : Succeed(c) \/ FailAgain(c) \/ Fail(c)
    BY <2>3, <2>5 DEF Succeed, FailAgain, Fail, Observe
  <2>6. CASE ManualTrip \/ Tick \/ Heal
    BY <2>4, <2>6 DEF ManualTrip, Tick, Heal, Observe
  <2> QED BY <2>2, <2>5, <2>6 DEF Next, Call
<1> QED BY <1>1, <1>2, InvariantHolds, PTL DEF Spec

-----------------------------------------------------------------------------
(* Steps a call that was let through has left: it ends an attempt, and     *)
(* begins another while it may.                                            *)
StepsLeft(stage, begun) == 2 * (MaxRetries - begun) + (IF stage = "executing" THEN 1 ELSE 0)

(* RetryPolicy.execute() ends: each step of a call brings it out of call() *)
(* or nearer to its last attempt, and no step of another caller, of an     *)
(* operator or of the clock takes it back, not even where handle_failure() *)
(* changes max_retries or the budget meanwhile.                            *)
THEOREM CallsAreBounded ==
  BridgeSpec =>
    [][\A c \in Callers : pc[c] = "running" =>
         /\ StepsLeft(at[c], tries[c]) \in 0 .. 2 * MaxRetries + 1
         /\ \/ pc'[c] # "running" /\ BridgeCall(c)
            \/ pc'[c] = "running" /\ UNCHANGED <<at[c], tries[c]>>
            \/ StepsLeft(at'[c], tries'[c]) < StepsLeft(at[c], tries[c])]_bvars
<1>1. ASSUME BInv, CircuitTypeOK, BridgeNext, NEW c \in Callers, pc[c] = "running"
      PROVE  /\ StepsLeft(at[c], tries[c]) \in 0 .. 2 * MaxRetries + 1
             /\ \/ pc'[c] # "running" /\ BridgeCall(c)
                \/ pc'[c] = "running" /\ UNCHANGED <<at[c], tries[c]>>
                \/ StepsLeft(at'[c], tries'[c]) < StepsLeft(at[c], tries[c])
  <2>1. /\ at \in [Callers -> Stages] /\ tries \in [Callers -> 0 .. MaxRetries] /\ MaxRetries \in Nat
        /\ pc \in [Callers -> {"idle", "running", "raised"}]
        /\ at[c] \in {"executing", "backoff"} /\ (at[c] = "backoff" => tries[c] < MaxRetries)
    <3>1. at \in [Callers -> Stages] /\ tries \in [Callers -> 0 .. MaxRetries]
      BY <1>1 DEF BInv, BridgeTypeOK, Stages
    <3>2. MaxRetries \in Nat /\ pc \in [Callers -> {"idle", "running", "raised"}]
      BY <1>1, BridgeAssumption DEF CircuitTypeOK, BridgeAssumption
    <3>3. at[c] \in {"executing", "backoff"} /\ (at[c] = "backoff" => tries[c] < MaxRetries)
      BY <1>1 DEF BInv, BridgeTypeOK
    <3> QED BY <3>1, <3>2, <3>3
  <2>2. PICK n \in 0 .. MaxRetries : n = tries[c]
    BY <2>1
  <2>3. StepsLeft(at[c], tries[c]) \in 0 .. 2 * MaxRetries + 1
    BY <2>1, <2>2 DEF StepsLeft
  <2>4. CASE \E d \in Callers : BridgeCall(d) /\ d # c
    <3>1. PICK d \in Callers : BridgeCall(d) /\ d # c
      BY <2>4
    <3>2. at'[c] = at[c] /\ tries'[c] = tries[c] /\ pc'[c] = pc[c]
      BY <2>1, <3>1 DEF BridgeCall, Ask, AskGlobal, TakeGlobal, TakeEffect, Dispatch, Refuse, Return,
           BackOff, Retry, GiveUp, Handle, Go, Request, Succeed, Fail, FailAgain, vars, limiter, policy
    <3> QED BY <1>1, <2>3, <3>2
  <2>5. CASE BridgeCall(c)
    <3>1. Return(c) \/ BackOff(c) \/ Retry(c) \/ GiveUp(c)
      BY <1>1, <2>1, <2>5 DEF BridgeCall, Ask, AskGlobal, TakeGlobal, TakeEffect, Dispatch, Refuse, Handle,
           FailAgain, Go
    <3>2. CASE Return(c) \/ GiveUp(c)
      <4>1. pc'[c] # "running"
        BY <2>1, <3>2 DEF Return, GiveUp, Succeed, Fail
      <4> QED BY <2>3, <2>5, <4>1
    <3>3. CASE BackOff(c)
      <4>1. at[c] = "executing" /\ at'[c] = "backoff" /\ tries'[c] = n
        BY <2>1, <2>2, <3>3 DEF BackOff, Go
      <4>2. StepsLeft(at[c], tries[c]) = 2 * (MaxRetries - n) + 1
        BY <2>2, <4>1 DEF StepsLeft
      <4>3. StepsLeft(at'[c], tries'[c]) = 2 * (MaxRetries - n) + 0
        BY <4>1 DEF StepsLeft
      <4>4. 2 * (MaxRetries - n) + 0 < 2 * (MaxRetries - n) + 1
        BY <2>1
      <4> QED BY <2>3, <4>2, <4>3, <4>4
    <3>4. CASE Retry(c)
      <4>1. at[c] = "backoff" /\ at'[c] = "executing" /\ tries'[c] = n + 1
        BY <2>1, <2>2, <3>4 DEF Retry, Go
      <4>2. StepsLeft(at[c], tries[c]) = 2 * (MaxRetries - n) + 0
        BY <2>2, <4>1 DEF StepsLeft
      <4>3. StepsLeft(at'[c], tries'[c]) = 2 * (MaxRetries - (n + 1)) + 1
        BY <4>1 DEF StepsLeft
      <4>4. 2 * (MaxRetries - (n + 1)) + 1 < 2 * (MaxRetries - n) + 0
        BY <2>1
      <4> QED BY <2>3, <4>2, <4>3, <4>4
    <3> QED BY <3>1, <3>2, <3>3, <3>4
  <2>6. CASE \/ \E b \in Buckets : ResetBucket(b)
             \/ BridgeTick \/ ResetBudget \/ Escalate \/ Operate
    <3>1. at' = at /\ tries' = tries /\ pc' = pc
      BY <2>6 DEF ResetBucket, BridgeTick, ResetBudget, Escalate, Operate, ManualTrip, ManualReset, Heal,
           vars, policy
    <3> QED BY <1>1, <2>3, <3>1
  <2> QED BY <1>1, <2>4, <2>5, <2>6 DEF BridgeNext
<1>2. BridgeSpec => []CircuitTypeOK
  BY BridgeKeepsCircuit, CircuitTypeCorrect, PTL DEF CircuitKept
<1>3. BInv /\ CircuitTypeOK /\ [BridgeNext]_bvars =>
        [\A c \in Callers : pc[c] = "running" =>
           /\ StepsLeft(at[c], tries[c]) \in 0 .. 2 * MaxRetries + 1
           /\ \/ pc'[c] # "running" /\ BridgeCall(c)
              \/ pc'[c] = "running" /\ UNCHANGED <<at[c], tries[c]>>
              \/ StepsLeft(at'[c], tries'[c]) < StepsLeft(at[c], tries[c])]_bvars
  BY <1>1
<1> QED BY <1>2, <1>3, BridgeInvariant, PTL DEF BridgeSpec
=============================================================================
