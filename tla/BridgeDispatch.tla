--------------------------- MODULE BridgeDispatch ---------------------------
(***************************************************************************)
(* A call through a hardened bridge: RateLimiter.consume(), then           *)
(* CircuitBreaker.call(), and inside it, for MCPBridge's                   *)
(* dispatch_tool_call, RetryPolicy.execute().  The limiter looks at two    *)
(* buckets and takes from them in four steps, each under the lock of one   *)
(* bucket.  The circuit and its callers are those of CircuitBreaker, which *)
(* this module implements.                                                 *)
(***************************************************************************)
EXTENDS CircuitBreaker, Functions

CONSTANTS
  Effects,       \* effects with a bucket of their own
  EffectOf,      \* the effect each caller asks for
  Burst, Rate,   \* tokens a bucket holds and tokens it gains per tick
  MaxRetries,    \* max_retries of the policy as it was made
  MaxBudget,     \* max_budget
  BudgetWindow   \* budget_window in ticks

Global == "global"
Buckets == Effects \cup {Global}

ASSUME BridgeAssumption ==
  /\ Global \notin Effects
  /\ Burst \in [Buckets -> Nat \ {0}]
  /\ Rate \in [Buckets -> Nat \ {0}]
  /\ MaxRetries \in Nat \ {0}
  /\ MaxBudget \in Nat
  /\ BudgetWindow \in Nat \ {0}

Limited(c) == EffectOf[c] \in Effects

\* The callers that take from a bucket.
UsersOf(b) == IF b = Global THEN Callers ELSE {c \in Callers : EffectOf[c] = b}

VARIABLES
  at,       \* where in the pipeline each caller is
  tokens,   \* the buckets, refilled as time passes
  budget,   \* retries of the policy by their age in ticks
  retries,  \* max_retries now
  tries,    \* retries each caller's call has begun
  unpaid    \* consume() calls a bucket let pass without a token since it had one

limiter == <<tokens, unpaid>>
policy == <<budget, retries, tries>>
bvars == <<vars, at, limiter, policy>>

BridgeInit ==
  /\ Init
  /\ at = [c \in Callers |-> "idle"]
  /\ tokens = Burst
  /\ unpaid = [b \in Buckets |-> 0]
  /\ budget = [age \in 0 .. BudgetWindow - 1 |-> 0]
  /\ retries = MaxRetries
  /\ tries = [c \in Callers |-> 0]

Go(c, from, to) == at[c] = from /\ at' = [at EXCEPT ![c] = to]

-----------------------------------------------------------------------------
(* RateLimiter.consume()                                                   *)

\* Mutation: the effect's bucket is not looked at.
AskAnyway(c) ==
  /\ pc[c] = "idle"
  /\ Go(c, "idle", "global")
  /\ UNCHANGED <<vars, limiter, policy>>

\* The effect's bucket, if there is one, has a token.  A rejection changes nothing.
Ask(c) ==
  /\ pc[c] = "idle"
  /\ Limited(c) => tokens[EffectOf[c]] >= 1
  /\ Go(c, "idle", "global")
  /\ UNCHANGED <<vars, limiter, policy>>

AskGlobal(c) ==
  /\ Go(c, "global", IF tokens[Global] >= 1 THEN "take" ELSE "idle")
  /\ UNCHANGED <<vars, limiter, policy>>

\* TokenBucket.consume(), whose result RateLimiter.consume() ignores.
Consume(b) ==
  IF tokens[b] >= 1
  THEN tokens' = [tokens EXCEPT ![b] = @ - 1] /\ UNCHANGED unpaid
  ELSE unpaid' = [unpaid EXCEPT ![b] = @ + 1] /\ UNCHANGED tokens

TakeGlobal(c) ==
  /\ Go(c, "take", IF Limited(c) THEN "effect" ELSE "admitted")
  /\ Consume(Global)
  /\ UNCHANGED <<vars, policy>>

TakeEffect(c) ==
  /\ Go(c, "effect", "admitted")
  /\ Consume(EffectOf[c])
  /\ UNCHANGED <<vars, policy>>

-----------------------------------------------------------------------------
(* CircuitBreaker.call() around RetryPolicy.execute()                      *)

Dispatch(c) ==
  /\ Go(c, "admitted", "executing")
  /\ Request(c)
  /\ UNCHANGED <<limiter, policy>>

(* The circuit does not let the request through, or a route asks for more  *)
(* trust than the session has.  The tokens are spent.                      *)
Refuse(c) ==
  /\ ~Allows(cb) \/ (c \in RestCallers /\ ~healed)
  /\ Go(c, "admitted", "idle")
  /\ UNCHANGED <<vars, limiter, policy>>

Return(c) ==
  /\ Go(c, "executing", "idle")
  /\ Succeed(c)
  /\ tries' = [tries EXCEPT ![c] = 0]
  /\ UNCHANGED <<limiter, budget, retries>>

\* _consume_budget(): retries older than the window are forgotten.
InBudget == SumFunction(budget) < MaxBudget

\* Mutation: the policy is around call(), which records the failure of every attempt.
BackOffOutside(c) ==
  /\ c \notin RestCallers /\ ~healed
  /\ tries[c] < retries /\ InBudget
  /\ Go(c, "executing", "backoff")
  /\ Observe(Failure(cb), {}, {}, 1)
  /\ budget' = [budget EXCEPT ![0] = @ + 1]
  /\ UNCHANGED <<pc, healed, limiter, retries, tries>>

\* An attempt fails and should_retry() allows another.
BackOff(c) ==
  /\ c \notin RestCallers /\ ~healed
  /\ tries[c] < retries /\ InBudget
  /\ Go(c, "executing", "backoff")
  /\ budget' = [budget EXCEPT ![0] = @ + 1]
  /\ UNCHANGED <<vars, limiter, retries, tries>>

\* Mutation: the attempt is not counted.
RetryUncounted(c) ==
  /\ Go(c, "backoff", "executing")
  /\ UNCHANGED <<vars, limiter, policy>>

\* The delay, which is random, is over.
Retry(c) ==
  /\ Go(c, "backoff", "executing")
  /\ tries' = [tries EXCEPT ![c] = @ + 1]
  /\ UNCHANGED <<vars, limiter, budget, retries>>

(* An attempt fails for good: there is no policy, it allows no more, or    *)
(* the exception is none of its retryable_exceptions.                      *)
GiveUp(c) ==
  /\ Go(c, "executing", "idle")
  /\ Fail(c)
  /\ tries' = [tries EXCEPT ![c] = 0]
  /\ UNCHANGED <<limiter, budget, retries>>

\* The handler of a route records the failure again.
Handle(c) == FailAgain(c) /\ UNCHANGED <<at, limiter, policy>>

-----------------------------------------------------------------------------
(* Time and the operators.                                                 *)

\* Mutation: the bucket may overflow.
RefilledPastBurst(b) == IF tokens[b] < Burst[b] THEN tokens[b] + Rate[b] + 1 ELSE Burst[b]

\* TokenBucket._refill() of the time that passes, at most burst tokens.
Refilled(b) ==
  IF tokens[b] + Rate[b] < Burst[b] THEN tokens[b] + Rate[b] ELSE Burst[b]

BridgeTick ==
  /\ cb' = Waited(cb)
  /\ tokens' = [b \in Buckets |-> Refilled(b)]
  /\ unpaid' = [b \in Buckets |-> 0]
  /\ budget' = [age \in DOMAIN budget |-> IF age = 0 THEN 0 ELSE budget[age - 1]]
  /\ <<cb, limiter, budget>>' # <<cb, limiter, budget>>
  /\ UNCHANGED <<pc, healed, ghosts, at, retries, tries>>

\* TokenBucket.reset()
ResetBucket(b) ==
  /\ tokens' = [tokens EXCEPT ![b] = Burst[b]]
  /\ unpaid' = [unpaid EXCEPT ![b] = 0]
  /\ UNCHANGED <<vars, at, policy>>

\* reset_budget()
ResetBudget ==
  /\ budget' = [age \in DOMAIN budget |-> 0]
  /\ UNCHANGED <<vars, at, limiter, retries, tries>>

\* handle_failure() of a rate_limit error: fewer retries, but one at least.
Escalate ==
  /\ retries' = IF retries > 1 THEN retries - 1 ELSE 1
  /\ UNCHANGED <<vars, at, limiter, budget, tries>>

\* trip(), reset() and the end of the outage
Operate == (ManualTrip \/ ManualReset \/ Heal) /\ UNCHANGED <<at, limiter, policy>>

BridgeCall(c) ==
  \/ Ask(c) \/ AskGlobal(c) \/ TakeGlobal(c) \/ TakeEffect(c)
  \/ Dispatch(c) \/ Refuse(c) \/ Return(c) \/ BackOff(c) \/ Retry(c) \/ GiveUp(c) \/ Handle(c)

BridgeNext ==
  \/ \E c \in Callers : BridgeCall(c)
  \/ \E b \in Buckets : ResetBucket(b)
  \/ BridgeTick \/ ResetBudget \/ Escalate \/ Operate

BridgeSpec == BridgeInit /\ [][BridgeNext]_bvars

\* The clock runs, attempts return and the callers keep calling.
BridgeFairSpec ==
  BridgeSpec /\ WF_bvars(BridgeTick) /\ \A c \in Callers : WF_bvars(BridgeCall(c))

-----------------------------------------------------------------------------
(* The types; and where a caller is in the pipeline goes with where it is  *)
(* in call().                                                              *)
BridgeTypeOK ==
  /\ at \in [Callers -> {"idle", "global", "take", "effect", "admitted", "executing", "backoff"}]
  /\ tokens \in [Buckets -> Nat] /\ \A b \in Buckets : tokens[b] <= Burst[b]
  /\ unpaid \in [Buckets -> Nat]
  /\ budget \in [0 .. BudgetWindow - 1 -> Nat] /\ retries \in 1 .. MaxRetries
  /\ tries \in [Callers -> 0 .. MaxRetries]
  /\ \A c \in Callers : pc[c] = "running" <=> at[c] \in {"executing", "backoff"}

(* Two callers may both see the last token of a bucket and both go on: on  *)
(* each token it runs out of, a bucket lets pass no more requests without  *)
(* a token than it has other users.                                        *)
OverdraftBounded ==
  \A b \in Buckets : unpaid[b] > 0 => unpaid[b] < Cardinality(UsersOf(b))

(* A call that was let through comes back, however often its attempts fail *)
(* and whatever else takes from the policy's budget.                       *)
CallsReturn == \A c \in Callers : pc[c] = "running" ~> pc[c] = "idle"

(* The pipeline implements the circuit and its callers, which know nothing *)
(* of tokens and retries: what holds of them holds here.                   *)
CircuitKept == Spec
=============================================================================
