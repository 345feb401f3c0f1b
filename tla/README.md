# TLA+ models of HLF-MCP

Specifications of the stateful core of this repository: the Instinct mission
lifecycle with its dream cycle and promotion rules (`instinct/`,
`hlf/dream_proposal.py`), the Spindle DAG executor (`hlf/spindle.py`), the calls of
the ecosystem bridges through limiter, circuit breaker and retry policy
(`ecosystem/`), the two kinds of human approval (`hlf/hitl_gate.py`,
`hlf/approval_ledger.py`), the audit chain (`hlf/audit_chain.py`) and the memory
leases (`hlf/knowledge/memory_lease.py`, `hlf/memory_lease_hardening.py`). They are
checked with TLC on small instances and proved about with TLAPS for all of them.
`PROJECT.json` maps every definition to the lines it models. Paths are relative to
`src/hlf_mcp/`.

## 1. Inventory

| Component | State | Operations | Interacts with | What makes it correct | Status |
|---|---|---|---|---|---|
| Mission lifecycle, `instinct/lifecycle.py`, `server_instinct.py` | missions (phase, history, artifacts, DAG, trace, contract, report, CoVE flag, seal), one ledger, one lock | `step`, `realign`, `classify_and_plan`, `execute_plan_with_routing`, `run_cove_verification` | tools on several threads share the one object `server_context.py` creates | merge is earned on every walk; the seal covers what is stored at merge; the ledger replays to the phase; a snapshot that is acted on is current | modelled |
| Dream binding, `instinct/lifecycle.py:785-1172`, `dream_cycle.py` | findings and proposals of a mission | `observe_phase`, `propose_phase`, `promote_finding`, `run_observe_propose_cycle` | gives up the lifecycle's lock between sections and calls `step` | promotions are justified; proposals come after observe and propose; the phases it assigns without a gate are ones the mission has entered | partly: finding contents abstract |
| Promotion rules, `hlf/dream_proposal.py` | one proposal | two promotions, rule evaluation | called on a copy without the lock | one rung at a time; the credential the rule asks for | modelled |
| Orchestration contract, `instinct/orchestration.py` | none (pure) | normalise DAG and trace, build contract, readiness | called by `step` half-way through a transition | accepts what the DAG has; readiness means every node ran and was allowed | partly |
| Spindle executor, `hlf/spindle.py` | node statuses, results, interrupts, a thread pool | `run`, `run_parallel`, `interrupt`, compensation | caller, pool workers and interrupting threads | dependencies first; rollback in reverse, after everything is quiet; the run returns | partly: no context propagation, no event bus |
| Circuit breaker, `ecosystem/circuit_breaker.py` | state, counters, trip time, one lock | `allow_request`, `record_*`, `call`, `trip`, `reset` | bridges call through it, the coordinator trips it | probes and late results are bounded; a recovered service closes it | modelled |
| Rate limiter, retry policy, resilience coordinator, `ecosystem/` | buckets with a lock each; a retry budget; counters | `consume`, `execute`, `handle_failure` | around and inside the circuit's `call` | overdraft is bounded; a call returns; one call is one result for the circuit | partly |
| Bridges, `ecosystem/mcp_bridge.py`, `rest_bridge.py` | the objects above | `dispatch_tool_call`, route handlers | MCP clients, HTTP clients | the order limiter, circuit, retry | partly |
| Approval of an inference, `hlf/hitl_gate.py` | one JSON file per request | submit, approve, reject, check timeouts | operators' tools and `scripts/hlf_operator.py`, several processes | decided once unless calls overlap; readable unless one died | modelled |
| Approval of capsules, `hlf/approval_ledger.py`, `server_capsule.py` | SQLite requests and hash-linked events | `ensure_request`, `decide`, capsule run, review | threads of a server take turns, servers do not | the chain verifies; a server decides once; a run is justified | partly |
| Audit chain, `hlf/audit_chain.py` | log file, last-hash file | `log`, `verify_integrity` | every governed tool, several processes | an error has a cause; a loss among the lines compared shows while the file can be decoded | partly: no Merkle proofs, no plan versions |
| Memory leases, `hlf/knowledge/memory_lease.py`, `hlf/memory_lease_hardening.py` | leases with expiry; negotiated priorities, pinned leases | acquire, renew, release, check, sweep; negotiate, preempt; evict, demote, protect | agents, the negotiator, the pressure handler, the migration | conflicting leases are never both active; a lease ends early only by being released or replaced | partly: no auditor, no tiers |
| Sessions, `hlf/session_auth.py` | revoked ids | issue, delegate, revoke, validate | every tool | a revoked authority is gone with what it delegated | not modelled |
| Swarm consensus and handoff, `hlf/swarm_consensus.py`, `hlf/swarm_handoff.py` | votes; contracts and receipts | vote, resolve; initiate, accept, complete, abort | agents | a resolution is final; a completed handoff stays completed | not modelled |
| Checkpointed and multi-phase execution, `hlf/checkpoint_executor.py`, `hlf/multi_phase_executor.py`, `instinct/execution.py` | checkpoints, plan steps | execute, resume, evict, retry, roll back | tool calls, memory leases | resume repeats nothing that is done | not modelled |
| Model routing, `hlf/routing/` | per-node breaker | record success/failure, pick | callers without a lock | an open node recovers | not modelled: a simpler relative of the circuit breaker |
| Compiler, bytecode, runtime, formal verifier, capsules, ethics checks | sequential | - | - | functional | not modelled: data, better tested |
| Tool surface, personas, gallery, training, `src/hlf` | I/O, registration, reporting | - | - | - | not modelled |

The hard behaviours are of seven kinds: a helper reads a mission under the lock,
works without it and acts on the copy; an operation fails in the middle of its
writes; statuses, seals, flags or reports of an earlier pass are still there in a
later one; pool workers, the collecting caller and an interrupting thread
interleave; the result of a request meets another state of the circuit than the one
that let it through; processes share a file or a database that a lock inside one
process does not protect, and may die between two writes; and a lease runs out while
somebody acts on it. `PROJECT.json` "hazards" lists each at its line with the
properties that watch it; those without a property name the reason.

## 2. Modules

| Module | Models | Composition |
|---|---|---|
| `InstinctLifecycle` | the lifecycle, its gates and helper methods | - |
| `DreamBinding` | the dream methods and the promotion rules | EXTENDS `InstinctLifecycle`, whose steps of the other callers (`StepNext`) it includes, and implements it (run `dream`, theorem `LifecycleIsKept`) |
| `PromotionLadder` | abstract: a proposal climbs advisory, candidate, binding, or is dropped for good | implemented by `DreamBinding` (run `ladder`) |
| `SpindleSaga` | the executor, sequential and parallel | - |
| `Saga` | abstract: effects in dependency order, rollback in reverse, then over | implemented by `SpindleSaga` (run `saga`, theorem `SagaStepsKept`) |
| `CircuitState` | the circuit as a record, one operator per method | - |
| `CircuitBreaker` | the circuit with its callers: what it promises whoever calls | EXTENDS `CircuitState` |
| `BridgeDispatch` | limiter, circuit, retry policy and coordinator around a bridge's call | EXTENDS `CircuitBreaker` and implements it (`CircuitKept`) |
| `HITLGate` | the file of one request to a human | - |
| `CapsuleApproval` | the approval ledger, capsule runs and reviews on several servers | - |
| `AuditChain` | the log and the last-hash file, crashes, disk faults, processes; what `verify_integrity` can read of it | - |
| `MemoryLease` | the lease manager, the negotiator that calls it, and what the pressure handler and the migration do to both | - |
| `MC...` | values of the constants for TLC | EXTENDS the module it is named after |
| `..._proofs` | theorems and their proofs | EXTENDS the module it is named after; `CircuitBreaker_proofs` also covers `BridgeDispatch` |

### InstinctLifecycle

`step()` holds the lock from its first line to its last, so it is one action; its
outcomes are separate operators (`Created`, `AlreadyAt`, `OutOfOrder`,
`CoveBlocked`, `StaleBlocked`, `NotReadyBlocked`, `Advanced`, `AdvanceRaised`) whose
guards are the code's early returns in their order. `AdvanceRaised` is the
`ValueError` of a normaliser: phase, history and artifact are already written. The
three helpers are two actions each, the snapshot and the later `step`; a call in
between is an element of `calls` and carries what it copied.

Two more methods of the object write the phase. The last locked section of
`observe_phase` and of `propose_phase` assigns "observe" or "propose" (lines 865 and
963) whatever the phase has become, with no gate, no override and no entry in
history or ledger. `DreamAssign` is that write here, to a phase the mission has
visited; that the calls never assign another one is proved of them section by
section in `DreamBinding_proofs` (`DreamGateKept`), and that a step of theirs is
always a step of this module is `LifecycleKept`. It matters: a dream call that began
at observe and ends after the merge sends a sealed mission back, unforced, to be
proposed, specified and planned again.

Abstractions: a DAG is its set of node ids and a trace gives each node a verdict
("planned" is no entry); a report is what the CoVE gate can read off it; evidence is
its freshness; the history is the set of phases visited; the ledger is the phase of
its last entry; artifacts are a counter of writes, so that the seal can be compared
with what is stored. `forced`, `refused` and `drifted` are history variables: no
action reads them, and they let a property say "unless an override was used", "until
a normaliser raised" and "unless a dream method's write moved the mission".

### DreamBinding

`observe_phase`, `propose_phase` and `promote_finding` take and release the lock
several times. Each locked section is an action, and a call is a record in `dreams`
with its position `at` and what it read. Everything the other callers of
`InstinctLifecycle` do (`StepNext`) may happen in between; the assignments are here
those of the calls (`ObserveWrite`, `ProposeWrite`). Findings are a set of
confidence bands (at most one per band); proposal ids pair a batch with a band, for
the code derives them from the finding and the cycle.

### SpindleSaga

`at` is where the calling thread is: in `run()` between nodes ("order"), with a node
admitted or executing, in `run_parallel()` between waves or collecting one, or
compensating. Workers take nodes from `queued` to `running` and leave an outcome in
`returned`, which the caller collects in any order, as `as_completed` does.
Interrupts arrive at any time. Node statuses survive a run, as in the code. The code
fixes one topological order; the model takes any, so the result does not depend on
the order in which nodes were added.

### CircuitState, CircuitBreaker and BridgeDispatch

Every method of the breaker runs under its one lock, so `CircuitState` writes each
as an operator on a record. Time is counted in ticks since the trip, as far as the
timeout can tell them apart, and the backoff has the power of two that overflows a
float at its 1025th doubling (`FloatMaxExp` names the limit). A call has two steps:
`Request` and a recorded result; in between anything may happen. A REST handler
catches what `call()` raised and records the failure again (`FailAgain`). `probe`,
`probed`, `own` and `streak` are history variables that count, per visit to
half-open or per run of failures, what the circuit itself does not; `healed` is the
environment's promise that the service answers and nobody trips the circuit.

`BridgeDispatch` adds what surrounds `call()`: the limiter's `consume()` as four
steps, each under the lock of one bucket (look at the effect's bucket, look at the
global one, take from it, take from the effect's), and the retry policy inside the
call with its budget by age. A retry is inside one call, so the circuit sees one
result however many attempts were made. The coordinator appears with what reaches
the other objects: it trips the circuit and lowers `max_retries`. Tokens come in
whole units per tick. `unpaid` counts the calls a bucket let pass without a token
since it last had one.

### HITLGate

A call is a read, the `open()` that empties the file, and the write, without a lock;
a process may die before each of the last two. When a second call has written
between the two, the rest of a longer text may stay behind ("garbled"). Ids and
reasons are left out; `met` is a history variable with the pairs of calls that
overlapped, `acked` the calls that returned a decision.

### CapsuleApproval

A method of the ledger holds its server's lock (`lock` is who holds one), begins
with a SELECT outside a transaction and commits its writes in one that takes the
database's lock late, so another server may commit in between; the thread is at
"insert" or "update" then. `StartRun`, `RunDecides` and the others are the calls
`hlf_capsule_run` makes in turn, `Review` is the operators' tool. A hash is the
sequence it was computed from. `created_at` is read before the commit, so which of
two requests is the newest is a choice.

### AuditChain

A hash is the sequence of payloads it was computed from, so equal hashes mean equal
histories. `log()` is read last hash, append the line, truncate the last-hash file,
write it; reads and writes may fail, a process may die at each point and leave part
of a line, and processes that share the default paths interleave. Lines are written
with `ensure_ascii=False`, so a part may be cut inside a character (`garbled`): then
reading raises a decoding error, `iter_entries` returns no line and
`verify_integrity` reports ok, from then on and for ever, for nothing repairs the
file. Otherwise it compares the last `Limit` lines (`Compared`). `faults`, `blind`,
`overlapped`, `mixed` and `gaps` are history variables that count causes, which the
properties relate to the errors `verify_integrity` reports.

### MemoryLease

A method of the manager is atomic under its lock. The negotiator holds its own lock
over several of them, and one action is one such call. `left` is the time to the
expiry, which every reader checks lazily (`Swept`). Lease ids are positions in
`leases`. `release` asks for no holder: an agent may release the lease of another,
and `evict_under_pressure` and `demote_cold` do so by design (`Evict`); which lease
they choose depends on a list read earlier and on access counts, so any active lease
may be theirs, a pinned one included, for `demote_cold` looks at the counts alone.
`protect_critical` gets a negotiated lease from the negotiator, under its lock, and
writes to it without: `Pin` and `MakeCritical` may come between any two steps of a
`negotiate` call, also between its comparison of priorities and its preemption.
`released` is a history variable: the leases that were released, or replaced by
their holder's next one, before they ran out.

## 3. What each run checks

| Run | Shows | States (distinct) |
|---|---|---|
| `lifecycle` | types; merge is earned, the dispatched plan current unless the mission drifted, what was verified is never changed but for the phase, with a helper thread, clients that never override and late dream writes | 470 thousand |
| `override` | with overrides and dream writes: only a payload refused half-way separates ledger or contract from the mission, and only at plan or execute, but for an assigned observe or propose; a mission at merge carries the seal of what it holds | 307 thousand |
| `dream` | two threads of dream calls and clients: types, justified promotions, the dream gate, and the calls implement `InstinctLifecycle` | 480 thousand |
| `ladder` | one thread of dream calls, every rule and kind of credential: refinement of `PromotionLadder` | 72 thousand |
| `saga` | types; dependencies first, quiet rollback, dependents compensated first, runs return, refinement of `Saga` | 22 thousand |
| `bridge` | a caller of each bridge: types of circuit and pipeline, probes and late results bounded, half the threshold of failed calls opens, overdraft bounded, refinement of `CircuitBreaker`, calls return, a healed service recovers | 161 thousand |
| `hitl` | four calls on one request: types, conflicting decisions overlapped, an undecodable file has a call that died or overlapped | 55 thousand |
| `approvals` | three threads on two servers: types, the event chain verifies, a server asks and decides once, runs are justified | 209 thousand |
| `audit` | two processes and two faults: types, errors are explained, losses among the compared lines show while the file can be decoded | 3.0 million |
| `lease` | two agents and the negotiator: types, active leases are compatible, users are alone unless released or replaced, also with eviction and protected leases | 3.5 million |

Two runs expect a violation, and each quotes what the code says of itself in
"findings": `lost_promotion` (a promotion that returned is written over by another
call's copy) and `lease_key` (the negotiator looks for a lease on a key and finds
one on another key of the same holder, which it renews or preempts).

Bounds. `MaxEdits`, `MaxFailures`, `MaxRealigns`, `MaxBatches`, `MaxRuns`,
`MaxEntries`, `MaxFaults` and `MaxLeases` only end behaviours. Eleven writes let a
mission that starts at propose walk to merge, be written back by a dream call and
walk from propose to merge a second time with another plan; six let an overridden
one be merged twice; two batches are needed for an old proposal to outlive its
batch; two runs for a status to outlive its run. Missions do not interact (every
action touches one record, which the proofs confirm for any number of them), so one
is enough. Two nodes tell a node of the DAG from one outside it; four nodes in a
diamond, with two workers, give waves of one and two with a node that has two
dependencies. Two threads are what a lost update needs. For the circuit a threshold
and a probe quota of three leave room for a late result on either side of a probe;
one caller of each bridge sees every edge, a limit of three doublings and of three
ticks of timeout reach the cap and the overflow; buckets of one token are empty
after one call, which is when overdraft happens; two retries on a budget of one meet
both refusals of `should_retry`. Four lines and two faults give a torn line in the
middle of a log with a wrong last hash beside it; a `Limit` of three leaves the
first line out of the window once there are four. Two threads of one server and one
of another tell a server's lock from the database's. Four calls on a file are two
overlapping pairs. Two holders, two keys, two priorities and two rounds let a lease
be preempted and lost to a third call; three leases are one more than can be held at
once. The proofs lift all of these bounds for the safety properties. Thread and
agent sets are symmetric where the properties are invariants.

In the runs of `DreamBinding` clients step with empty payloads to observe, propose
and specify, in `dream` with and without an override: the dream methods never read
what the later phases store. What their writes do to a mission that is further on is
checked in `lifecycle` and `override`, where `DreamAssign` may happen at any time.
In `ladder` there is one thread of dream calls because with two the ladder is really
broken (`lost_promotion`; and a late write-back returns a dropped proposal).

Stopping. Deadlock is checked in `lifecycle`, `override`, the dream runs, `bridge`
and `approvals`. `saga`, `audit`, `hitl`, `lease` and `lease_key` allow it: an
executor that nobody runs again has stopped, every call on a file has been made, or
a bound on entries or leases is reached.

Fairness. The lifecycle is driven by callers who may never call, so its
specifications have none, and neither have those of approvals, audit and leases.
`SpindleSaga!FairSpec` is weakly fair on `Progress`, the steps of the calling thread
and the workers, and on nothing else: threads are scheduled and every `execute_fn`
and `compensate_fn` returns. Nobody is obliged to begin a run or to interrupt.
`BridgeFairSpec` is weakly fair on the clock and, per caller, on its next step,
whatever that is: attempts return or fail (bridges call with a timeout) and clients
keep calling. Failing, tripping, resetting, escalating and healing are never forced.
`RecoversUnlessWorn` is about what follows `healed`: from then on the service
answers, nobody trips the circuit and sessions have the trust a route asks for, and
still the circuit may stay open when it was tripped so often that its timeout
overflows.

Every property of a passing run has a mutant, a plausible mistake in one mapped
definition (kept next to it and marked "Mutation"), under which TLC finds it
violated.

## 4. What is proved

For every value of the constants that satisfies the named assumptions:

| Proof module | Assumptions | Theorems |
|---|---|---|
| `InstinctLifecycle_proofs` | `ConstantsAssumption`: finite node set, typed payloads, natural bounds | `TypeCorrect`, `MergeIsEarned`, `SealIsCurrent`, `RefusalIsTheOnlyLeakProved`, `GatesAreLogged`, `SnapshotIsCurrent`, `VerifiedWorkStaysFrozen` |
| `DreamBinding_proofs` | and `DreamConstants`; `DreamsAreCallers` (the empty payload is one callers submit, with and without override) for `LifecycleIsKept`; `OneWorker` for the last two | `DreamTypeCorrect`, `PromotionIsJustified`, `DreamGateKept`, `LifecycleIsKept`, `LadderIsClimbed`, `OneThreadLosesNothing` |
| `SpindleSaga_proofs` | `DagAssumption`: the DAG is acyclic | `SagaTypeCorrect`, `DependenciesFirst`, `RollbackIsQuiet`, `RollbackReversed`, `SagaStepsKept`, `RunsAreBounded`, `RunsNeverStick` |
| `CircuitBreaker_proofs` | `CircuitAssumption`, `CallersAssumption`, `BridgeAssumption`: positive thresholds, timeouts, bursts and rates, finitely many callers | `CircuitTypeCorrect`, `ProbesAreBounded`, `StaleResultsAreBounded`, `FailuresAreCounted`, `BridgeKeepsCircuit`, `BridgeTypeCorrect`, `OverdraftIsBounded`, `RecoveryNeverTurnsBack`, `ClosedForGood`, `CircuitNeverSticks`, `WornForGood`, `CallsAreBounded` |
| `HITLGate_proofs` | none | `GateTypeCorrect`, `OnlyOverlapsConflict`, `UndecodableIsExplained` |
| `CapsuleApproval_proofs` | `ApprovalAssumption`: each thread has a server; `OneServer` for the last | `LedgerTypeCorrect`, `ChainNeverBreaks`, `ServersActOnce`, `RunsAreJustified`, `OneServerDecidesForGood` |
| `AuditChain_proofs` | `AuditAssumption`: finitely many processes, a positive limit; `OneProcess` for the last | `AuditTypeCorrect`, `ErrorsAreExplained`, `LossesShow`, `OneProcessVerifies` |
| `MemoryLease_proofs` | `LeaseAssumption`: priorities are natural numbers, 0 (CRITICAL) among them | `LeaseTypeCorrect`, `LeasesCompatible`, `UsersAreAlone`, `EndedForGood`, `NegotiationIsBounded` |

Lifecycle. `MergeEarned` is not inductive: a step into merge must know what an
unforced mission did in *every* earlier phase, so `IInv` holds `Earned(r)` for each
mission that was never forced: at a phase, all earlier ones from specify on were
visited, at verify and merge the trace allows every node of the DAG, at merge the
CoVE flag is set and the evidence not stale. A late dream write keeps this, since
observe and propose owe nothing: the mission earns its next merge on the next walk,
though it may be judged by the report of the last one. The seal, the ledger and the
contract are part of the same invariant, and `SnapshotInv` says of a dispatching
call whose mission neither an override nor a dream write has moved that it is at
plan with the same DAG or past it; once written back the mission may be planned
again under the copy, which is why the property has that exception. The work is done
on one record: `StepLocal` proves the invariant of the mission a step names,
`StepFrame` that others are untouched, and `IInvNext` has one step per action of
`Next`. `VerifiedWorkStaysFrozen` asks of each outcome of a late `step` why it
cannot write: without an override the order forbids every phase before verify, and
what verify and merge store is not what their gates judged; a dream write stores a
phase and nothing else.

Dreams. For `PromotionJustified` the invariant must cover what threads carry: every
proposal that is stored *and* every copy a call has read is justified, because the
write-back stores a function of the copy. For the gate, `GateInv` says what a call
between two locked sections may assign when it resumes: only a phase its mission has
visited. That makes each of its steps a step of `InstinctLifecycle`, a caller's
`step` or a `DreamAssign`, and with `LifecycleIsKept` every theorem about the
lifecycle holds under dream calls. The ladder needs `LInv`: proposals and copies
belong to batches made so far, and a copy that one thread is about to write back is
still what is stored, so that the write-back is one rung. Both theorems of the
ladder assume `OneWorker`, as the run `ladder` does; `lost_promotion` is what
becomes of them with two.

Executor. `SInv` adds to the properties where each variable is in use (`Control`),
that the nodes in hand are disjoint, placed once and have their dependencies
completed (`Grounded`), that a "completed" status on a placed node is of this run
(`StatusCurrent`, the reason a second run on the same DAG is sound), and that the
completed sequence is sorted and what is already compensated comes after what is
left to undo (`Reversed`). `SagaStep` maps each action under it. `WorkLeft` counts
what a run still has to do, weighing a node by how far it is from being settled and
compensated; each step of a thread lowers it, and `RunsNeverStick` shows that there
is one, from the acyclic graph (some node left has no dependency left) and from
`InHand` (a node is running while the caller is about to execute it).

Circuit. `IInv` adds to the types that successes are accounted for (`Counted`), that
those let through are among the probed (`LetThrough`), that late successes are at
most the callers who are not probes (`StaleCounted`), and that each failed call of
the streak was recorded at most twice, the second time by a caller that is still to
do so (`FailuresCounted`). `BridgeKeepsCircuit` maps every step of the pipeline to a
step of the circuit or to a stutter, which carries the circuit's theorems to the
bridges. For `OverdraftIsBounded` the invariant `BInv` counts the callers to whom a
bucket has shown a token: unpaid calls and callers still holding such a promise
together stay below the users of the bucket once it is empty. Recovery is argued
with a distance: `ToClose` is the ticks, the transition and the probe successes
between an open circuit and a closed one. Once the service is healed and no handler
has a failure left to record, nothing raises it. `CircuitNeverSticks` says that a
step that lowers it is always possible but for a worn circuit, and `WornForGood` why
that exception is there to stay. `CallsAreBounded` does the same for the retry loop.

Approvals. In `HITLGate_proofs` `IInv` says which states of the file go with the
submission and with the calls (`Submission`, `Decided`), that two calls under way
have met (`Meetings`), and which call emptied the file (`Emptied`). In
`CapsuleApproval_proofs` it ties the tables together (`Database`), says what a
thread at each place has read and what has happened since (`Places`, `ThreadOK`),
and that a lock's holder is alone on its server (`LockOK`): only this gives
`OncePerServer`, since what was read under the lock is still so for everything that
server wrote. It also makes a decision final when there is one server.

Audit. The two properties compare counts, so `IInv` is an amortised argument. It is
about all lines, as if each could always be read, for the window of the last `Limit`
lines moves with every line; `WindowOfBroken` goes from all lines to what is
reported. Every error of the chain, present or still to come from a head that does
not fit or from a call that has read a stale one (`Owe`), is paid by a fault or by a
call that overlapped (`ErrorsPaid`), and every gap by the part of a line that made
it (`GapsPaid`); the same with signs turned for losses (`LossesPaid`). A process
alone never overlaps, and both bounds become bounds by its crashes and the faults of
its disk, still with the exception of the cut character.

Leases. `IInv` says that a lease is superseded only by one granted after it ran out
or was let go (`Superseded`), that an inactive lease with time left was released or
replaced (`Accounted`), and what the negotiator's call has found (`Found`).
`Compatible` needs the first for a renewal of an expired lease that nobody swept.
That a lease which ended stays ended is shown of each method by what it does to the
sequence of leases; the negotiator's call is bounded by its rounds and the rank of
its places.

Only model-checked is what needs fairness: `RunReturns`, the liveness part of
`SagaKept`, `RecoversUnlessWorn` and `CallsReturn`. That last step needs ENABLED and
an induction on a measure, which are out of the prover's reach. What those
properties rest on is proved for every value of the constants: a measure that the
fair steps lower and no step raises (`RunsAreBounded`, `RecoveryNeverTurnsBack`,
`CallsAreBounded`) and, for the executor and the circuit, that such a step can be
taken (`RunsNeverStick`, `CircuitNeverSticks`); TLC adds the step from these to
"eventually" on its instances. `FoundOnKey` is false of the code (run `lease_key`),
and `PromotionNeverLost` is with more than one thread.

## 5. What is left out

Of the modelled parts: content of specs, payload hashes, timestamps, wording of
errors and of ledger entries; `_realignments` inside the spec (only counted);
aliasing of Python objects between the store and callers; `propagate_context`, the
event bus, node results and durations of Spindle; the topological sorts; crashes of
a process that keeps its state in memory only, and loses it at once; `try_consume`,
adding and removing buckets, the distributed limiter; the coordinator's counters and
events; `max_retries` 0 (no policy of the code has it); what a capsule requires; the
recent entries an audit chain keeps in memory, Merkle proofs and plan versions; the
lease auditor, the tiers and plans of the migration, how the pressure handler
chooses what to release, and its reports.

Not modelled: sessions (what a token says is data, and revocation is one set under
one lock), swarm coordination, checkpointed and multi-phase execution, model routing
(a simpler breaker without a lock and a pure score), and the sequential or purely
functional rest named in the inventory.

Seen while modelling, without a run of its own:

- Lifecycle: a refused payload leaves the phase changed and the ledger behind
  (bounded by `RefusalIsTheOnlyLeak`); the default CoVE report nests its verdict where the
  gate does not look; observe and propose move a phase backward; a promotion may
  rest on a CoVE pass the code assumes (`instinct/lifecycle.py:1140`); a sealed mission can be
  reopened by an override and keeps its seal. It is also reopened, without any, by an
  `observe_phase` call that began at observe and ends after the merge (line 865): it can
  then be planned and run anew in order, and its next merge may be judged by the
  report of the first, while a thread still dispatching the old plan stores its run. `promote_to_binding` says its rule check
  is "stricter for binding" (`hlf/dream_proposal.py:246`) and applies the same one.
- Spindle: the interrupt flag is put into the context when a node starts, so a
  running node never sees a later one; a failing wave cancels none of its futures;
  `SpindleResult.success` "whether all nodes completed without failure"
  (`hlf/spindle.py:86`) stays true with skipped nodes.
- Approvals: a run with the right credentials is admitted although the request
  it was shown was rejected, by its own server or another; `approve` does not look at the time, so a
  request that expired is approved until `check_timeouts` has passed (`hlf/hitl_gate.py:156`); a rejection is overturned by an overlapping approval from
  another server, and the chain still verifies.
- Audit: after a write that breaks off inside a multi-byte character the file is no
  UTF-8, `iter_entries` catches the error and returns no entry
  (`hlf/audit_chain.py:119-120`), and `verify_integrity` reports ok with nothing checked
  from then on. It looks at the last `limit` lines only, 1000 unless asked for more
  and 10000 at most.
- Leases: `demote_cold` (`hlf/memory_lease_hardening.py:928`) releases pinned leases
  too, and `protect_critical` (lines 677-680) writes outside the negotiator's lock, so a
  lease just made critical may still be preempted by a call that compared before.
- Bridges: REST handlers record one failure twice, so half the threshold opens the
  circuit; tokens are spent on requests the circuit refuses; from the 1025th trip
  on the timeout raises `OverflowError` and the circuit stays open until it is reset;
  `handle_success` would count a half-open success a second time
  (`ecosystem/resilience_coordinator.py:612`), but nothing calls it after `call()`.
- From reading: `hlf/swarm_handoff.py` completes an attesting handoff without the gates
  and lets a completed one be attested again; `hlf/checkpoint_executor.py` resumes by
  executing every step again, and evicts by swarm, oldest first.

## 6. Plan

Done: lifecycle, dreams and ladder; executor and saga; circuit, limiter and retries;
approvals, audit chain and leases; the proofs of every safety and action property
the passing runs check, of both refinements of abstract specifications (the fair
part of `SagaKept` apart), and of the measures under the liveness properties. Left,
in this order:

1. `CheckpointExecutor`: it acquires memory leases (`hlf/checkpoint_executor.py:403`), so it
   composes with `MemoryLease`; eviction against resume.
2. `SwarmHandoff` and `SwarmConsensus`; abstract: a decision is final.
3. Sessions: delegation trees against revocation.
4. `TaskDag`: both topological sorts as recursive functions against a reference.
5. Proofs: what two dream threads still guarantee of the ladder (a proposal
   never gains more than the calls that wrote it); the repair of `lost_promotion`
   and `lease_key` as variants shown to satisfy what the code does not.
