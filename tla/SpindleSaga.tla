---------------------------- MODULE SpindleSaga ----------------------------
(***************************************************************************)
(* The DAG executor of hlf_mcp/hlf/spindle.py: run() takes the nodes one   *)
(* at a time, run_parallel() takes them in waves and hands each wave to a  *)
(* thread pool; if a node raises, the completed nodes are compensated.     *)
(* Other threads may interrupt nodes at any time.  The caller's thread,    *)
(* the pool's workers and the interrupting threads interleave.             *)
(***************************************************************************)
EXTENDS Integers, SequencesExt

CONSTANTS
  Nodes,        \* self.dag.nodes
  DependsOn,    \* depends_on of each node
  Compensable,  \* the nodes that have a compensate_fn
  MaxWorkers,   \* run_parallel's max_workers
  MaxRuns       \* bound on the runs of one executor

\* validate(): the dependencies are nodes and the graph has no cycle.
ASSUME DagAssumption ==
  /\ IsFiniteSet(Nodes)
  /\ DependsOn \in [Nodes -> SUBSET Nodes]
  /\ \A S \in (SUBSET Nodes) \ {{}} : \E n \in S : DependsOn[n] \cap S = {}
  /\ Compensable \subseteq Nodes
  /\ MaxWorkers \in Nat \ {0}
  /\ MaxRuns \in Nat

VARIABLES
  at,           \* where the calling thread is
  status,       \* node.status; a run does not reset it
  placed,       \* nodes of the order, or of the waves, already taken
  queued,       \* nodes submitted to the pool and not started
  running,      \* nodes whose execute_fn is running
  returned,     \* outcome of a future that is done and not yet collected
  completed,    \* result.completed_nodes
  failedNode,   \* result.failed_node: {} or its singleton; success is {}
  undo,         \* the completed nodes _compensate has not visited yet
  compensated,  \* result.compensated_nodes
  interrupted,  \* self._interrupted_nodes, never cleared
  flag,         \* context["_interrupted"]
  runs          \* number of runs begun

result == <<completed, failedNode, compensated>>
vars == <<at, status, placed, queued, running, returned, result, undo, interrupted, flag, runs>>

Places == {"over", "order", "admitted", "executing", "waves", "wave", "undo"}
Status == {"pending", "running", "completed", "failed", "compensated", "skipped"}

-----------------------------------------------------------------------------
\* Mutation: a skipped dependency counts as satisfied.
SatisfiedUnlessFailed(n) == \A d \in DependsOn[n] : status[d] # "failed"

Satisfied(n) == \A d \in DependsOn[n] : status[d] = "completed"

\* The next node of a topological order; get_execution_waves takes all of them.
NextInOrder(n) == n \in Nodes \ placed /\ DependsOn[n] \subseteq placed

Wave == {n \in Nodes : NextInOrder(n)}

Runnable(n) == n \notin interrupted /\ Satisfied(n)

SetStatus(S, s) == status' = [n \in Nodes |-> IF n \in S THEN s ELSE status[n]]

Begin ==
  /\ at = "over" /\ runs < MaxRuns
  /\ \E mode \in {"order", "waves"} : at' = mode
  /\ runs' = runs + 1
  /\ placed' = {}
  /\ completed' = <<>> /\ failedNode' = {} /\ compensated' = <<>>
  /\ UNCHANGED <<status, queued, running, returned, undo, interrupted, flag>>

Return ==
  /\ at \in {"order", "waves"} /\ placed = Nodes
  /\ at' = "over"
  /\ UNCHANGED <<status, placed, queued, running, returned, result, undo, interrupted, flag, runs>>

Interrupt(n) ==
  /\ n \notin interrupted
  /\ interrupted' = interrupted \cup {n}
  /\ UNCHANGED <<at, status, placed, queued, running, returned, result, undo, flag, runs>>

-----------------------------------------------------------------------------
(* run().                                                                  *)

SkipNext(n) ==
  /\ at = "order" /\ NextInOrder(n)
  /\ ~Runnable(n)
  /\ SetStatus({n}, "skipped")
  /\ placed' = placed \cup {n}
  /\ UNCHANGED <<at, queued, running, returned, result, undo, interrupted, flag, runs>>

AdmitNext(n) ==
  /\ at = "order" /\ NextInOrder(n)
  /\ Runnable(n)
  /\ at' = "admitted"
  /\ running' = {n}
  /\ SetStatus({n}, "running")
  /\ placed' = placed \cup {n}
  /\ UNCHANGED <<queued, returned, result, undo, interrupted, flag, runs>>

\* The interrupt flag is computed once, before execute_fn starts.
Execute(n) ==
  /\ at = "admitted" /\ n \in running
  /\ flag' = (n \in interrupted)
  /\ at' = "executing"
  /\ UNCHANGED <<status, placed, queued, running, returned, result, undo, interrupted, runs>>

Succeed(n) ==
  /\ at = "executing" /\ n \in running
  /\ SetStatus({n}, "completed")
  /\ completed' = Append(completed, n)
  /\ running' = {}
  /\ at' = "order"
  /\ UNCHANGED <<placed, queued, returned, failedNode, compensated, undo, interrupted, flag, runs>>

\* Mutation: nothing is handed to the compensation.
RaiseWithoutUndo(n) ==
  /\ at = "executing" /\ n \in running
  /\ SetStatus({n}, "failed")
  /\ failedNode' = {n}
  /\ running' = {}
  /\ at' = "undo"
  /\ UNCHANGED <<placed, queued, returned, completed, compensated, undo, interrupted, flag, runs>>

Raise(n) ==
  /\ at = "executing" /\ n \in running
  /\ SetStatus({n}, "failed")
  /\ failedNode' = {n}
  /\ running' = {}
  /\ at' = "undo" /\ undo' = completed
  /\ UNCHANGED <<placed, queued, returned, completed, compensated, interrupted, flag, runs>>

-----------------------------------------------------------------------------
(* run_parallel().                                                         *)

\* Mutation: the skipped nodes of a wave are not taken off.
StartWaveOfRunnable ==
  LET go == {n \in Wave : Runnable(n)} IN
  /\ at = "waves" /\ placed # Nodes
  /\ SetStatus(Wave \ go, "skipped")
  /\ placed' = placed \cup go
  /\ queued' = go
  /\ at' = IF go = {} THEN "waves" ELSE "wave"
  /\ UNCHANGED <<running, returned, result, undo, interrupted, flag, runs>>

StartWave ==
  LET go == {n \in Wave : Runnable(n)} IN
  /\ at = "waves" /\ placed # Nodes
  /\ SetStatus(Wave \ go, "skipped")
  /\ placed' = placed \cup Wave
  /\ queued' = go
  /\ at' = IF go = {} THEN "waves" ELSE "wave"
  /\ UNCHANGED <<running, returned, result, undo, interrupted, flag, runs>>

\* A worker takes a node of the pool's queue; nothing looks at the interrupts
\* or at failures of the same wave any more.
WorkerStart(n) ==
  /\ n \in queued
  /\ Cardinality(running) < MaxWorkers
  /\ queued' = queued \ {n} /\ running' = running \cup {n}
  /\ SetStatus({n}, "running")
  /\ UNCHANGED <<at, placed, returned, result, undo, interrupted, flag, runs>>

WorkerEnd(n, outcome) ==
  /\ at = "wave" /\ n \in running
  /\ running' = running \ {n}
  /\ returned' = [returned EXCEPT ![n] = outcome]
  /\ SetStatus({n}, IF outcome = "ok" THEN "completed" ELSE "running")
  /\ UNCHANGED <<at, placed, queued, result, undo, interrupted, flag, runs>>

\* as_completed yields the futures that are done in any order.
CollectOk(n) ==
  /\ returned[n] = "ok"
  /\ completed' = Append(completed, n)
  /\ returned' = [returned EXCEPT ![n] = "none"]
  /\ UNCHANGED <<at, status, placed, queued, running, failedNode, compensated, undo, interrupted, flag, runs>>

\* Mutation: the failed nodes of a wave are all kept.
CollectAllRaised(n) ==
  /\ returned[n] = "raised"
  /\ SetStatus({n}, "failed")
  /\ failedNode' = failedNode \cup {n}
  /\ returned' = [returned EXCEPT ![n] = "none"]
  /\ UNCHANGED <<at, placed, queued, running, completed, compensated, undo, interrupted, flag, runs>>

CollectRaised(n) ==
  /\ returned[n] = "raised"
  /\ SetStatus({n}, "failed")
  /\ failedNode' = {n}
  /\ returned' = [returned EXCEPT ![n] = "none"]
  /\ UNCHANGED <<at, placed, queued, running, completed, compensated, undo, interrupted, flag, runs>>

\* Mutation: the first failure ends the wave.
EndWaveAtFailure ==
  /\ at = "wave"
  /\ failedNode # {} \/ (queued = {} /\ running = {} /\ \A n \in Nodes : returned[n] = "none")
  /\ IF failedNode = {} THEN at' = "waves" /\ UNCHANGED undo
                        ELSE at' = "undo" /\ undo' = completed
  /\ UNCHANGED <<status, placed, queued, running, returned, result, interrupted, flag, runs>>

\* The with block is left when every future is done, and the loop when every
\* one is collected.
EndWave ==
  /\ at = "wave" /\ queued = {} /\ running = {}
  /\ \A n \in Nodes : returned[n] = "none"
  /\ IF failedNode = {} THEN at' = "waves" /\ UNCHANGED undo
                        ELSE at' = "undo" /\ undo' = completed
  /\ UNCHANGED <<status, placed, queued, running, returned, result, interrupted, flag, runs>>

-----------------------------------------------------------------------------
(* _compensate().                                                          *)

\* Mutation: in the order of completion.
CompensateInOrder(ok) ==
  LET n == Head(undo) IN
  /\ at = "undo" /\ undo # <<>>
  /\ undo' = Tail(undo)
  /\ IF n \in Compensable /\ ok
       THEN SetStatus({n}, "compensated") /\ compensated' = Append(compensated, n)
       ELSE UNCHANGED <<status, compensated>>
  /\ UNCHANGED <<at, placed, queued, running, returned, completed, failedNode, interrupted, flag, runs>>

\* The compensate_fn of the last completed node may raise, which is logged.
Compensate(ok) ==
  LET n == Last(undo) IN
  /\ at = "undo" /\ undo # <<>>
  /\ undo' = Front(undo)
  /\ IF n \in Compensable /\ ok
       THEN SetStatus({n}, "compensated") /\ compensated' = Append(compensated, n)
       ELSE UNCHANGED <<status, compensated>>
  /\ UNCHANGED <<at, placed, queued, running, returned, completed, failedNode, interrupted, flag, runs>>

Compensated ==
  /\ at = "undo" /\ undo = <<>>
  /\ at' = "over"
  /\ UNCHANGED <<status, placed, queued, running, returned, result, undo, interrupted, flag, runs>>

Init ==
  /\ at = "over"
  /\ status = [n \in Nodes |-> "pending"]
  /\ placed = {} /\ queued = {} /\ running = {}
  /\ returned = [n \in Nodes |-> "none"]
  /\ completed = <<>> /\ failedNode = {} /\ compensated = <<>>
  /\ undo = <<>>
  /\ interrupted = {} /\ flag = FALSE
  /\ runs = 0

\* Everything the calling thread and the pool's workers do in a run.
Progress ==
  \/ Return \/ StartWave \/ EndWave \/ Compensated
  \/ \E ok \in BOOLEAN : Compensate(ok)
  \/ \E n \in Nodes :
       \/ SkipNext(n) \/ AdmitNext(n) \/ Execute(n) \/ Succeed(n) \/ Raise(n)
       \/ WorkerStart(n) \/ CollectOk(n) \/ CollectRaised(n)
       \/ \E outcome \in {"ok", "raised"} : WorkerEnd(n, outcome)

Next == Begin \/ Progress \/ \E n \in Nodes : Interrupt(n)

Spec == Init /\ [][Next]_vars

\* The threads are scheduled and every execute_fn and compensate_fn returns.
FairSpec == Spec /\ WF_vars(Progress)
-----------------------------------------------------------------------------
(* Properties.                                                             *)

\* Every variable has its type.
SagaTypeOK ==
  /\ at \in Places
  /\ status \in [Nodes -> Status]
  /\ placed \subseteq Nodes /\ queued \subseteq Nodes /\ running \subseteq Nodes
  /\ returned \in [Nodes -> {"none", "ok", "raised"}]
  /\ completed \in Seq(Nodes) /\ undo \in Seq(Nodes) /\ compensated \in Seq(Nodes)
  /\ failedNode \in {{}} \cup {{n} : n \in Nodes}
  /\ interrupted \subseteq Nodes
  /\ flag \in BOOLEAN
  /\ runs \in 0..MaxRuns

\* A node executes only after every node it depends on has completed in this
\* run, although the statuses of earlier runs are still there, nodes are skipped
\* and interrupts arrive at any time.
RunsAfterDependencies ==
  \A n \in running \cup queued : DependsOn[n] \subseteq ToSet(completed)

\* Nothing executes, waits in the pool or is uncollected while a completed node
\* is being compensated or after the run has returned.
QuietRollback ==
  at \in {"undo", "over"} =>
    /\ running = {} /\ queued = {}
    /\ \A n \in Nodes : returned[n] = "none"

\* A node is compensated after every completed node that depends on it, whatever
\* order the futures of a wave were collected in; no node is compensated twice.
DependentsFirst ==
  \A i, j \in DOMAIN compensated :
    i < j => /\ compensated[i] # compensated[j]
             /\ compensated[i] \notin DependsOn[compensated[j]]

\* A run that has begun returns.
RunReturns == at # "over" ~> at = "over"

-----------------------------------------------------------------------------
(* The executor implements Saga.                                           *)

Effect(n) ==
  CASE n \notin ToSet(completed) -> "none"
    [] n \in ToSet(completed) \cap ToSet(compensated) -> "undone"
    [] n \in ToSet(completed) \ ToSet(compensated) ->
         IF failedNode # {} /\ at \in {"undo", "over"} /\ n \notin ToSet(undo)
           THEN "left" ELSE "done"

Direction ==
  CASE at = "over" -> "over" [] at = "undo" -> "backward" [] OTHER -> "forward"

Abstract == INSTANCE Saga WITH effect <- [n \in Nodes |-> Effect(n)], dir <- Direction

\* Sequential or in waves, interrupted or not, a run is a saga: effects in
\* dependency order, a rollback that visits each of them once, dependents first,
\* and that ends.
SagaKept == Abstract!Spec
=============================================================================
