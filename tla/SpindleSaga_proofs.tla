------------------------- MODULE SpindleSaga_proofs -------------------------
(***************************************************************************)
(* Proofs about SpindleSaga: types, dependencies before dependents, a      *)
(* quiet rollback in reverse order, the steps of the abstract saga, and    *)
(* why a run ends: work that each step uses up and that never gets stuck.  *)
(* All for every DAG, number of workers and number of runs.                *)
(***************************************************************************)
EXTENDS SpindleSaga, FiniteSetTheorems, TLAPS

-----------------------------------------------------------------------------
(* The inductive invariant.                                                *)

\* Nodes the pool or the caller has in hand.
Busy == queued \cup running \cup {n \in Nodes : returned[n] # "none"}

\* Dependencies before dependents, and no node twice.
Sorted(s) ==
  \A i, j \in DOMAIN s : i < j => s[i] # s[j] /\ s[j] \notin DependsOn[s[i]]

\* Which variables are in use where.
Control ==
  /\ at # "wave" => queued = {} /\ \A n \in Nodes : returned[n] = "none"
  /\ at \notin {"wave", "admitted", "executing"} => running = {}
  /\ at \notin {"undo", "over"} => compensated = <<>>

\* A node is in one place at a time, taken from the order only once, and has
\* all its dependencies completed.
Grounded ==
  /\ queued \cap running = {}
  /\ \A n \in queued \cup running : returned[n] = "none"
  /\ Busy \cup ToSet(completed) \subseteq placed
  /\ Busy \cap ToSet(completed) = {}
  /\ \A n \in Busy \cup ToSet(completed) : DependsOn[n] \subseteq ToSet(completed)

\* In a run, a placed node is marked completed only if this run completed it;
\* a status of an earlier run can only be on nodes still to be placed, or queued.
StatusCurrent ==
  at \notin {"undo", "over"} =>
    \A n \in placed :
      status[n] = "completed" => n \in ToSet(completed) \/ n \in queued \/ returned[n] = "ok"

\* The rollback: what is undone comes after, in the order, what is left to undo.
Reversed ==
  /\ Sorted(completed) /\ Sorted(undo)
  /\ \A c \in DOMAIN compensated, u \in DOMAIN undo :
       compensated[c] # undo[u] /\ compensated[c] \notin DependsOn[undo[u]]
  /\ DependentsFirst

\* When a run counts as failed, and what it has left to undo.
Rolling ==
  /\ at \notin {"wave", "undo", "over"} => failedNode = {}
  /\ at = "undo" => failedNode # {} /\ ToSet(undo) \subseteq ToSet(completed)

SInv == SagaTypeOK /\ Control /\ Grounded /\ StatusCurrent /\ Reversed /\ Rolling
-----------------------------------------------------------------------------
(* The sequences of completed and compensated nodes.                       *)

LEMMA ToSetAppend ==
  ASSUME NEW s \in Seq(Nodes), NEW n \in Nodes
  PROVE  Append(s, n) \in Seq(Nodes) /\ ToSet(Append(s, n)) = ToSet(s) \cup {n}
<1>1. /\ Append(s, n) \in Seq(Nodes)
      /\ DOMAIN Append(s, n) = 1..(Len(s) + 1) /\ DOMAIN s = 1..Len(s) /\ Len(s) \in Nat
      /\ \A i \in 1..Len(s) : Append(s, n)[i] = s[i]
      /\ Append(s, n)[Len(s) + 1] = n
  OBVIOUS
<1>2. ASSUME NEW x \in ToSet(s) \cup {n} PROVE x \in ToSet(Append(s, n))
  <2>1. CASE x = n
    BY <1>1, <2>1 DEF ToSet
  <2>2. CASE x \in ToSet(s)
    <3>1. PICK i \in 1..Len(s) : s[i] = x
      BY <1>1, <2>2 DEF ToSet
    <3>2. i \in 1..(Len(s) + 1) /\ Append(s, n)[i] = x
      BY <1>1, <3>1
    <3>3. QED
      BY <1>1, <3>2 DEF ToSet
  <2>3. QED
    BY <2>1, <2>2
<1>3. ASSUME NEW x \in ToSet(Append(s, n)) PROVE x \in ToSet(s) \cup {n}
  <2>1. PICK i \in 1..(Len(s) + 1) : Append(s, n)[i] = x
    BY <1>1 DEF ToSet
  <2>2. CASE i = Len(s) + 1
    BY <1>1, <2>1, <2>2
  <2>3. CASE i \in 1..Len(s)
    BY <1>1, <2>1, <2>3 DEF ToSet
  <2>4. QED
    BY <1>1, <2>2, <2>3
<1>4. QED
  BY <1>1, <1>2, <1>3

LEMMA ToSetType ==
  ASSUME NEW s \in Seq(Nodes)
  PROVE  ToSet(s) \subseteq Nodes /\ \A i \in DOMAIN s : s[i] \in ToSet(s) /\ s[i] \in Nodes
  BY DEF ToSet

LEMMA SortedAppend ==
  ASSUME NEW s \in Seq(Nodes), NEW n \in Nodes, Sorted(s), n \notin ToSet(s),
         \A x \in ToSet(s) : n \notin DependsOn[x]
  PROVE  Sorted(Append(s, n))
<1>1. /\ DOMAIN Append(s, n) = 1..(Len(s) + 1) /\ DOMAIN s = 1..Len(s) /\ Len(s) \in Nat
      /\ \A i \in 1..Len(s) : Append(s, n)[i] = s[i]
      /\ Append(s, n)[Len(s) + 1] = n
  OBVIOUS
<1>2. SUFFICES ASSUME NEW i \in 1..(Len(s) + 1), NEW j \in 1..(Len(s) + 1), i < j
               PROVE  /\ Append(s, n)[i] # Append(s, n)[j]
                      /\ Append(s, n)[j] \notin DependsOn[Append(s, n)[i]]
  BY <1>1 DEF Sorted
<1>3. i \in 1..Len(s) /\ Append(s, n)[i] = s[i] /\ s[i] \in ToSet(s)
  BY <1>1, <1>2, ToSetType
<1>4. CASE j = Len(s) + 1
  BY <1>1, <1>3, <1>4
<1>5. CASE j \in 1..Len(s)
  BY <1>1, <1>2, <1>3, <1>5 DEF Sorted
<1>6. QED
  BY <1>1, <1>4, <1>5

\* What _compensate takes from the end of a sorted sequence, and what it leaves.
LEMMA FrontLast ==
  ASSUME NEW s \in Seq(Nodes), s # <<>>, Sorted(s)
  PROVE  /\ Front(s) \in Seq(Nodes) /\ Sorted(Front(s)) /\ Last(s) \in Nodes
         /\ DOMAIN Front(s) = 1..(Len(s) - 1)
         /\ \E i \in DOMAIN s : s[i] = Last(s)
         /\ \A i \in DOMAIN Front(s) :
              /\ i \in DOMAIN s /\ Front(s)[i] = s[i]
              /\ s[i] # Last(s) /\ Last(s) \notin DependsOn[s[i]]
<1>1. Len(s) \in Nat \ {0} /\ DOMAIN s = 1..Len(s)
  OBVIOUS
<1>2. /\ Front(s) \in Seq(Nodes) /\ DOMAIN Front(s) = 1..(Len(s) - 1)
      /\ \A i \in 1..(Len(s) - 1) : Front(s)[i] = s[i]
  BY <1>1 DEF Front
<1>3. Last(s) = s[Len(s)] /\ s[Len(s)] \in Nodes
  BY <1>1 DEF Last
<1>4. \A i \in 1..(Len(s) - 1) : i \in 1..Len(s) /\ i < Len(s)
  BY <1>1
<1>5. \A i \in 1..(Len(s) - 1) : s[i] # Last(s) /\ Last(s) \notin DependsOn[s[i]]
  BY <1>1, <1>3, <1>4 DEF Sorted
<1>6. Sorted(Front(s))
  BY <1>1, <1>2, <1>4 DEF Sorted
<1>7. QED
  BY <1>1, <1>2, <1>3, <1>4, <1>5, <1>6
-----------------------------------------------------------------------------
(* The invariant is inductive.                                             *)

LEMMA EmptySequence == <<>> \in Seq(Nodes) /\ DOMAIN <<>> = {} /\ ToSet(<<>>) = {}
<1>1. <<>> \in Seq(Nodes) /\ DOMAIN <<>> = 1..0 /\ 1..0 = {}
  OBVIOUS
<1>2. QED
  BY <1>1 DEF ToSet

\* A node that run() or run_parallel() lets through has its dependencies done.
LEMMA ReadyDependencies ==
  ASSUME SInv, at \in {"order", "waves"}, NEW n \in Nodes, NextInOrder(n), Runnable(n)
  PROVE  DependsOn[n] \subseteq ToSet(completed)
<1>1. \A d \in DependsOn[n] : d \in Nodes /\ d \in placed /\ status[d] = "completed"
  BY DagAssumption DEF NextInOrder, Runnable, Satisfied
<1>2. QED
  BY <1>1 DEF SInv, StatusCurrent, Control

LEMMA SInvInit == Init => SInv
<1> SUFFICES ASSUME Init PROVE SInv
  OBVIOUS
<1>1. SagaTypeOK
  <2>1. completed \in Seq(Nodes) /\ undo \in Seq(Nodes) /\ compensated \in Seq(Nodes)
    BY EmptySequence DEF Init
  <2>2. runs \in 0..MaxRuns
    BY DagAssumption DEF Init
  <2>3. QED
    BY <2>1, <2>2 DEF Init, SagaTypeOK, Places, Status
<1>2. Control
  BY DEF Init, Control
<1>3. Grounded
  BY EmptySequence DEF Init, Grounded, Busy
<1>4. StatusCurrent
  BY DEF Init, StatusCurrent
<1>5. Reversed
  BY EmptySequence DEF Init, Reversed, Sorted, DependentsFirst
<1>6. Rolling
  BY DEF Init, Rolling
<1>7. QED
  BY <1>1, <1>2, <1>3, <1>4, <1>5, <1>6 DEF SInv

LEMMA SInvNext == SInv /\ [Next]_vars => SInv'
<1> SUFFICES ASSUME SInv, [Next]_vars PROVE SInv'
  OBVIOUS
<1> USE DEF SInv, result
<1>1. ASSUME Begin PROVE SInv'
  <2>1. SagaTypeOK'
    BY <1>1, EmptySequence, DagAssumption DEF Begin, SagaTypeOK, Places, Status
  <2>2. Control'
    BY <1>1 DEF Begin, Control, SagaTypeOK
  <2>3. Grounded'
    BY <1>1, EmptySequence DEF Begin, Grounded, Busy, Control, SagaTypeOK
  <2>4. StatusCurrent'
    BY <1>1 DEF Begin, StatusCurrent, Control, SagaTypeOK, Grounded, Busy
  <2>5. Reversed'
    BY <1>1 DEF Begin, Reversed, DependentsFirst, Control, SagaTypeOK, Sorted
  <2>6. Rolling'
    BY <1>1 DEF Begin, Rolling, Control
  <2>7. QED
    BY <2>1, <2>2, <2>3, <2>4, <2>5, <2>6
<1>2. ASSUME Return PROVE SInv'
  <2>1. SagaTypeOK'
    BY <1>2 DEF Return, SagaTypeOK, Places, Status
  <2>2. Control'
    BY <1>2 DEF Return, Control, SagaTypeOK
  <2>3. Grounded'
    BY <1>2 DEF Return, Grounded, Busy, Control, SagaTypeOK
  <2>4. StatusCurrent'
    BY <1>2 DEF Return, StatusCurrent, Control, SagaTypeOK, Grounded, Busy
  <2>5. Reversed'
    BY <1>2 DEF Return, Reversed, DependentsFirst, Control, SagaTypeOK, Sorted
  <2>6. Rolling'
    BY <1>2 DEF Return, Rolling, Control
  <2>7. QED
    BY <2>1, <2>2, <2>3, <2>4, <2>5, <2>6
<1>3. ASSUME StartWave PROVE SInv'
  <2> DEFINE go == {n \in Wave : Runnable(n)}
  <2>a. /\ at = "waves" /\ queued' = go /\ placed' = placed \cup Wave
        /\ running = {} /\ \A n \in Nodes : returned[n] = "none"
        /\ UNCHANGED <<running, returned, completed>>
    BY <1>3 DEF StartWave, Control
  <2>b. \A n \in go : n \in Nodes /\ n \notin placed /\ DependsOn[n] \subseteq ToSet(completed)
    BY <2>a, ReadyDependencies DEF Wave, NextInOrder
  <2>c. go \subseteq Wave
    OBVIOUS
  <2>1. SagaTypeOK'
    BY <1>3 DEF StartWave, SetStatus, Wave, NextInOrder, SagaTypeOK, Places, Status
  <2>2. Control'
    BY <1>3 DEF StartWave, SetStatus, Wave, NextInOrder, Control, SagaTypeOK
  <2>3. Grounded'
    <3> HIDE DEF go
    <3>1. Busy' = go
      BY <2>a DEF Busy
    <3>2. QED
      BY <2>a, <2>b, <2>c, <3>1 DEF Grounded, SagaTypeOK
  <2>4. StatusCurrent'
    BY <1>3 DEF StartWave, SetStatus, Wave, NextInOrder, StatusCurrent, Control, SagaTypeOK, Grounded, Busy
  <2>5. Reversed'
    BY <1>3 DEF StartWave, SetStatus, Wave, NextInOrder, Reversed, DependentsFirst, Control, SagaTypeOK, Sorted
  <2>6. Rolling'
    BY <1>3 DEF StartWave, SetStatus, Wave, NextInOrder, Rolling, Control
  <2>7. QED
    BY <2>1, <2>2, <2>3, <2>4, <2>5, <2>6
<1>4. ASSUME EndWave PROVE SInv'
  <2>1. SagaTypeOK'
    BY <1>4 DEF EndWave, SagaTypeOK, Places, Status
  <2>2. Control'
    BY <1>4 DEF EndWave, Control, SagaTypeOK
  <2>3. Grounded'
    BY <1>4 DEF EndWave, Grounded, Busy, Control, SagaTypeOK
  <2>4. StatusCurrent'
    BY <1>4 DEF EndWave, StatusCurrent, Control, SagaTypeOK, Grounded, Busy
  <2>5. Reversed'
    BY <1>4 DEF EndWave, Reversed, DependentsFirst, Control, SagaTypeOK, Sorted
  <2>6. Rolling'
    BY <1>4 DEF EndWave, Rolling, Control
  <2>7. QED
    BY <2>1, <2>2, <2>3, <2>4, <2>5, <2>6
<1>5. ASSUME Compensated PROVE SInv'
  <2>1. SagaTypeOK'
    BY <1>5 DEF Compensated, SagaTypeOK, Places, Status
  <2>2. Control'
    BY <1>5 DEF Compensated, Control, SagaTypeOK
  <2>3. Grounded'
    BY <1>5 DEF Compensated, Grounded, Busy, Control, SagaTypeOK
  <2>4. StatusCurrent'
    BY <1>5 DEF Compensated, StatusCurrent, Control, SagaTypeOK, Grounded, Busy
  <2>5. Reversed'
    BY <1>5 DEF Compensated, Reversed, DependentsFirst, Control, SagaTypeOK, Sorted
  <2>6. Rolling'
    BY <1>5 DEF Compensated, Rolling, Control
  <2>7. QED
    BY <2>1, <2>2, <2>3, <2>4, <2>5, <2>6
<1>6. ASSUME NEW ok \in BOOLEAN, Compensate(ok) PROVE SInv'
  <2> DEFINE x == Last(undo)
  <2>a. /\ Front(undo) \in Seq(Nodes) /\ Sorted(Front(undo)) /\ x \in Nodes
        /\ \E i \in DOMAIN undo : undo[i] = x
        /\ \A i \in DOMAIN Front(undo) :
             /\ i \in DOMAIN undo /\ Front(undo)[i] = undo[i]
             /\ undo[i] # x /\ x \notin DependsOn[undo[i]]
    BY <1>6, FrontLast DEF Compensate, Reversed, SagaTypeOK
  <2>b. undo' = Front(undo) /\ (compensated' = compensated \/ compensated' = Append(compensated, x))
    BY <1>6 DEF Compensate
  <2>1. SagaTypeOK'
    <3>1. status' \in [Nodes -> Status]
      BY <1>6, <2>a DEF Compensate, SetStatus, SagaTypeOK, Status
    <3> HIDE DEF x
    <3>2. undo' \in Seq(Nodes) /\ compensated' \in Seq(Nodes)
      <4>1. compensated \in Seq(Nodes)
        BY DEF SagaTypeOK
      <4>2. Append(compensated, x) \in Seq(Nodes)
        BY <2>a, <4>1
      <4>3. QED
        BY <2>a, <2>b, <4>1, <4>2
    <3>3. QED
      BY <1>6, <3>1, <3>2 DEF Compensate, SagaTypeOK
  <2>2. Control'
    BY <1>6 DEF Compensate, SetStatus, Control, SagaTypeOK
  <2>3. Grounded'
    BY <1>6 DEF Compensate, SetStatus, Grounded, Busy, Control, SagaTypeOK
  <2>4. StatusCurrent'
    BY <1>6 DEF Compensate, SetStatus, StatusCurrent, Control, SagaTypeOK, Grounded, Busy
  <2>5. Reversed'
    <3> HIDE DEF x
    <3>1. CASE compensated' = compensated
      BY <1>6, <2>a, <2>b, <3>1 DEF Compensate, Reversed, DependentsFirst
    <3>2. CASE compensated' = Append(compensated, x)
      <4>1. /\ DOMAIN compensated' = 1..(Len(compensated) + 1)
            /\ DOMAIN compensated = 1..Len(compensated) /\ Len(compensated) \in Nat
            /\ \A i \in DOMAIN compensated : compensated'[i] = compensated[i]
            /\ compensated'[Len(compensated) + 1] = x
        BY <2>a, <3>2 DEF SagaTypeOK
      <4>2. ASSUME NEW c \in DOMAIN compensated', NEW u \in DOMAIN undo'
            PROVE  compensated'[c] # undo'[u] /\ compensated'[c] \notin DependsOn[undo'[u]]
        BY <2>a, <2>b, <4>1 DEF Reversed
      <4>3. ASSUME NEW i \in DOMAIN compensated', NEW j \in DOMAIN compensated', i < j
            PROVE  /\ compensated'[i] # compensated'[j]
                   /\ compensated'[i] \notin DependsOn[compensated'[j]]
        <5>1. i \in DOMAIN compensated
          BY <4>1, <4>3
        <5>2. CASE j = Len(compensated) + 1
          BY <2>a, <4>1, <5>1, <5>2 DEF Reversed
        <5>3. CASE j \in DOMAIN compensated
          BY <4>1, <4>3, <5>1, <5>3 DEF Reversed, DependentsFirst
        <5>4. QED
          BY <4>1, <5>2, <5>3
      <4>4. QED
        BY <1>6, <2>a, <2>b, <4>2, <4>3 DEF Compensate, Reversed, DependentsFirst, Sorted
    <3>3. QED
      BY <2>b, <3>1, <3>2
  <2>6. Rolling'
    <3>1. \A y \in ToSet(undo') : y \in ToSet(undo)
      BY <2>a, <2>b DEF ToSet
    <3>2. QED
      BY <1>6, <3>1 DEF Compensate, Rolling
  <2>7. QED
    BY <2>1, <2>2, <2>3, <2>4, <2>5, <2>6
<1>7. ASSUME NEW n \in Nodes, SkipNext(n) PROVE SInv'
  <2>1. SagaTypeOK'
    BY <1>7 DEF SkipNext, SetStatus, NextInOrder, SagaTypeOK, Places, Status
  <2>2. Control'
    BY <1>7 DEF SkipNext, SetStatus, NextInOrder, Control, SagaTypeOK
  <2>3. Grounded'
    BY <1>7 DEF SkipNext, SetStatus, NextInOrder, Grounded, Busy, Control, SagaTypeOK
  <2>4. StatusCurrent'
    BY <1>7 DEF SkipNext, SetStatus, NextInOrder, StatusCurrent, Control, SagaTypeOK, Grounded, Busy
  <2>5. Reversed'
    BY <1>7 DEF SkipNext, SetStatus, NextInOrder, Reversed, DependentsFirst, Control, SagaTypeOK, Sorted
  <2>6. Rolling'
    BY <1>7 DEF SkipNext, SetStatus, NextInOrder, Rolling, Control
  <2>7. QED
    BY <2>1, <2>2, <2>3, <2>4, <2>5, <2>6
<1>8. ASSUME NEW n \in Nodes, AdmitNext(n) PROVE SInv'
  <2>a. DependsOn[n] \subseteq ToSet(completed)
    BY <1>8, ReadyDependencies DEF AdmitNext
  <2>1. SagaTypeOK'
    BY <1>8 DEF AdmitNext, SetStatus, NextInOrder, Runnable, Satisfied, SagaTypeOK, Places, Status
  <2>2. Control'
    BY <1>8 DEF AdmitNext, SetStatus, NextInOrder, Runnable, Satisfied, Control, SagaTypeOK
  <2>3. Grounded'
    BY <1>8, <2>a DEF AdmitNext, SetStatus, NextInOrder, Grounded, Busy, Control, SagaTypeOK
  <2>4. StatusCurrent'
    BY <1>8 DEF AdmitNext, SetStatus, NextInOrder, Runnable, Satisfied, StatusCurrent, Control, SagaTypeOK, Grounded, Busy
  <2>5. Reversed'
    BY <1>8 DEF AdmitNext, SetStatus, NextInOrder, Runnable, Satisfied, Reversed, DependentsFirst, Control, SagaTypeOK, Sorted
  <2>6. Rolling'
    BY <1>8 DEF AdmitNext, SetStatus, NextInOrder, Runnable, Satisfied, Rolling, Control
  <2>7. QED
    BY <2>1, <2>2, <2>3, <2>4, <2>5, <2>6
<1>9. ASSUME NEW n \in Nodes, Execute(n) PROVE SInv'
  <2>1. SagaTypeOK'
    BY <1>9 DEF Execute, SagaTypeOK, Places, Status
  <2>2. Control'
    BY <1>9 DEF Execute, Control, SagaTypeOK
  <2>3. Grounded'
    BY <1>9 DEF Execute, Grounded, Busy, Control, SagaTypeOK
  <2>4. StatusCurrent'
    BY <1>9 DEF Execute, StatusCurrent, Control, SagaTypeOK, Grounded, Busy
  <2>5. Reversed'
    BY <1>9 DEF Execute, Reversed, DependentsFirst, Control, SagaTypeOK, Sorted
  <2>6. Rolling'
    BY <1>9 DEF Execute, Rolling, Control
  <2>7. QED
    BY <2>1, <2>2, <2>3, <2>4, <2>5, <2>6
<1>10. ASSUME NEW n \in Nodes, Succeed(n) PROVE SInv'
  <2>a. ToSet(completed') = ToSet(completed) \cup {n} /\ completed' \in Seq(Nodes)
    BY <1>10, ToSetAppend DEF Succeed, SagaTypeOK
  <2>b. n \in placed /\ n \notin ToSet(completed) /\ DependsOn[n] \subseteq ToSet(completed)
    BY <1>10 DEF Succeed, Grounded, Busy
  <2>1. SagaTypeOK'
    BY <1>10 DEF Succeed, SetStatus, SagaTypeOK, Places, Status
  <2>2. Control'
    BY <1>10 DEF Succeed, SetStatus, Control, SagaTypeOK
  <2>3. Grounded'
    BY <1>10, <2>a, <2>b DEF Succeed, Grounded, Busy, Control, SagaTypeOK
  <2>4. StatusCurrent'
    BY <1>10, <2>a DEF Succeed, SetStatus, StatusCurrent, SagaTypeOK
  <2>5. Reversed'
    <3>1. \A x \in ToSet(completed) : n \notin DependsOn[x]
      BY <2>b DEF Grounded
    <3>2. Sorted(completed')
      BY <1>10, <2>b, <3>1, SortedAppend DEF Succeed, Reversed, SagaTypeOK
    <3>3. QED
      BY <1>10, <3>2 DEF Succeed, Reversed, DependentsFirst, Sorted
  <2>6. Rolling'
    BY <1>10 DEF Succeed, SetStatus, Rolling, Control
  <2>7. QED
    BY <2>1, <2>2, <2>3, <2>4, <2>5, <2>6
<1>11. ASSUME NEW n \in Nodes, Raise(n) PROVE SInv'
  <2>1. SagaTypeOK'
    BY <1>11 DEF Raise, SetStatus, SagaTypeOK, Places, Status
  <2>2. Control'
    BY <1>11 DEF Raise, SetStatus, Control, SagaTypeOK
  <2>3. Grounded'
    BY <1>11 DEF Raise, SetStatus, Grounded, Busy, Control, SagaTypeOK
  <2>4. StatusCurrent'
    BY <1>11 DEF Raise, SetStatus, StatusCurrent, Control, SagaTypeOK, Grounded, Busy
  <2>5. Reversed'
    BY <1>11 DEF Raise, SetStatus, Reversed, DependentsFirst, Control, SagaTypeOK, Sorted
  <2>6. Rolling'
    BY <1>11 DEF Raise, SetStatus, Rolling, Control
  <2>7. QED
    BY <2>1, <2>2, <2>3, <2>4, <2>5, <2>6
<1>12. ASSUME NEW n \in Nodes, WorkerStart(n) PROVE SInv'
  <2>1. SagaTypeOK'
    BY <1>12 DEF WorkerStart, SetStatus, SagaTypeOK, Places, Status
  <2>2. Control'
    BY <1>12 DEF WorkerStart, SetStatus, Control, SagaTypeOK
  <2>3. Grounded'
    BY <1>12 DEF WorkerStart, SetStatus, Grounded, Busy, Control, SagaTypeOK
  <2>4. StatusCurrent'
    BY <1>12 DEF WorkerStart, SetStatus, StatusCurrent, Control, SagaTypeOK, Grounded, Busy
  <2>5. Reversed'
    BY <1>12 DEF WorkerStart, SetStatus, Reversed, DependentsFirst, Control, SagaTypeOK, Sorted
  <2>6. Rolling'
    BY <1>12 DEF WorkerStart, SetStatus, Rolling, Control
  <2>7. QED
    BY <2>1, <2>2, <2>3, <2>4, <2>5, <2>6
<1>13. ASSUME NEW n \in Nodes, CollectOk(n) PROVE SInv'
  <2>a. ToSet(completed') = ToSet(completed) \cup {n} /\ completed' \in Seq(Nodes)
    BY <1>13, ToSetAppend DEF CollectOk, SagaTypeOK
  <2>b. /\ n \in placed /\ n \notin ToSet(completed) /\ DependsOn[n] \subseteq ToSet(completed)
        /\ n \notin queued /\ n \notin running
    BY <1>13 DEF CollectOk, Grounded, Busy
  <2>1. SagaTypeOK'
    BY <1>13 DEF CollectOk, SagaTypeOK, Places, Status
  <2>2. Control'
    BY <1>13 DEF CollectOk, Control, SagaTypeOK
  <2>3. Grounded'
    BY <1>13, <2>a, <2>b DEF CollectOk, Grounded, Busy, Control, SagaTypeOK
  <2>4. StatusCurrent'
    BY <1>13, <2>a DEF CollectOk, StatusCurrent, SagaTypeOK
  <2>5. Reversed'
    <3>1. \A x \in ToSet(completed) : n \notin DependsOn[x]
      BY <2>b DEF Grounded
    <3>2. Sorted(completed')
      BY <1>13, <2>b, <3>1, SortedAppend DEF CollectOk, Reversed, SagaTypeOK
    <3>3. QED
      BY <1>13, <3>2 DEF CollectOk, Reversed, DependentsFirst, Sorted
  <2>6. Rolling'
    BY <1>13 DEF CollectOk, Rolling, Control
  <2>7. QED
    BY <2>1, <2>2, <2>3, <2>4, <2>5, <2>6
<1>14. ASSUME NEW n \in Nodes, CollectRaised(n) PROVE SInv'
  <2>1. SagaTypeOK'
    BY <1>14 DEF CollectRaised, SetStatus, SagaTypeOK, Places, Status
  <2>2. Control'
    BY <1>14 DEF CollectRaised, SetStatus, Control, SagaTypeOK
  <2>3. Grounded'
    BY <1>14 DEF CollectRaised, SetStatus, Grounded, Busy, Control, SagaTypeOK
  <2>4. StatusCurrent'
    BY <1>14 DEF CollectRaised, SetStatus, StatusCurrent, Control, SagaTypeOK, Grounded, Busy
  <2>5. Reversed'
    BY <1>14 DEF CollectRaised, SetStatus, Reversed, DependentsFirst, Control, SagaTypeOK, Sorted
  <2>6. Rolling'
    BY <1>14 DEF CollectRaised, SetStatus, Rolling, Control
  <2>7. QED
    BY <2>1, <2>2, <2>3, <2>4, <2>5, <2>6
<1>15. ASSUME NEW n \in Nodes, NEW outcome \in {"ok", "raised"}, WorkerEnd(n, outcome) PROVE SInv'
  <2>1. SagaTypeOK'
    BY <1>15 DEF WorkerEnd, SetStatus, SagaTypeOK, Places, Status
  <2>2. Control'
    BY <1>15 DEF WorkerEnd, SetStatus, Control, SagaTypeOK
  <2>3. Grounded'
    BY <1>15 DEF WorkerEnd, SetStatus, Grounded, Busy, Control, SagaTypeOK
  <2>4. StatusCurrent'
    BY <1>15 DEF WorkerEnd, SetStatus, StatusCurrent, Control, SagaTypeOK, Grounded, Busy
  <2>5. Reversed'
    BY <1>15 DEF WorkerEnd, SetStatus, Reversed, DependentsFirst, Control, SagaTypeOK, Sorted
  <2>6. Rolling'
    BY <1>15 DEF WorkerEnd, SetStatus, Rolling, Control
  <2>7. QED
    BY <2>1, <2>2, <2>3, <2>4, <2>5, <2>6
<1>16. ASSUME NEW n \in Nodes, Interrupt(n) PROVE SInv'
  <2>1. SagaTypeOK'
    BY <1>16 DEF Interrupt, SagaTypeOK, Places, Status
  <2>2. Control'
    BY <1>16 DEF Interrupt, Control, SagaTypeOK
  <2>3. Grounded'
    BY <1>16 DEF Interrupt, Grounded, Busy, Control, SagaTypeOK
  <2>4. StatusCurrent'
    BY <1>16 DEF Interrupt, StatusCurrent, Control, SagaTypeOK, Grounded, Busy
  <2>5. Reversed'
    BY <1>16 DEF Interrupt, Reversed, DependentsFirst, Control, SagaTypeOK, Sorted
  <2>6. Rolling'
    BY <1>16 DEF Interrupt, Rolling, Control
  <2>7. QED
    BY <2>1, <2>2, <2>3, <2>4, <2>5, <2>6
<1>17. CASE UNCHANGED vars
  BY <1>17 DEF vars, SagaTypeOK, Control, Grounded, Busy, StatusCurrent, Reversed, DependentsFirst, Rolling
<1>18. QED
  BY <1>1, <1>2, <1>3, <1>4, <1>5, <1>6, <1>7, <1>8, <1>9, <1>10, <1>11, <1>12, <1>13, <1>14, <1>15, <1>16, <1>17 DEF Next, Progress
-----------------------------------------------------------------------------
(* Theorems.                                                               *)

LEMMA SagaInvariance == Spec => []SInv
<1>1. QED
  BY SInvInit, SInvNext, PTL DEF Spec

\* The executor's variables keep their types, for any DAG, pool and number of
\* runs.
THEOREM SagaTypeCorrect == Spec => []SagaTypeOK
<1>1. SInv => SagaTypeOK
  BY DEF SInv
<1>2. QED
  BY <1>1, SagaInvariance, PTL

\* No node is queued or executed before all its dependencies have completed in
\* this run, whatever statuses earlier runs and interrupts have left.
THEOREM DependenciesFirst == Spec => []RunsAfterDependencies
<1>1. SInv => RunsAfterDependencies
  BY DEF SInv, Grounded, Busy, RunsAfterDependencies
<1>2. QED
  BY <1>1, SagaInvariance, PTL

\* Nothing runs, waits or is uncollected once the rollback has begun or the run
\* has returned.
THEOREM RollbackIsQuiet == Spec => []QuietRollback
<1>1. SInv => QuietRollback
  BY DEF SInv, Control, QuietRollback
<1>2. QED
  BY <1>1, SagaInvariance, PTL

\* Dependents are compensated before what they depend on, and no node twice.
THEOREM RollbackReversed == Spec => []DependentsFirst
<1>1. SInv => DependentsFirst
  BY DEF SInv, Reversed
<1>2. QED
  BY <1>1, SagaInvariance, PTL

-----------------------------------------------------------------------------
(* Every step of the executor is a step of the abstract saga or a stutter. *)

\* The effect of a node, case by case.
EffectIs(n) ==
  /\ n \notin ToSet(completed) => Effect(n) = "none"
  /\ n \in ToSet(completed) /\ n \in ToSet(compensated) => Effect(n) = "undone"
  /\ n \in ToSet(completed) /\ n \notin ToSet(compensated) =>
       Effect(n) = IF failedNode # {} /\ at \in {"undo", "over"} /\ n \notin ToSet(undo)
                     THEN "left" ELSE "done"

LEMMA EffectCases == \A n \in Nodes : EffectIs(n)
<1>0. SUFFICES ASSUME NEW n \in Nodes PROVE EffectIs(n)
  OBVIOUS
<1>1. CASE n \notin ToSet(completed)
  BY <1>1 DEF Effect, EffectIs
<1>2. CASE n \in ToSet(completed) /\ n \in ToSet(compensated)
  BY <1>2 DEF Effect, EffectIs
<1>3. CASE n \in ToSet(completed) /\ n \notin ToSet(compensated)
  BY <1>3 DEF Effect, EffectIs
<1>4. QED
  BY <1>1, <1>2, <1>3

\* In a run, before any rollback, a node has an effect when it is completed.
ForwardEffects ==
  at \notin {"undo", "over"} =>
    \A n \in Nodes : Effect(n) = IF n \in ToSet(completed) THEN "done" ELSE "none"

LEMMA EffectForward == SInv => ForwardEffects
<1> SUFFICES ASSUME SInv, at \notin {"undo", "over"}, NEW n \in Nodes
             PROVE  Effect(n) = IF n \in ToSet(completed) THEN "done" ELSE "none"
  BY DEF ForwardEffects
<1>1. ToSet(compensated) = {}
  BY EmptySequence DEF SInv, Control
<1>2. QED
  BY <1>1, EffectCases DEF EffectIs

LEMMA SagaStart == SInv /\ Init => Abstract!Init
<1> SUFFICES ASSUME SInv, Init PROVE Abstract!Init
  OBVIOUS
<1>1. at = "over" /\ ToSet(completed) = {}
  BY EmptySequence DEF Init
<1>2. \A n \in Nodes : Effect(n) = "none"
  BY <1>1, EffectCases DEF EffectIs
<1>3. QED
  BY <1>1, <1>2 DEF Abstract!Init, Direction

\* A step that leaves every effect and the direction alone.
Unseen == Direction' = Direction /\ \A n \in Nodes : Effect(n)' = Effect(n)

LEMMA UnseenStutters == Unseen => UNCHANGED Abstract!vars
  BY DEF Unseen, Abstract!vars

\* The completion of n, by run() or by the collection of its future.
LEMMA CompletionDoes ==
  ASSUME SInv, SInv', NEW n \in Nodes, at \in {"executing", "wave"}, at' \notin {"undo", "over"},
         n \notin ToSet(completed), ToSet(completed') = ToSet(completed) \cup {n},
         DependsOn[n] \subseteq ToSet(completed)
  PROVE  Abstract!Do(n)
<1>1. \A m \in Nodes : Effect(m) = IF m \in ToSet(completed) THEN "done" ELSE "none"
  BY EffectForward DEF ForwardEffects
<1>p. SInv' => ForwardEffects'
  BY EffectForward, PTL
<1>2. \A m \in Nodes : Effect(m)' = IF m \in ToSet(completed') THEN "done" ELSE "none"
  BY <1>p DEF ForwardEffects
<1>3. Direction = "forward" /\ Direction' = "forward"
  BY DEF Direction, SInv, SagaTypeOK, Places
<1>4. DependsOn[n] \subseteq Nodes
  BY DagAssumption
<1>5. QED
  BY <1>1, <1>2, <1>3, <1>4 DEF Abstract!Do

LEMMA EffectCasesNext == \A n \in Nodes : EffectIs(n)'
<1>1. (\A n \in Nodes : EffectIs(n))'
  BY EffectCases, PTL
<1>2. QED
  BY <1>1

\* _compensate visits the last node that is left to undo.
LEMMA CompensationUndoes ==
  ASSUME SInv, NEW ok \in BOOLEAN, Compensate(ok), NEW x \in Nodes, x = Last(undo)
  PROVE  Abstract!Undo(x)
<1>1. /\ Front(undo) \in Seq(Nodes)
      /\ DOMAIN undo = 1..Len(undo) /\ DOMAIN Front(undo) = 1..(Len(undo) - 1) /\ Len(undo) \in Nat
      /\ undo[Len(undo)] = x
      /\ \E i \in DOMAIN undo : undo[i] = x
      /\ \A i \in DOMAIN Front(undo) :
           /\ i \in DOMAIN undo /\ Front(undo)[i] = undo[i]
           /\ undo[i] # x /\ x \notin DependsOn[undo[i]]
  BY FrontLast DEF Compensate, SInv, Reversed, SagaTypeOK, Last
<1>2. /\ at = "undo" /\ at' = "undo" /\ undo' = Front(undo)
      /\ failedNode # {} /\ failedNode' = failedNode /\ completed' = completed
      /\ compensated' = compensated \/ compensated' = Append(compensated, x)
  BY DEF Compensate, SInv, Rolling
<1>3. x \in ToSet(undo) /\ x \in ToSet(completed) /\ x \notin ToSet(compensated) /\ x \notin ToSet(undo')
  <2>1. x \in ToSet(undo)
    BY <1>1 DEF ToSet
  <2>2. x \in ToSet(completed)
    BY <2>1, <1>2 DEF SInv, Rolling
  <2>3. x \notin ToSet(compensated)
    BY <1>1 DEF SInv, Reversed, ToSet
  <2>4. x \notin ToSet(undo')
    BY <1>1, <1>2 DEF ToSet
  <2>5. QED
    BY <2>1, <2>2, <2>3, <2>4
<1>4. x \notin DependsOn[x]
  <2>1. {x} \in (SUBSET Nodes) \ {{}}
    BY <1>1
  <2>2. QED
    BY <2>1, DagAssumption
<1>5. ASSUME NEW m \in Nodes, m # x
      PROVE  /\ m \in ToSet(undo') <=> m \in ToSet(undo)
             /\ m \in ToSet(compensated') <=> m \in ToSet(compensated)
             /\ m \in ToSet(undo) => x \notin DependsOn[m]
  <2>1. m \in ToSet(undo') => m \in ToSet(undo)
    BY <1>1, <1>2 DEF ToSet
  <2>2. ASSUME m \in ToSet(undo) PROVE m \in ToSet(undo') /\ x \notin DependsOn[m]
    <3>1. PICK i \in DOMAIN undo : undo[i] = m
      BY <2>2 DEF ToSet
    <3>2. i \in DOMAIN Front(undo)
      BY <1>1, <1>5, <3>1
    <3>3. QED
      BY <1>1, <1>2, <3>1, <3>2 DEF ToSet
  <2>3. m \in ToSet(compensated') <=> m \in ToSet(compensated)
    <3>1. compensated \in Seq(Nodes)
      BY DEF SInv, SagaTypeOK
    <3>2. ToSet(Append(compensated, x)) = ToSet(compensated) \cup {x}
      BY <1>1, <3>1, ToSetAppend
    <3>3. QED
      BY <1>2, <1>5, <3>2
  <2>4. QED
    BY <2>1, <2>2, <2>3
<1>6. Effect(x) = "done" /\ Effect(x)' \in {"undone", "left"}
  BY <1>1, <1>2, <1>3, EffectCases, EffectCasesNext DEF EffectIs
<1>7. ASSUME NEW m \in Nodes, m # x PROVE Effect(m)' = Effect(m)
  BY <1>2, <1>5, <1>7, EffectCases, EffectCasesNext DEF EffectIs
<1>8. ASSUME NEW m \in Nodes, x \in DependsOn[m] PROVE Effect(m) # "done"
  BY <1>2, <1>4, <1>5, <1>8, EffectCases DEF EffectIs
<1>9. Direction = "backward" /\ Direction' = "backward"
  BY <1>2 DEF Direction
<1>10. QED
  BY <1>6, <1>7, <1>8, <1>9 DEF Abstract!Undo

LEMMA SagaStep == SInv /\ SInv' /\ [Next]_vars => [Abstract!Next]_(Abstract!vars)
<1> SUFFICES ASSUME SInv, SInv', [Next]_vars PROVE [Abstract!Next]_(Abstract!vars)
  OBVIOUS
<1> USE DEF result
<1>a. \A n \in Nodes : EffectIs(n) /\ EffectIs(n)'
  BY EffectCases, EffectCasesNext
<1>1. CASE Begin
  <2>1. ToSet(completed') = {} /\ Direction = "over" /\ Direction' = "forward"
    BY <1>1, EmptySequence DEF Begin, Direction
  <2>2. \A n \in Nodes : Effect(n)' = "none"
    BY <1>a, <2>1 DEF EffectIs
  <2>3. Abstract!Start
    BY <2>1, <2>2 DEF Abstract!Start
  <2>4. QED
    BY <2>3 DEF Abstract!Next
<1>2. CASE Return
  <2>1. failedNode = {} /\ UNCHANGED <<completed, compensated, failedNode>>
    BY <1>2 DEF Return, SInv, Rolling
  <2>2. \A n \in Nodes : Effect(n)' = Effect(n)
    BY <1>a, <2>1 DEF EffectIs
  <2>3. Direction = "forward" /\ Direction' = "over"
    BY <1>2 DEF Return, Direction
  <2>4. Abstract!Commit
    BY <2>2, <2>3 DEF Abstract!Commit
  <2>5. QED
    BY <2>4 DEF Abstract!Next
<1>3. ASSUME StartWave \/ \E n \in Nodes : SkipNext(n) \/ AdmitNext(n) \/ Execute(n) \/ WorkerStart(n)
                          \/ CollectRaised(n) \/ \E outcome \in {"ok", "raised"} : WorkerEnd(n, outcome)
      PROVE  [Abstract!Next]_(Abstract!vars)
  <2>1. at \notin {"undo", "over"} /\ at' \notin {"undo", "over"} /\ UNCHANGED <<completed, compensated>>
    BY <1>3 DEF StartWave, SkipNext, AdmitNext, Execute, WorkerStart, CollectRaised, WorkerEnd, SInv, Control
  <2>2. Unseen
    BY <1>a, <2>1 DEF EffectIs, Unseen, Direction
  <2>3. QED
    BY <2>2, UnseenStutters
<1>4. CASE EndWave /\ failedNode = {}
  <2>1. at = "wave" /\ at' = "waves" /\ UNCHANGED <<completed, compensated>>
    BY <1>4 DEF EndWave
  <2>2. Unseen
    BY <1>a, <2>1 DEF EffectIs, Unseen, Direction
  <2>3. QED
    BY <2>2, UnseenStutters
<1>5. ASSUME (EndWave /\ failedNode # {}) \/ \E n \in Nodes : Raise(n)
      PROVE  [Abstract!Next]_(Abstract!vars)
  <2>1. /\ at \notin {"undo", "over"} /\ at' = "undo"
        /\ UNCHANGED <<completed, compensated>> /\ undo' = completed
    BY <1>5 DEF EndWave, Raise
  <2>2. \A n \in Nodes : Effect(n)' = Effect(n)
    BY <1>a, <2>1 DEF EffectIs
  <2>3. Direction = "forward" /\ Direction' = "backward"
    BY <2>1 DEF Direction, SInv, SagaTypeOK, Places
  <2>4. Abstract!Abort
    BY <2>2, <2>3 DEF Abstract!Abort
  <2>5. QED
    BY <2>4 DEF Abstract!Next
<1>6. ASSUME NEW n \in Nodes, Succeed(n) PROVE [Abstract!Next]_(Abstract!vars)
  <2>1. /\ at = "executing" /\ at' = "order" /\ n \notin ToSet(completed)
        /\ DependsOn[n] \subseteq ToSet(completed) /\ ToSet(completed') = ToSet(completed) \cup {n}
    BY <1>6, ToSetAppend DEF Succeed, SInv, Grounded, Busy, SagaTypeOK
  <2>2. Abstract!Do(n)
    BY <2>1, CompletionDoes
  <2>3. QED
    BY <2>2 DEF Abstract!Next
<1>7. ASSUME NEW n \in Nodes, CollectOk(n) PROVE [Abstract!Next]_(Abstract!vars)
  <2>1. /\ at = "wave" /\ at' = "wave" /\ n \notin ToSet(completed)
        /\ DependsOn[n] \subseteq ToSet(completed) /\ ToSet(completed') = ToSet(completed) \cup {n}
    BY <1>7, ToSetAppend DEF CollectOk, SInv, Grounded, Busy, SagaTypeOK, Control
  <2>2. Abstract!Do(n)
    BY <2>1, CompletionDoes
  <2>3. QED
    BY <2>2 DEF Abstract!Next
<1>8. ASSUME NEW ok \in BOOLEAN, Compensate(ok) PROVE [Abstract!Next]_(Abstract!vars)
  <2>1. Last(undo) \in Nodes
    BY <1>8, FrontLast DEF Compensate, SInv, Reversed, SagaTypeOK
  <2>2. PICK x \in Nodes : x = Last(undo)
    BY <2>1
  <2>3. Abstract!Undo(x)
    BY <1>8, <2>2, CompensationUndoes
  <2>4. QED
    BY <2>3 DEF Abstract!Next, Abstract!Backward
<1>9. CASE Compensated
  <2>1. /\ at = "undo" /\ at' = "over" /\ ToSet(undo) = {} /\ failedNode # {}
        /\ UNCHANGED <<completed, compensated, failedNode, undo>>
    BY <1>9, EmptySequence DEF Compensated, SInv, Rolling
  <2>2. \A n \in Nodes : Effect(n)' = Effect(n) /\ Effect(n) # "done"
    BY <1>a, <2>1 DEF EffectIs
  <2>3. Abstract!Undone
    BY <2>1, <2>2 DEF Abstract!Undone, Direction
  <2>4. QED
    BY <2>3 DEF Abstract!Next, Abstract!Backward
<1>10. ASSUME NEW n \in Nodes, Interrupt(n) PROVE [Abstract!Next]_(Abstract!vars)
  <2>1. UNCHANGED <<at, completed, compensated, failedNode, undo>>
    BY <1>10 DEF Interrupt
  <2>2. Unseen
    BY <1>a, <2>1 DEF EffectIs, Unseen, Direction
  <2>3. QED
    BY <2>2, UnseenStutters
<1>11. CASE UNCHANGED vars
  <2>1. UNCHANGED <<at, completed, compensated, failedNode, undo>>
    BY <1>11 DEF vars
  <2>2. Unseen
    BY <1>a, <2>1 DEF EffectIs, Unseen, Direction
  <2>3. QED
    BY <2>2, UnseenStutters
<1>12. QED
  BY <1>1, <1>2, <1>3, <1>4, <1>5, <1>6, <1>7, <1>8, <1>9, <1>10, <1>11 DEF Next, Progress

\* Every run, in order or in waves, begins and proceeds as the abstract saga
\* does: the safety part of SagaKept, which the run saga checks with fairness.
THEOREM SagaStepsKept == Spec => Abstract!Init /\ [][Abstract!Next]_(Abstract!vars)
<1>1. Init => SInv /\ Abstract!Init
  BY SInvInit, SagaStart
<1>2. QED
  BY <1>1, SagaInvariance, SagaStep, PTL DEF Spec

-----------------------------------------------------------------------------
(* How long a run takes: what is left to do shrinks with every step of the  *)
(* executor, and until the run is over there is a step to take.             *)

Returned == {n \in Nodes : returned[n] # "none"}

ToUndo == CASE at = "over" -> 0 [] at = "undo" -> Len(undo) [] OTHER -> Len(completed)

PlaceWeight(place) ==
  CASE place = "over"     -> 0
    [] place = "undo"     -> 1
    [] place = "admitted" -> 4
    [] place \in {"wave", "executing"} -> 3
    [] OTHER -> 2

\* A node may still have to be taken, queued, run, collected and compensated.
WorkLeft ==
  6 * Cardinality(Nodes \ placed) + 4 * Cardinality(queued) + 3 * Cardinality(running)
    + 2 * Cardinality(Returned) + ToUndo + PlaceWeight(at)

LEMMA SubsetCardinality ==
  ASSUME NEW S \in SUBSET Nodes
  PROVE  /\ Cardinality(S) \in Nat
         /\ \A n : Cardinality(S \ {n}) = IF n \in S THEN Cardinality(S) - 1 ELSE Cardinality(S)
         /\ \A n : Cardinality(S \cup {n}) = IF n \in S THEN Cardinality(S) ELSE Cardinality(S) + 1
<1>1. IsFiniteSet(S)
  BY DagAssumption, FS_Subset
<1>2. QED
  BY <1>1, FS_CardinalityType, FS_RemoveElement, FS_AddElement

LEMMA EmptyCardinality == Cardinality({}) = 0
  BY FS_EmptySet

LEMMA WorkParts ==
  ASSUME SagaTypeOK
  PROVE  /\ Cardinality(Nodes \ placed) \in Nat /\ Cardinality(queued) \in Nat
         /\ Cardinality(running) \in Nat /\ Cardinality(Returned) \in Nat
         /\ ToUndo \in Nat /\ PlaceWeight(at) \in 0..4
         /\ WorkLeft \in Nat
<1>1. /\ Cardinality(Nodes \ placed) \in Nat /\ Cardinality(queued) \in Nat
      /\ Cardinality(running) \in Nat /\ Cardinality(Returned) \in Nat
  BY SubsetCardinality DEF SagaTypeOK, Returned
<1>2. ToUndo \in Nat
  BY DEF SagaTypeOK, ToUndo
<1>3. PlaceWeight(at) \in 0..4
  BY DEF PlaceWeight
<1>4. QED
  BY <1>1, <1>2, <1>3 DEF WorkLeft

\* A wave is never empty: among the nodes left there is one that depends on none
\* of the others.
LEMMA WaveNotEmpty ==
  ASSUME placed \subseteq Nodes, placed # Nodes
  PROVE  \E n \in Nodes : NextInOrder(n)
<1>1. Nodes \ placed \in (SUBSET Nodes) \ {{}}
  OBVIOUS
<1>2. PICK n \in Nodes \ placed : DependsOn[n] \cap (Nodes \ placed) = {}
  BY <1>1, DagAssumption
<1>3. DependsOn[n] \subseteq placed
  BY <1>2, DagAssumption
<1>4. QED
  BY <1>2, <1>3 DEF NextInOrder

\* Each step of the executor's threads leaves less to do.
LEMMA ProgressShrinks ==
  ASSUME SInv, SInv', Progress
  PROVE  WorkLeft' < WorkLeft
<1> DEFINE U == Cardinality(Nodes \ placed)
           Q == Cardinality(queued)
           R == Cardinality(running)
           D == Cardinality(Returned)
           L == ToUndo
           W == PlaceWeight(at)
<1>0. SagaTypeOK /\ SagaTypeOK' /\ Control
  BY DEF SInv
<1>a. U \in Nat /\ Q \in Nat /\ R \in Nat /\ D \in Nat /\ L \in Nat /\ W \in 0..4
  BY <1>0, WorkParts
<1>b. U' \in Nat /\ Q' \in Nat /\ R' \in Nat /\ D' \in Nat /\ L' \in Nat /\ W' \in 0..4
  <2>1. (SagaTypeOK => U \in Nat /\ Q \in Nat /\ R \in Nat /\ D \in Nat /\ L \in Nat /\ W \in 0..4)'
    BY WorkParts, PTL
  <2>2. QED
    BY <1>0, <2>1
<1>c. /\ WorkLeft = 6 * U + 4 * Q + 3 * R + 2 * D + L + W
      /\ WorkLeft' = 6 * U' + 4 * Q' + 3 * R' + 2 * D' + L' + W'
  BY DEF WorkLeft
<1>d. \A n \in Nodes :
        /\ n \notin placed => Cardinality(Nodes \ (placed \cup {n})) = U - 1
        /\ n \in queued => Cardinality(queued \ {n}) = Q - 1
        /\ n \in running => Cardinality(running \ {n}) = R - 1
        /\ n \notin running => Cardinality(running \cup {n}) = R + 1
        /\ n \in Returned => Cardinality(Returned \ {n}) = D - 1
        /\ n \notin Returned => Cardinality(Returned \cup {n}) = D + 1
        /\ Cardinality({n}) = 1
  <2>1. SUFFICES ASSUME NEW n \in Nodes
        PROVE  /\ n \notin placed => Cardinality(Nodes \ (placed \cup {n})) = U - 1
               /\ n \in queued => Cardinality(queued \ {n}) = Q - 1
               /\ n \in running => Cardinality(running \ {n}) = R - 1
               /\ n \notin running => Cardinality(running \cup {n}) = R + 1
               /\ n \in Returned => Cardinality(Returned \ {n}) = D - 1
               /\ n \notin Returned => Cardinality(Returned \cup {n}) = D + 1
               /\ Cardinality({n}) = 1
    OBVIOUS
  <2>2. /\ Nodes \ placed \in SUBSET Nodes /\ queued \in SUBSET Nodes
        /\ running \in SUBSET Nodes /\ Returned \in SUBSET Nodes
    BY <1>0 DEF SagaTypeOK, Returned
  <2>3. Nodes \ (placed \cup {n}) = (Nodes \ placed) \ {n}
    OBVIOUS
  <2>4. n \notin placed => Cardinality((Nodes \ placed) \ {n}) = U - 1
    BY <2>2, SubsetCardinality
  <2>5. n \in queued => Cardinality(queued \ {n}) = Q - 1
    BY <2>2, SubsetCardinality
  <2>6. /\ n \in running => Cardinality(running \ {n}) = R - 1
        /\ n \notin running => Cardinality(running \cup {n}) = R + 1
    BY <2>2, SubsetCardinality
  <2>7. /\ n \in Returned => Cardinality(Returned \ {n}) = D - 1
        /\ n \notin Returned => Cardinality(Returned \cup {n}) = D + 1
    BY <2>2, SubsetCardinality
  <2>8. QED
    BY <2>3, <2>4, <2>5, <2>6, <2>7, FS_Singleton
<1> HIDE DEF U, Q, R, D, L, W
\* The same numbers as constants, before and after the step.
<1>e. PICK u \in Nat, q \in Nat, r \in Nat, d \in Nat, l \in Nat, w \in 0..4,
           u1 \in Nat, q1 \in Nat, r1 \in Nat, d1 \in Nat, l1 \in Nat, w1 \in 0..4 :
        /\ u = U /\ q = Q /\ r = R /\ d = D /\ l = L /\ w = W
        /\ u1 = U' /\ q1 = Q' /\ r1 = R' /\ d1 = D' /\ l1 = L' /\ w1 = W'
  BY <1>a, <1>b
<1>f. SUFFICES 6 * u1 + 4 * q1 + 3 * r1 + 2 * d1 + l1 + w1 < 6 * u + 4 * q + 3 * r + 2 * d + l + w
  BY <1>c, <1>e
<1>1. CASE Return
  <2>1. U' = U /\ Q' = Q /\ R' = R /\ D' = D
    BY <1>1 DEF Return, U, Q, R, D, Returned
  <2>2. L' = 0 /\ W = 2 /\ W' = 0
    BY <1>1 DEF Return, L, W, ToUndo, PlaceWeight
  <2>3. QED
    BY <1>e, <2>1, <2>2
<1>2. CASE StartWave
  <2> DEFINE go == {n \in Wave : Runnable(n)}
  <2>1. /\ at = "waves" /\ placed' = placed \cup Wave /\ queued' = go /\ at' \in {"waves", "wave"}
        /\ UNCHANGED <<running, returned, completed>>
    BY <1>2 DEF StartWave, result
  <2>2. /\ R' = R /\ D' = D /\ L' = L /\ Q = 0
        /\ W = 2 /\ W' <= 3
    <3>1. R' = R /\ D' = D
      BY <2>1 DEF R, D, Returned
    <3>2. L' = L /\ W = 2 /\ W' <= 3
      BY <2>1 DEF L, W, ToUndo, PlaceWeight
    <3>3. Q = 0
      BY <1>0, <2>1, EmptyCardinality DEF Q, Control
    <3>4. QED
      BY <3>1, <3>2, <3>3
  <2>3. Wave \in SUBSET Nodes /\ Wave \subseteq Nodes \ placed /\ Wave # {}
    <3>1. placed # Nodes
      BY <1>2 DEF StartWave
    <3>2. QED
      BY <1>0, <3>1, WaveNotEmpty DEF SagaTypeOK, Wave, NextInOrder
  <2>4. IsFiniteSet(Nodes \ placed) /\ IsFiniteSet(Wave)
    BY <2>3, DagAssumption, FS_Subset
  <2>5. Cardinality(Wave) \in Nat /\ Cardinality(Wave) # 0 /\ Q' <= Cardinality(Wave)
    <3>1. go \in SUBSET Wave
      OBVIOUS
    <3>2. Cardinality(go) <= Cardinality(Wave)
      BY <2>4, <3>1, FS_Subset
    <3>3. Cardinality(Wave) \in Nat /\ Cardinality(Wave) # 0
      BY <2>3, <2>4, FS_CardinalityType, FS_EmptySet
    <3> HIDE DEF go
    <3>4. QED
      BY <2>1, <3>2, <3>3 DEF Q
  <2>6. U' = U - Cardinality(Wave)
    <3>1. /\ Nodes \ placed' = (Nodes \ placed) \ Wave
          /\ (Nodes \ placed) \cap Wave = Wave
      BY <2>1, <2>3
    <3>2. Cardinality((Nodes \ placed) \ Wave) = U - Cardinality((Nodes \ placed) \cap Wave)
      BY <2>4, FS_Difference DEF U
    <3>3. QED
      BY <3>1, <3>2 DEF U
  <2>7. PICK k \in Nat : k = Cardinality(Wave)
    BY <2>5
  <2>8. /\ u1 = u - k /\ q = 0 /\ q1 <= k /\ k # 0
        /\ r1 = r /\ d1 = d /\ l1 = l /\ w = 2 /\ w1 <= 3
    BY <1>e, <2>2, <2>5, <2>6, <2>7
  <2>9. QED
    BY <2>8
<1>3. CASE EndWave
  <2>1. U' = U /\ Q' = Q /\ R' = R /\ D' = D
    BY <1>3 DEF EndWave, U, Q, R, D, Returned
  <2>2. L' = L /\ W = 3 /\ W' \in {1, 2}
    BY <1>3 DEF EndWave, L, W, ToUndo, PlaceWeight, result
  <2>3. u1 = u /\ q1 = q /\ r1 = r /\ d1 = d /\ l1 = l /\ w = 3 /\ w1 <= 2
    BY <1>e, <2>1, <2>2
  <2>4. QED
    BY <2>3
<1>4. CASE Compensated
  <2>1. U' = U /\ Q' = Q /\ R' = R /\ D' = D
    BY <1>4 DEF Compensated, U, Q, R, D, Returned
  <2>2. L' = 0 /\ W = 1 /\ W' = 0
    BY <1>4 DEF Compensated, L, W, ToUndo, PlaceWeight
  <2>3. QED
    BY <1>e, <2>1, <2>2
<1>5. ASSUME NEW ok \in BOOLEAN, Compensate(ok)
      PROVE  6 * u1 + 4 * q1 + 3 * r1 + 2 * d1 + l1 + w1 < 6 * u + 4 * q + 3 * r + 2 * d + l + w
  <2>1. U' = U /\ Q' = Q /\ R' = R /\ D' = D /\ W' = W /\ W = 1
    BY <1>5 DEF Compensate, U, Q, R, D, W, Returned, PlaceWeight
  <2>2. undo \in Seq(Nodes) /\ undo # <<>> /\ undo' = Front(undo) /\ at = "undo" /\ at' = "undo"
    BY <1>0, <1>5 DEF Compensate, SagaTypeOK
  <2>3. Len(Front(undo)) = Len(undo) - 1 /\ Len(undo) \in Nat
    <3>1. Len(undo) \in Nat \ {0}
      BY <2>2
    <3>2. Front(undo) = [i \in 1..(Len(undo) - 1) |-> undo[i]]
      BY DEF Front
    <3>3. QED
      BY <2>2, <3>1, <3>2
  <2>4. L' = L - 1
    BY <2>2, <2>3 DEF L, ToUndo
  <2>5. QED
    BY <1>e, <2>1, <2>4
<1>6. ASSUME NEW n \in Nodes, SkipNext(n)
      PROVE  6 * u1 + 4 * q1 + 3 * r1 + 2 * d1 + l1 + w1 < 6 * u + 4 * q + 3 * r + 2 * d + l + w
  <2>1. Q' = Q /\ R' = R /\ D' = D /\ L' = L /\ W' = W /\ W = 2
    BY <1>6 DEF SkipNext, Q, R, D, L, W, Returned, ToUndo, PlaceWeight, result
  <2>2. U' = U - 1
    BY <1>6, <1>d DEF SkipNext, NextInOrder, U
  <2>3. QED
    BY <1>e, <2>1, <2>2
<1>7. ASSUME NEW n \in Nodes, AdmitNext(n)
      PROVE  6 * u1 + 4 * q1 + 3 * r1 + 2 * d1 + l1 + w1 < 6 * u + 4 * q + 3 * r + 2 * d + l + w
  <2>1. Q' = Q /\ D' = D /\ L' = L /\ W' = 4 /\ W = 2
    BY <1>7 DEF AdmitNext, Q, D, L, W, Returned, ToUndo, PlaceWeight, result
  <2>2. U' = U - 1 /\ R' = 1
    BY <1>7, <1>d DEF AdmitNext, NextInOrder, U, R
  <2>3. QED
    BY <1>e, <2>1, <2>2
<1>8. ASSUME NEW n \in Nodes, Execute(n)
      PROVE  6 * u1 + 4 * q1 + 3 * r1 + 2 * d1 + l1 + w1 < 6 * u + 4 * q + 3 * r + 2 * d + l + w
  <2>1. U' = U /\ Q' = Q /\ R' = R /\ D' = D /\ L' = L /\ W' = 3 /\ W = 4
    BY <1>8 DEF Execute, U, Q, R, D, L, W, Returned, ToUndo, PlaceWeight, result
  <2>2. QED
    BY <1>e, <2>1
<1>9. ASSUME NEW n \in Nodes, Succeed(n)
      PROVE  6 * u1 + 4 * q1 + 3 * r1 + 2 * d1 + l1 + w1 < 6 * u + 4 * q + 3 * r + 2 * d + l + w
  <2>1. U' = U /\ Q' = Q /\ D' = D /\ W' = 2 /\ W = 3
    BY <1>9 DEF Succeed, U, Q, D, W, Returned, PlaceWeight
  <2>2. L' = L + 1
    <3>1. completed \in Seq(Nodes) /\ completed' = Append(completed, n)
          /\ at = "executing" /\ at' = "order"
      BY <1>0, <1>9 DEF Succeed, SagaTypeOK
    <3>2. Len(completed') = Len(completed) + 1
      BY <3>1
    <3>3. QED
      BY <3>1, <3>2 DEF L, ToUndo
  <2>3. R' = 0 /\ R # 0
    <3>1. running' = {} /\ Cardinality(running \ {n}) = R - 1 /\ Cardinality(running \ {n}) \in Nat
      BY <1>0, <1>9, <1>d, SubsetCardinality DEF Succeed, SagaTypeOK
    <3>2. QED
      BY <1>a, <3>1, EmptyCardinality DEF R
  <2>4. QED
    BY <1>e, <2>1, <2>2, <2>3
<1>10. ASSUME NEW n \in Nodes, Raise(n)
       PROVE  6 * u1 + 4 * q1 + 3 * r1 + 2 * d1 + l1 + w1 < 6 * u + 4 * q + 3 * r + 2 * d + l + w
  <2>1. U' = U /\ Q' = Q /\ D' = D /\ W' = 1 /\ W = 3 /\ L' = L
    BY <1>10 DEF Raise, U, Q, D, W, L, Returned, ToUndo, PlaceWeight
  <2>2. R' = 0
    BY <1>10, EmptyCardinality DEF Raise, R
  <2>3. QED
    BY <1>e, <2>1, <2>2
<1>11. ASSUME NEW n \in Nodes, WorkerStart(n)
       PROVE  6 * u1 + 4 * q1 + 3 * r1 + 2 * d1 + l1 + w1 < 6 * u + 4 * q + 3 * r + 2 * d + l + w
  <2>1. U' = U /\ D' = D /\ L' = L /\ W' = W /\ W \in 0..4
    BY <1>11 DEF WorkerStart, U, D, L, W, Returned, ToUndo, PlaceWeight, result
  <2>2. Q' = Q - 1
    BY <1>11, <1>d DEF WorkerStart, Q
  <2>3. R' = R + 1
    BY <1>11, <1>d DEF WorkerStart, R, SInv, Grounded
  <2>4. QED
    BY <1>e, <2>1, <2>2, <2>3
<1>12. ASSUME NEW n \in Nodes, NEW outcome \in {"ok", "raised"}, WorkerEnd(n, outcome)
       PROVE  6 * u1 + 4 * q1 + 3 * r1 + 2 * d1 + l1 + w1 < 6 * u + 4 * q + 3 * r + 2 * d + l + w
  <2>1. U' = U /\ Q' = Q /\ L' = L /\ W' = W /\ W = 3
    BY <1>12 DEF WorkerEnd, U, Q, L, W, ToUndo, PlaceWeight, result
  <2>2. R' = R - 1
    BY <1>12, <1>d DEF WorkerEnd, R
  <2>3. D' = D + 1
    <3>1. Returned' = Returned \cup {n} /\ n \notin Returned
      BY <1>0, <1>12 DEF WorkerEnd, Returned, SInv, Grounded, SagaTypeOK
    <3>2. QED
      BY <1>d, <3>1 DEF D
  <2>4. QED
    BY <1>e, <2>1, <2>2, <2>3
<1>13. ASSUME NEW n \in Nodes, CollectOk(n) \/ CollectRaised(n)
       PROVE  6 * u1 + 4 * q1 + 3 * r1 + 2 * d1 + l1 + w1 < 6 * u + 4 * q + 3 * r + 2 * d + l + w
  <2>1. U' = U /\ Q' = Q /\ R' = R /\ W' = W /\ W = 3 /\ at = "wave" /\ at' = "wave"
    BY <1>0, <1>13 DEF CollectOk, CollectRaised, U, Q, R, W, PlaceWeight, Control
  <2>2. D' = D - 1
    <3>1. Returned' = Returned \ {n} /\ n \in Returned
      BY <1>0, <1>13 DEF CollectOk, CollectRaised, Returned, SagaTypeOK
    <3>2. QED
      BY <1>d, <3>1 DEF D
  <2>3. L' \in {L, L + 1}
    <3>1. completed \in Seq(Nodes) /\ completed' \in {completed, Append(completed, n)}
      BY <1>0, <1>13 DEF CollectOk, CollectRaised, SagaTypeOK
    <3>2. Len(completed') \in {Len(completed), Len(completed) + 1}
      BY <3>1
    <3>3. QED
      BY <2>1, <3>2 DEF L, ToUndo
  <2>4. u1 = u /\ q1 = q /\ r1 = r /\ d1 = d - 1 /\ l1 <= l + 1 /\ w1 = w
    BY <1>e, <2>1, <2>2, <2>3
  <2>5. QED
    BY <2>4
<1>14. QED
  BY <1>1, <1>2, <1>3, <1>4, <1>5, <1>6, <1>7, <1>8, <1>9, <1>10, <1>11, <1>12, <1>13 DEF Progress

\* A run begins with all its nodes to take.
LEMMA BeginWork ==
  ASSUME SInv, Begin
  PROVE  WorkLeft' = 6 * Cardinality(Nodes) + 2
<1> DEFINE N == Cardinality(Nodes)
<1>1. /\ Cardinality(Nodes \ placed)' = N /\ N \in Nat
      /\ Cardinality(queued)' = 0 /\ Cardinality(running)' = 0 /\ Cardinality(Returned)' = 0
  <2>1. Nodes \ placed' = Nodes /\ queued' = {} /\ running' = {} /\ Returned' = {}
    BY DEF Begin, SInv, Control, Returned
  <2>2. N \in Nat
    BY SubsetCardinality
  <2>3. QED
    BY <2>1, <2>2, EmptyCardinality
<1>2. ToUndo' = 0 /\ PlaceWeight(at)' = 2
  BY DEF Begin, ToUndo, PlaceWeight
<1> HIDE DEF N
<1>3. WorkLeft' = 6 * N + 4 * 0 + 3 * 0 + 2 * 0 + 0 + 2
  BY <1>1, <1>2 DEF WorkLeft
<1>4. QED
  BY <1>1, <1>3 DEF N

LEMMA InterruptWork ==
  ASSUME NEW n \in Nodes, Interrupt(n)
  PROVE  WorkLeft' = WorkLeft
<1>1. UNCHANGED <<at, placed, queued, running, returned, completed, undo>>
  BY DEF Interrupt, result
<1>2. QED
  BY <1>1 DEF WorkLeft, Returned, ToUndo

\* Six steps of each node, at most, and two to end: every step the executor's
\* threads take uses up some of the work a run begins with, and interrupts add
\* none.  With the theorem that follows it is why, on fair threads, a run ends.
THEOREM RunsAreBounded ==
  Spec => /\ [](WorkLeft \in Nat)
          /\ [][/\ Begin => WorkLeft' = 6 * Cardinality(Nodes) + 2
                /\ Progress => WorkLeft' < WorkLeft
                /\ (\E n \in Nodes : Interrupt(n)) => WorkLeft' = WorkLeft]_vars
<1>1. SInv => WorkLeft \in Nat
  BY WorkParts DEF SInv
<1>2. SInv /\ SInv' /\ [Next]_vars
        => [/\ Begin => WorkLeft' = 6 * Cardinality(Nodes) + 2
            /\ Progress => WorkLeft' < WorkLeft
            /\ (\E n \in Nodes : Interrupt(n)) => WorkLeft' = WorkLeft]_vars
  BY ProgressShrinks, BeginWork, InterruptWork
<1>3. QED
  BY <1>1, <1>2, SagaInvariance, PTL DEF Spec

\* A node is in hand between its admission and its outcome.
InHand == at \in {"admitted", "executing"} => running # {}

LEMMA InHandInvariance == Spec => []InHand
<1>1. Init => InHand
  BY DEF Init, InHand
<1>2. SInv /\ InHand /\ [Next]_vars => InHand'
  <2> SUFFICES ASSUME SInv, InHand, [Next]_vars PROVE InHand'
    OBVIOUS
  <2>1. ASSUME Begin \/ Return \/ StartWave \/ EndWave \/ Compensated
        PROVE  InHand'
    BY <2>1 DEF Begin, Return, StartWave, EndWave, Compensated, InHand
  <2>2. ASSUME NEW ok \in BOOLEAN, Compensate(ok) PROVE InHand'
    BY <2>2 DEF Compensate, InHand
  <2>3. ASSUME NEW n \in Nodes, SkipNext(n) \/ AdmitNext(n) \/ Execute(n) \/ Succeed(n) \/ Raise(n)
        PROVE  InHand'
    BY <2>3 DEF SkipNext, AdmitNext, Execute, Succeed, Raise, InHand
  <2>4. ASSUME NEW n \in Nodes, WorkerStart(n) \/ CollectOk(n) \/ CollectRaised(n)
        PROVE  InHand'
    BY <2>4 DEF WorkerStart, CollectOk, CollectRaised, InHand
  <2>5. ASSUME NEW n \in Nodes, NEW outcome \in {"ok", "raised"}, WorkerEnd(n, outcome)
        PROVE  InHand'
    BY <2>5 DEF WorkerEnd, InHand
  <2>6. ASSUME NEW n \in Nodes, Interrupt(n) PROVE InHand'
    BY <2>6 DEF Interrupt, InHand
  <2>7. CASE UNCHANGED vars
    BY <2>7 DEF vars, InHand
  <2>8. QED
    BY <2>1, <2>2, <2>3, <2>4, <2>5, <2>6, <2>7 DEF Next, Progress
<1>3. QED
  BY <1>1, <1>2, SagaInvariance, PTL DEF Spec

\* What the actions of Progress ask of the state, action by action.
CanStep ==
  \/ at \in {"order", "waves"} /\ placed = Nodes                   \* Return
  \/ at = "order" /\ \E n \in Nodes : NextInOrder(n)               \* SkipNext, AdmitNext
  \/ at \in {"admitted", "executing"} /\ running \cap Nodes # {}   \* Execute, Succeed, Raise
  \/ at = "waves" /\ placed # Nodes                                \* StartWave
  \/ queued \cap Nodes # {} /\ Cardinality(running) < MaxWorkers   \* WorkerStart
  \/ at = "wave" /\ running \cap Nodes # {}                        \* WorkerEnd
  \/ \E n \in Nodes : returned[n] \in {"ok", "raised"}             \* CollectOk, CollectRaised
  \/ /\ at = "wave" /\ queued = {} /\ running = {}                 \* EndWave
     /\ \A n \in Nodes : returned[n] = "none"
  \/ at = "undo"                                                   \* Compensate, Compensated

\* A run that has not returned can go on: the graph has no cycle, so there is a
\* next node or wave, and the pool has a worker, so what is queued will start.
THEOREM RunsNeverStick == Spec => [](at # "over" => CanStep)
<1>1. SInv /\ InHand => (at # "over" => CanStep)
  <2> SUFFICES ASSUME SInv, InHand, at # "over" PROVE CanStep
    OBVIOUS
  <2>0. SagaTypeOK
    BY DEF SInv
  <2>1. CASE at = "order"
    BY <2>0, <2>1, WaveNotEmpty DEF CanStep, SagaTypeOK
  <2>2. CASE at \in {"admitted", "executing"}
    BY <2>0, <2>2 DEF CanStep, SagaTypeOK, InHand
  <2>3. CASE at = "wave"
    <3>1. CASE running # {}
      BY <2>0, <2>3, <3>1 DEF CanStep, SagaTypeOK
    <3>2. CASE running = {} /\ queued # {}
      <4>1. Cardinality(running) < MaxWorkers
        BY <3>2, EmptyCardinality, DagAssumption
      <4>2. QED
        BY <2>0, <3>2, <4>1 DEF CanStep, SagaTypeOK
    <3>3. CASE running = {} /\ queued = {}
      BY <2>0, <2>3, <3>3 DEF CanStep, SagaTypeOK
    <3>4. QED
      BY <3>1, <3>2, <3>3
  <2>4. CASE at \in {"waves", "undo"}
    BY <2>4 DEF CanStep
  <2>5. QED
    BY <2>0, <2>1, <2>2, <2>3, <2>4 DEF SagaTypeOK, Places
<1>2. QED
  BY <1>1, SagaInvariance, InHandInvariance, PTL
=============================================================================
