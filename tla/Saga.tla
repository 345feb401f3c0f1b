-------------------------------- MODULE Saga --------------------------------
(***************************************************************************)
(* What the docstrings of hlf_mcp/hlf/spindle.py promise of a run of a     *)
(* task DAG: effects are made in dependency order; if the run fails, every *)
(* effect that was made is visited once, the effects of dependents first,  *)
(* and undone (or left, when it cannot be); then the run is over.          *)
(***************************************************************************)
CONSTANTS Nodes, DependsOn

VARIABLES effect, dir

vars == <<effect, dir>>

Init == effect = [n \in Nodes |-> "none"] /\ dir = "over"

Start ==
  /\ dir = "over"
  /\ dir' = "forward"
  /\ effect' = [n \in Nodes |-> "none"]

Do(n) ==
  /\ dir = "forward" /\ effect[n] = "none"
  /\ \A d \in DependsOn[n] : effect[d] = "done"
  /\ effect' = [effect EXCEPT ![n] = "done"]
  /\ UNCHANGED dir

Commit == dir = "forward" /\ dir' = "over" /\ UNCHANGED effect

Abort == dir = "forward" /\ dir' = "backward" /\ UNCHANGED effect

Undo(n) ==
  /\ dir = "backward" /\ effect[n] = "done"
  /\ \A m \in Nodes : n \in DependsOn[m] => effect[m] # "done"
  /\ \E e \in {"undone", "left"} : effect' = [effect EXCEPT ![n] = e]
  /\ UNCHANGED dir

Undone ==
  /\ dir = "backward"
  /\ \A n \in Nodes : effect[n] # "done"
  /\ dir' = "over"
  /\ UNCHANGED effect

Backward == Undone \/ \E n \in Nodes : Undo(n)

Next == Start \/ Commit \/ Abort \/ Backward \/ \E n \in Nodes : Do(n)

Spec == Init /\ [][Next]_vars /\ WF_vars(Backward)
=============================================================================
