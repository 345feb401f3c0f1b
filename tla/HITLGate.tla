------------------------------ MODULE HITLGate ------------------------------
(***************************************************************************)
(* The file in which hlf_mcp/hlf/hitl_gate.py keeps the approval request   *)
(* of one capsule.  The inference that needs an approval writes it; the    *)
(* tools of the servers and scripts/hlf_operator.py approve, reject or     *)
(* time it out.  Each call reads the file, looks at the status and writes  *)
(* the file anew, without a lock, and a process may die in between.        *)
(***************************************************************************)
EXTENDS Integers, FiniteSets

CONSTANT Calls  \* calls of approve, reject and check_timeouts

VARIABLES
  file,     \* what json.load() would find: no file, no JSON, or a status
  submit,   \* where submit_approval_request is
  at,       \* where each call is
  kind,     \* what each call would write
  expired,  \* timeout_seconds have passed since the request was made
  met,      \* pairs of calls that were under way at the same time
  acked     \* calls that returned the request they decided

vars == <<file, submit, at, kind, expired, met, acked>>

Awaiting == "AWAITING_HUMAN_APPROVAL"
Final == {"COMPLETED", "REJECTED_HUMAN", "REJECTED_TIMEOUT"}
Undecodable == {"empty", "garbled"}

Init ==
  /\ file = "absent" /\ submit = "new"
  /\ at = [c \in Calls |-> "new"]
  /\ kind \in [Calls -> Final]
  /\ expired = FALSE /\ met = {} /\ acked = {}

-----------------------------------------------------------------------------
Goto(c, place) == at' = [at EXCEPT ![c] = place]

\* submit_approval_request: open() empties the file or makes it,
SubmitOpen ==
  /\ submit = "new" /\ submit' = "open"
  /\ file' = "empty"
  /\ UNCHANGED <<at, kind, expired, met, acked>>

\* json.dump() and close() write it.
SubmitWrite ==
  /\ submit = "open" /\ submit' = "done"
  /\ file' = Awaiting
  /\ UNCHANGED <<at, kind, expired, met, acked>>

SubmitCrash ==
  /\ submit = "open" /\ submit' = "crashed"
  /\ UNCHANGED <<file, at, kind, expired, met, acked>>

Expire == ~expired /\ expired' = TRUE /\ UNCHANGED <<file, submit, at, kind, met, acked>>

Underway == {c \in Calls : at[c] \in {"read", "open"}}

\* Mutation: a request that timed out is not final.
OpenToUnlessRejected(c) ==
  \/ file = Awaiting /\ (kind[c] = "REJECTED_TIMEOUT" => expired)
  \/ file = "REJECTED_TIMEOUT" /\ kind[c] # "REJECTED_TIMEOUT"

\* Mutation: check_timeouts does not look at the time.
OpenToUnexpired(c) == file = Awaiting

(* What c read lets it decide: approve and reject raise when the status is *)
(* final, whether or not the request has expired; check_timeouts passes    *)
(* over what is not expired or not awaiting.                               *)
OpenTo(c) == file = Awaiting /\ (kind[c] = "REJECTED_TIMEOUT" => expired)

\* approve, reject or check_timeouts: the file is read, the status looked at.
Read(c) ==
  /\ at[c] = "new" /\ file # "absent"
  /\ IF OpenTo(c)
     THEN Goto(c, "read") /\ met' = met \cup {{c, d} : d \in Underway}
     ELSE Goto(c, "done") /\ UNCHANGED met
  /\ UNCHANGED <<file, submit, kind, expired, acked>>

\* Mutation: the file is opened for update and keeps what is in it.
OpenInPlace(c) ==
  /\ at[c] = "read" /\ Goto(c, "open")
  /\ UNCHANGED <<file, submit, kind, expired, met, acked>>

\* open(path, "w") empties the file.
Open(c) ==
  /\ at[c] = "read" /\ Goto(c, "open")
  /\ file' = "empty"
  /\ UNCHANGED <<submit, kind, expired, met, acked>>

(* The request is written from the beginning of the file.  When another    *)
(* call has written since the file was emptied, and wrote more, the end of *)
(* its text stays and what is in the file is no JSON.                      *)
Write(c) ==
  /\ at[c] = "open" /\ Goto(c, "done")
  /\ file' \in {kind[c]} \cup (IF file = "empty" THEN {} ELSE {"garbled"})
  /\ acked' = acked \cup {c}
  /\ UNCHANGED <<submit, kind, expired, met>>

\* The process dies.
Crash(c) ==
  /\ at[c] \in {"read", "open"} /\ Goto(c, IF at[c] = "open" THEN "crashed" ELSE "done")
  /\ UNCHANGED <<file, submit, kind, expired, met, acked>>

Next ==
  \/ SubmitOpen \/ SubmitWrite \/ SubmitCrash \/ Expire
  \/ \E c \in Calls : Read(c) \/ Open(c) \/ Write(c) \/ Crash(c)

Spec == Init /\ [][Next]_vars

-----------------------------------------------------------------------------
HITLTypeOK ==
  /\ file \in {"absent", Awaiting} \cup Undecodable \cup Final
  /\ submit \in {"new", "open", "done", "crashed"}
  /\ at \in [Calls -> {"new", "read", "open", "done", "crashed"}]
  /\ kind \in [Calls -> Final] /\ expired \in BOOLEAN
  /\ met \subseteq {{c, d} : c, d \in Calls} /\ acked \subseteq Calls
  /\ file \in Final => \E c \in acked : kind[c] = file
  /\ file = "REJECTED_TIMEOUT" => expired

(* Two decisions are both acknowledged only if the calls overlapped: a     *)
(* call that begins after another has returned finds the request final, or *)
(* the file undecodable, and raises.                                       *)
ConflictsOverlap == \A c, d \in acked : c # d => {c, d} \in met

(* When no call is between emptying and writing the file, it can be read,  *)
(* unless a call died there or two calls wrote it at the same time.        *)
UndecodableExplained ==
  file \in Undecodable =>
    \/ submit \in {"open", "crashed"} \/ \E c \in Calls : at[c] \in {"open", "crashed"}
    \/ file = "garbled" /\ \E c, d \in acked : c # d
=============================================================================
