-------------------------- MODULE HITLGate_proofs --------------------------
(***************************************************************************)
(* What is proved of HITLGate for any number of calls.                     *)
(***************************************************************************)
EXTENDS HITLGate, TLAPS

(* The file belongs to its submission until that is over, and no call gets *)
(* past reading it before.                                                 *)
Submission ==
  /\ submit = "new" => file = "absent"
  /\ submit \in {"open", "crashed"} => file = "empty"
  /\ submit # "done" => acked = {} /\ Underway = {}

\* After a decision the file never awaits another one.
Decided ==
  /\ acked # {} => file # Awaiting
  /\ \A c \in acked : at[c] = "done"
  /\ \A c \in Underway : kind[c] = "REJECTED_TIMEOUT" => expired

\* A call under way has met all that are or that decided.
Meetings ==
  \A c \in Underway : \A d \in Underway \cup acked : c # d => {c, d} \in met

\* What is in the file a call has emptied was written by another call.
Emptied ==
  \A c \in Calls : at[c] = "open" /\ file # "empty" => \E d \in acked : d # c

IInv ==
  /\ HITLTypeOK
  /\ Submission /\ Decided /\ Meetings /\ Emptied
  /\ ConflictsOverlap /\ UndecodableExplained

-----------------------------------------------------------------------------
LEMMA InitIInv == Init => IInv
<1> SUFFICES ASSUME Init PROVE IInv
  OBVIOUS
<1>1. Underway = {} /\ acked = {} /\ file = "absent" /\ \A c \in Calls : at[c] = "new"
  BY DEF Init, Underway
<1>2. HITLTypeOK
  <2>1. expired \in BOOLEAN /\ kind \in [Calls -> Final] /\ submit = "new"
    BY ZenonT(30) DEF Init
  <2>2. at \in [Calls -> {"new", "read", "open", "done", "crashed"}]
    BY DEF Init
  <2>3. file \notin Final /\ file # "REJECTED_TIMEOUT"
    BY <1>1 DEF Final
  <2>4. met \subseteq {{c, d} : c, d \in Calls} /\ acked \subseteq Calls
    BY DEF Init
  <2> QED BY <1>1, <2>1, <2>2, <2>3, <2>4 DEF HITLTypeOK
<1>3. Submission /\ Decided /\ Meetings /\ Emptied
  BY <1>1 DEF Init, Submission, Decided, Meetings, Emptied, Awaiting
<1>4. ConflictsOverlap /\ UndecodableExplained
  BY <1>1 DEF ConflictsOverlap, UndecodableExplained, Undecodable
<1> QED BY <1>2, <1>3, <1>4 DEF IInv

LEMMA NextIInv == IInv /\ [Next]_vars => IInv'
<1> SUFFICES ASSUME IInv, [Next]_vars PROVE IInv'
  OBVIOUS
<1> USE DEF Underway, Awaiting, Final, Undecodable
<1>1. CASE SubmitOpen
  <2>1. HITLTypeOK'
    BY <1>1 DEF SubmitOpen, IInv, HITLTypeOK, Submission
  <2>2. (Submission /\ Decided /\ Meetings /\ Emptied)'
    BY <1>1 DEF SubmitOpen, IInv, HITLTypeOK, Submission, Decided, Meetings, Emptied
  <2>3. (ConflictsOverlap /\ UndecodableExplained)'
    BY <1>1 DEF SubmitOpen, IInv, ConflictsOverlap, UndecodableExplained
  <2> QED BY <2>1, <2>2, <2>3 DEF IInv
<1>2. CASE SubmitWrite
  <2>1. HITLTypeOK'
    BY <1>2 DEF SubmitWrite, IInv, HITLTypeOK, Submission
  <2>2. (Submission /\ Decided /\ Meetings /\ Emptied)'
    BY <1>2 DEF SubmitWrite, IInv, HITLTypeOK, Submission, Decided, Meetings, Emptied
  <2>3. (ConflictsOverlap /\ UndecodableExplained)'
    BY <1>2 DEF SubmitWrite, IInv, ConflictsOverlap, UndecodableExplained
  <2> QED BY <2>1, <2>2, <2>3 DEF IInv
<1>3. CASE SubmitCrash
  <2>1. HITLTypeOK'
    BY <1>3 DEF SubmitCrash, IInv, HITLTypeOK
  <2>2. (Submission /\ Decided /\ Meetings /\ Emptied)'
    BY <1>3 DEF SubmitCrash, IInv, HITLTypeOK, Submission, Decided, Meetings, Emptied
  <2>3. (ConflictsOverlap /\ UndecodableExplained)'
    BY <1>3 DEF SubmitCrash, IInv, ConflictsOverlap, UndecodableExplained
  <2> QED BY <2>1, <2>2, <2>3 DEF IInv
<1>4. CASE Expire
  <2>1. HITLTypeOK'
    BY <1>4 DEF Expire, IInv, HITLTypeOK
  <2>2. (Submission /\ Decided /\ Meetings /\ Emptied)'
    BY <1>4 DEF Expire, IInv, HITLTypeOK, Submission, Decided, Meetings, Emptied
  <2>3. (ConflictsOverlap /\ UndecodableExplained)'
    BY <1>4 DEF Expire, IInv, ConflictsOverlap, UndecodableExplained
  <2> QED BY <2>1, <2>2, <2>3 DEF IInv
<1>5. ASSUME NEW c \in Calls, Read(c) PROVE IInv'
  <2>1. CASE OpenTo(c)
    <3>1. /\ at' = [at EXCEPT ![c] = "read"]
          /\ met' = met \cup {{c, d} : d \in Underway}
          /\ UNCHANGED <<file, submit, kind, expired, acked>>
          /\ file = Awaiting /\ acked = {} /\ submit = "done"
      BY <1>5, <2>1 DEF Read, Goto, OpenTo, IInv, Decided, Submission, HITLTypeOK
    <3>2. HITLTypeOK'
      BY <3>1 DEF IInv, HITLTypeOK
    <3>3. (Submission /\ Decided /\ Emptied)'
      BY <1>5, <2>1, <3>1 DEF OpenTo, IInv, HITLTypeOK, Submission, Decided, Emptied
    <3>4. Meetings'
      <4> SUFFICES ASSUME NEW b \in Underway', NEW d \in Underway', b # d PROVE {b, d} \in met'
        BY <3>1 DEF Meetings
      <4>1. CASE b = c
        BY <3>1, <4>1 DEF IInv, HITLTypeOK
      <4>2. CASE d = c
        <5>1. {b, d} = {c, b}
          BY <4>2
        <5> QED BY <3>1, <4>2, <5>1 DEF IInv, HITLTypeOK
      <4>3. CASE b # c /\ d # c
        BY <3>1, <4>3 DEF IInv, HITLTypeOK, Meetings
      <4> QED BY <4>1, <4>2, <4>3
    <3>5. (ConflictsOverlap /\ UndecodableExplained)'
      BY <3>1 DEF IInv, HITLTypeOK, ConflictsOverlap, UndecodableExplained
    <3> QED BY <3>2, <3>3, <3>4, <3>5 DEF IInv
  <2>2. CASE ~OpenTo(c)
    <3>1. /\ at' = [at EXCEPT ![c] = "done"] /\ at[c] = "new"
          /\ UNCHANGED <<file, submit, kind, expired, met, acked>>
      BY <1>5, <2>2 DEF Read, Goto
    <3>2. HITLTypeOK'
      BY <3>1 DEF IInv, HITLTypeOK
    <3>3. (Submission /\ Decided /\ Meetings /\ Emptied)'
      BY <3>1 DEF IInv, HITLTypeOK, Submission, Decided, Meetings, Emptied
    <3>4. (ConflictsOverlap /\ UndecodableExplained)'
      BY <3>1 DEF IInv, HITLTypeOK, ConflictsOverlap, UndecodableExplained
    <3> QED BY <3>2, <3>3, <3>4 DEF IInv
  <2> QED BY <2>1, <2>2
<1>6. ASSUME NEW c \in Calls, Open(c) PROVE IInv'
  <2>1. HITLTypeOK'
    BY <1>6 DEF Open, Goto, IInv, HITLTypeOK
  <2>2. (Submission /\ Decided /\ Meetings /\ Emptied)'
    BY <1>6 DEF Open, Goto, IInv, HITLTypeOK, Submission, Decided, Meetings, Emptied
  <2>3. (ConflictsOverlap /\ UndecodableExplained)'
    BY <1>6 DEF Open, Goto, IInv, HITLTypeOK, ConflictsOverlap, UndecodableExplained
  <2> QED BY <2>1, <2>2, <2>3 DEF IInv
<1>7. ASSUME NEW c \in Calls, Write(c) PROVE IInv'
  <2>1. /\ at[c] = "open" /\ at' = [at EXCEPT ![c] = "done"]
        /\ acked' = acked \cup {c}
        /\ file' = kind[c] \/ (file' = "garbled" /\ file # "empty")
        /\ UNCHANGED <<submit, kind, expired, met>>
        /\ submit = "done"
    BY <1>7 DEF Write, Goto, IInv, HITLTypeOK, Submission
  <2>2. HITLTypeOK'
    BY <2>1 DEF IInv, HITLTypeOK, Decided
  <2>3. (Submission /\ Decided)'
    BY <2>1 DEF IInv, HITLTypeOK, Submission, Decided
  <2>4. Meetings'
    <3> SUFFICES ASSUME NEW b \in Underway', NEW d \in (Underway \cup acked)', b # d
                 PROVE {b, d} \in met
      BY <2>1 DEF Meetings
    <3>1. b \in Underway /\ d \in Underway \cup acked
      BY <2>1 DEF IInv, HITLTypeOK
    <3> QED BY <3>1 DEF IInv, Meetings
  <2>5. Emptied'
    BY <2>1 DEF IInv, HITLTypeOK, Emptied
  <2>6. ConflictsOverlap'
    <3> SUFFICES ASSUME NEW b \in acked', NEW d \in acked', b # d PROVE {b, d} \in met
      BY <2>1 DEF ConflictsOverlap
    <3>1. CASE b = c
      BY <2>1, <3>1 DEF IInv, HITLTypeOK, Meetings
    <3>2. CASE d = c
      <4>1. {b, d} = {c, b}
        BY <3>2
      <4> QED BY <2>1, <3>2, <4>1 DEF IInv, HITLTypeOK, Meetings
    <3>3. CASE b # c /\ d # c
      BY <2>1, <3>3 DEF IInv, ConflictsOverlap
    <3> QED BY <3>1, <3>2, <3>3
  <2>7. UndecodableExplained'
    BY <2>1 DEF IInv, HITLTypeOK, Emptied, UndecodableExplained
  <2> QED BY <2>2, <2>3, <2>4, <2>5, <2>6, <2>7 DEF IInv
<1>8. ASSUME NEW c \in Calls, Crash(c) PROVE IInv'
  <2>1. HITLTypeOK'
    BY <1>8 DEF Crash, Goto, IInv, HITLTypeOK
  <2>2. (Submission /\ Decided /\ Meetings /\ Emptied)'
    BY <1>8 DEF Crash, Goto, IInv, HITLTypeOK, Submission, Decided, Meetings, Emptied
  <2>3. (ConflictsOverlap /\ UndecodableExplained)'
    BY <1>8 DEF Crash, Goto, IInv, HITLTypeOK, ConflictsOverlap, UndecodableExplained
  <2> QED BY <2>1, <2>2, <2>3 DEF IInv
<1>9. CASE UNCHANGED vars
  BY <1>9 DEF vars, IInv, HITLTypeOK, Submission, Decided, Meetings, Emptied, ConflictsOverlap,
              UndecodableExplained
<1> QED BY <1>1, <1>2, <1>3, <1>4, <1>5, <1>6, <1>7, <1>8, <1>9 DEF Next

LEMMA InvariantHolds == Spec => []IInv
BY InitIInv, NextIInv, PTL DEF Spec

(* The file, the calls and their ghosts keep their types, and a final      *)
(* status in the file was written by a call that returned it.              *)
THEOREM GateTypeCorrect == Spec => []HITLTypeOK
<1>1. IInv => HITLTypeOK
  BY DEF IInv
<1> QED BY <1>1, InvariantHolds, PTL

(* However many operators and sweeps decide one request, two of them are   *)
(* told that they did only if their calls overlapped.                      *)
THEOREM OnlyOverlapsConflict == Spec => []ConflictsOverlap
<1>1. IInv => ConflictsOverlap
  BY DEF IInv
<1> QED BY <1>1, InvariantHolds, PTL

(* A request file nobody can read is being written, was left by a crash or *)
(* was written by two calls at the same time.                              *)
THEOREM UndecodableIsExplained == Spec => []UndecodableExplained
<1>1. IInv => UndecodableExplained
  BY DEF IInv
<1> QED BY <1>1, InvariantHolds, PTL
=============================================================================
