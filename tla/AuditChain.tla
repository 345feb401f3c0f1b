----------------------------- MODULE AuditChain -----------------------------
(***************************************************************************)
(* The audit log of hlf_mcp/hlf/audit_chain.py: lines linked by hashes,    *)
(* and beside them a file with the hash the next line links to.  log()     *)
(* holds the lock of its process, so a process makes one call at a time;   *)
(* server processes that use the default paths share both files without    *)
(* a lock.  A process may die, and the disk may fail, at every point.      *)
(***************************************************************************)
EXTENDS Integers, Sequences, FiniteSets

CONSTANTS
  Processes,    \* server processes with the same files
  Payloads,     \* what an event and its data may be
  Limit,        \* how many of the last lines verify_integrity() is asked for
  MaxEntries,   \* bound: lines the log may reach
  MaxFaults     \* bound: crashes and failed reads or writes

ASSUME AuditAssumption ==
  /\ IsFiniteSet(Processes) /\ Limit \in Nat \ {0}
  /\ MaxEntries \in Nat /\ MaxFaults \in Nat

VARIABLES
  log,         \* the lines that are complete
  torn,        \* the file ends in part of a line
  garbled,     \* a part of a line was cut inside a character
  head,        \* what _read_last_hash() finds in the last-hash file
  pc,          \* where the log() call of each process is
  entry,       \* the entry each call is writing
  mixed,       \* processes whose call overlaps another process's call
  overlapped,  \* calls that overlapped another
  faults,      \* crashes and failed reads and writes
  blind,       \* of these, calls that read or left a wrong last hash
  gaps         \* indices before which an entry was written to the end of part of a line

files == <<log, torn, garbled, head>>
ghosts == <<mixed, overlapped, faults, blind, gaps>>
vars == <<files, pc, entry, ghosts>>

(* A hash is as good as the entries it was computed from: _ZERO_HASH is    *)
(* the empty sequence and no two different inputs have the same hash.      *)
ZeroHash == <<>>
TraceId(prev, payload) == Append(prev, payload)

Trace(e) == TraceId(e.parent, e.payload)

\* Lines whose parent is not the hash of the line before.
Broken(lines) == {i \in 2 .. Len(lines) : lines[i].parent # Trace(lines[i - 1])}

(* iter_entries() returns the last Limit lines, and the parent of the      *)
(* first of these is not looked at.                                        *)
Compared(lines) == {i \in 2 .. Len(lines) : i > Len(lines) - Limit + 1}

\* Mutation: the parent of the second is not looked at either.
MismatchesFromThird(lines) == {i \in Broken(lines) \cap Compared(lines) : i > 2}

(* The lines for which verify_integrity() reports an error: the hash of a  *)
(* line that can be decoded is the hash of what it says.                   *)
Mismatches(lines) == Broken(lines) \cap Compared(lines)

(* The bytes of a cut character are no UTF-8, wherever in the file they    *)
(* are: reading raises and iter_entries() returns no line at all.          *)
Errors == IF garbled THEN 0 ELSE Cardinality(Mismatches(log))

Init ==
  /\ log = <<>> /\ torn = FALSE /\ garbled = FALSE /\ head = ZeroHash
  /\ pc = [p \in Processes |-> "idle"]
  /\ entry = <<>>
  /\ mixed = {} /\ overlapped = 0 /\ faults = 0 /\ blind = 0 /\ gaps = {}

-----------------------------------------------------------------------------
Busy == {p \in Processes : pc[p] # "idle"}

\* A call of p begins, with its entry: it overlaps the calls under way.
Enter(p, e) ==
  LET together == IF Busy = {} THEN {} ELSE Busy \cup {p} IN
  /\ entry' = [q \in Busy \cup {p} |-> IF q = p THEN e ELSE entry[q]]
  /\ mixed' = mixed \cup together
  /\ overlapped' = overlapped + Cardinality(together \ mixed)

\* The call of p ends.
Leave(p) ==
  /\ pc' = [pc EXCEPT ![p] = "idle"]
  /\ entry' = [q \in Busy \ {p} |-> entry[q]]
  /\ mixed' = mixed \ {p}
  /\ UNCHANGED overlapped

\* A fault; n is 1 when it is about the last hash.
Fault(n) == faults < MaxFaults /\ faults' = faults + 1 /\ blind' = blind + n

NoFault == UNCHANGED <<faults, blind>>

\* What a write that is broken off leaves in the file.
NothingLeft == UNCHANGED <<torn, garbled>>
PartLeft == torn' = TRUE /\ garbled' \in {garbled, TRUE}

\* log() up to the entry: the last hash is read, or found to be unreadable.
Begin(p, payload) ==
  /\ pc[p] = "idle"
  /\ Len(log) + Cardinality(Busy) < MaxEntries
  /\ pc' = [pc EXCEPT ![p] = "hashed"]
  /\ \/ Enter(p, [parent |-> head, payload |-> payload]) /\ NoFault
     \/ Enter(p, [parent |-> ZeroHash, payload |-> payload]) /\ Fault(1)
  /\ UNCHANGED <<files, gaps>>

\* Mutation: the line is written without its newline.
WriteLineUnended(p) ==
  /\ pc[p] = "hashed"
  /\ pc' = [pc EXCEPT ![p] = "appended"]
  /\ log' = IF torn THEN log ELSE Append(log, entry[p])
  /\ gaps' = IF torn THEN gaps \cup {Len(log) + 1} ELSE gaps
  /\ torn' = TRUE
  /\ UNCHANGED <<garbled, head, entry, mixed, overlapped, faults, blind>>

(* The line is appended.  After part of a line it cannot be decoded, nor   *)
(* can that part.                                                          *)
WriteLine(p) ==
  /\ pc[p] = "hashed"
  /\ pc' = [pc EXCEPT ![p] = "appended"]
  /\ log' = IF torn THEN log ELSE Append(log, entry[p])
  /\ gaps' = IF torn THEN gaps \cup {Len(log) + 1} ELSE gaps
  /\ torn' = FALSE
  /\ UNCHANGED <<garbled, head, entry, mixed, overlapped, faults, blind>>

\* The write fails and log() raises; part of the line may be in the file.
LineFails(p) ==
  /\ pc[p] = "hashed"
  /\ NothingLeft \/ PartLeft
  /\ Fault(0) /\ Leave(p)
  /\ UNCHANGED <<log, head, gaps>>

\* write_text() empties the file before it writes.
Truncate(p) ==
  /\ pc[p] = "appended"
  /\ pc' = [pc EXCEPT ![p] = "truncated"]
  /\ head' = ZeroHash
  /\ UNCHANGED <<log, torn, garbled, entry, ghosts>>

\* Mutation: the parent of the entry is written.
WriteParent(p) ==
  /\ pc[p] = "truncated"
  /\ head' = entry[p].parent
  /\ NoFault /\ Leave(p)
  /\ UNCHANGED <<log, torn, garbled, gaps>>

\* The new last hash is in the file and log() returns.
WriteHead(p) ==
  /\ pc[p] = "truncated"
  /\ head' = Trace(entry[p])
  /\ NoFault /\ Leave(p)
  /\ UNCHANGED <<log, torn, garbled, gaps>>

\* _write_last_hash() fails, which it hides: log() returns.
HeadFails(p) ==
  /\ pc[p] \in {"appended", "truncated"}
  /\ Fault(1) /\ Leave(p)
  /\ UNCHANGED <<files, gaps>>

\* The process dies in the middle of log() and is started again.
Crash(p) ==
  /\ pc[p] # "idle"
  /\ NothingLeft \/ (pc[p] = "hashed" /\ PartLeft)
  /\ Fault(IF pc[p] = "hashed" THEN 0 ELSE 1) /\ Leave(p)
  /\ UNCHANGED <<log, head, gaps>>

Next == \E p \in Processes :
  \/ \E payload \in Payloads : Begin(p, payload)
  \/ WriteLine(p) \/ LineFails(p) \/ Truncate(p) \/ WriteHead(p) \/ HeadFails(p) \/ Crash(p)

Spec == Init /\ [][Next]_vars

-----------------------------------------------------------------------------
(* The types; part of a line is left by a fault only, and an entry is lost *)
(* to such a part only.                                                    *)
AuditTypeOK ==
  /\ log \in Seq([parent : Seq(Payloads), payload : Payloads])
  /\ torn \in BOOLEAN /\ garbled \in BOOLEAN /\ head \in Seq(Payloads)
  /\ pc \in [Processes -> {"idle", "hashed", "appended", "truncated"}]
  /\ entry \in [Busy -> [parent : Seq(Payloads), payload : Payloads]]
  /\ mixed \subseteq Processes /\ overlapped \in Nat /\ faults \in 0 .. MaxFaults
  /\ blind \in 0 .. faults /\ gaps \subseteq 1 .. Len(log) + 1
  /\ Cardinality(gaps) + (IF torn THEN 1 ELSE 0) <= faults - blind
  /\ garbled => torn \/ gaps # {}

(* Every error of verify_integrity() has a cause: a fault, or a call that  *)
(* overlapped the call of another process.  One process whose disk works   *)
(* and which does not crash always has a log that verifies.                *)
ErrorsExplained == Errors <= faults + overlapped

(* An entry that was written and cannot be read any more shows as an error *)
(* between two of the last Limit lines, unless a wrong last hash or a call *)
(* of another process hides it, or a part was cut inside a character: then *)
(* nothing is checked and nothing is ever reported again.  One that is     *)
(* lost before the first of these lines or after the last does not show,   *)
(* for nothing is compared there.                                          *)
LossShows ==
  garbled \/ Cardinality(gaps \cap Compared(log)) <= Errors + blind + overlapped
=============================================================================
