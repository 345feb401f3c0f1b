-------------------------- MODULE AuditChain_proofs --------------------------
(***************************************************************************)
(* What is proved of AuditChain for any processes, payloads and faults.    *)
(* An invariant that counts the errors there are says nothing of the next  *)
(* step; the strengthening adds what the calls under way and the last-hash *)
(* file may still cost, which every fault and every overlap pays for.  One *)
(* process alone never overlaps, so its log is as good as its disk.        *)
(***************************************************************************)
EXTENDS AuditChain, SequenceTheorems, FiniteSetTheorems, TLAPS

Hash == Seq(Payloads)
Entry == [parent : Hash, payload : Payloads]
Hashed == {p \in Processes : pc[p] = "hashed"}

Unit(b) == IF b THEN 1 ELSE 0

(* What is owed when the hashes in S are bad for the next line: each call  *)
(* that overlaps others may write one bad line, and the last of them leave *)
(* a bad hash; a call alone, or the file, costs one when its hash is bad.  *)
Owe(S, busy, hashed, hd, en, mx) ==
  LET late == busy \ hashed
      bad == hd \in S \/ \E p \in hashed : en[p].parent \in S IN
  IF mx # {} THEN Cardinality(hashed) + Unit(late # {} \/ bad)
  ELSE Unit((late = {} /\ bad) \/ \E p \in late : Trace(en[p]) \in S)

Tip == Trace(log[Len(log)])

\* A line with this parent would show as an error,
Wrong == {h \in Hash : log # <<>> /\ h # Tip}

\* or could hide that an entry was lost before it.
Short == {h \in Hash : log # <<>> /\ Len(h) < Len(Tip) + Unit(Len(log) + 1 \in gaps)}

(* The invariant is about all lines, as if verify_integrity() read them    *)
(* all and could always decode them: the window of the last Limit lines    *)
(* moves with every line, and what it holds says nothing of the next step. *)
Breaks == Cardinality(Broken(log))

\* Lost entries that break no link.
Hidden == (gaps \cap 2 .. Len(log)) \ Broken(log)

\* A call overlaps all the others or there are no others.
MixedOK == mixed \subseteq Busy /\ (mixed = Busy \/ (mixed = {} /\ \A p, q \in Busy : p = q))

ErrorsPaid ==
  Breaks + Owe(Wrong, Busy, Hashed, head, entry, mixed) + Unit(torn) <= faults + overlapped

LossesPaid ==
  Cardinality(Hidden) + Owe(Short, Busy, Hashed, head, entry, mixed) <= blind + overlapped

-----------------------------------------------------------------------------
(* Counting.                                                               *)

LEMMA UnitType == \A b : Unit(b) \in {0, 1}
BY DEF Unit

LEMMA OneMore ==
  ASSUME NEW S, IsFiniteSet(S), NEW x, x \notin S
  PROVE  Cardinality(S \cup {x}) = Cardinality(S) + 1
BY FS_AddElement

LEMMA OneLess ==
  ASSUME NEW S, IsFiniteSet(S), NEW x, x \in S
  PROVE  Cardinality(S \ {x}) = Cardinality(S) - 1
BY FS_RemoveElement

LEMMA OweType ==
  ASSUME NEW S, NEW busy, NEW hashed, NEW hd, NEW en, NEW mx, IsFiniteSet(hashed)
  PROVE  Owe(S, busy, hashed, hd, en, mx) \in Nat
<1>1. Cardinality(hashed) \in Nat
  BY FS_CardinalityType
<1> QED BY <1>1, UnitType DEF Owe

-----------------------------------------------------------------------------
(* What a step does to what is owed, for any bad hashes.  busy, hashed and *)
(* so on are the variables before the step, with a prime in the name after *)
(* it.                                                                     *)

\* A call that has not written its line ends.
LEMMA LeaveEarly ==
  ASSUME NEW S, NEW busy, NEW hashed, NEW hd, NEW en, NEW mx, IsFiniteSet(hashed),
         hashed \subseteq busy, mx = busy \/ (mx = {} /\ \A p, q \in busy : p = q),
         NEW x \in hashed
  PROVE  Owe(S, busy \ {x}, hashed \ {x}, hd, [q \in busy \ {x} |-> en[q]], mx \ {x})
           <= Owe(S, busy, hashed, hd, en, mx)
<1> DEFINE en2 == [q \in busy \ {x} |-> en[q]]
           late == busy \ hashed
           bad == hd \in S \/ \E p \in hashed : en[p].parent \in S
           bad2 == hd \in S \/ \E p \in hashed \ {x} : en2[p].parent \in S
           owed == Owe(S, busy, hashed, hd, en, mx)
           owed2 == Owe(S, busy \ {x}, hashed \ {x}, hd, en2, mx \ {x})
<1> SUFFICES owed2 <= owed
  OBVIOUS
<1>1. (busy \ {x}) \ (hashed \ {x}) = late
  OBVIOUS
<1>2. bad2 => bad
  OBVIOUS
<1>3. Cardinality(hashed) \in Nat /\ Cardinality(hashed \ {x}) = Cardinality(hashed) - 1
  BY FS_CardinalityType, OneLess
<1>4. CASE mx = busy
  <2>1. owed = Cardinality(hashed) + Unit(late # {} \/ bad)
    BY <1>4 DEF Owe
  <2>2. CASE busy \ {x} = {}
    <3>1. late = {}
      BY <2>2
    <3>2. owed2 = Unit(bad2)
      BY <1>1, <1>4, <2>2, <3>1 DEF Owe
    <3> HIDE DEF bad, bad2, owed, owed2, late
    <3> QED BY <1>2, <1>3, <2>1, <3>1, <3>2 DEF Unit
  <2>3. CASE busy \ {x} # {}
    <3>1. owed2 =
            Cardinality(hashed \ {x}) + Unit(late # {} \/ bad2)
      BY <1>1, <1>4, <2>3 DEF Owe
    <3> HIDE DEF bad, bad2, owed, owed2, late
    <3> QED BY <1>2, <1>3, <2>1, <3>1 DEF Unit
  <2> QED BY <2>2, <2>3
<1>5. CASE mx = {} /\ \A p, q \in busy : p = q
  <2>1. busy \ {x} = {} /\ hashed \ {x} = {} /\ late = {}
    BY <1>5
  <2>2. owed2 = Unit(bad2)
    BY <1>1, <1>5, <2>1 DEF Owe
  <2>3. owed = Unit(bad)
    BY <1>5, <2>1 DEF Owe
  <2> HIDE DEF bad, bad2, owed, owed2, late
  <2> QED BY <1>2, <2>2, <2>3 DEF Unit
<1> QED BY <1>4, <1>5

(* A call that has written its line ends: the hash it leaves is that of    *)
(* its entry, or any other at the price of one.                            *)
LEMMA LeaveLate ==
  ASSUME NEW S, NEW busy, NEW hashed, NEW hd, NEW hd2, NEW en, NEW mx, IsFiniteSet(hashed),
         hashed \subseteq busy, mx = busy \/ (mx = {} /\ \A p, q \in busy : p = q),
         NEW x \in busy \ hashed
  PROVE  LET owed == Owe(S, busy, hashed, hd, en, mx)
             owed2 == Owe(S, busy \ {x}, hashed, hd2, [q \in busy \ {x} |-> en[q]], mx \ {x}) IN
         /\ owed2 <= owed + 1
         /\ hd2 = Trace(en[x]) => owed2 <= owed
<1> DEFINE en2 == [q \in busy \ {x} |-> en[q]]
           bad2 == hd2 \in S \/ \E p \in hashed : en2[p].parent \in S
           owed == Owe(S, busy, hashed, hd, en, mx)
           owed2 == Owe(S, busy \ {x}, hashed, hd2, en2, mx \ {x})
<1>1. Cardinality(hashed) \in Nat
  BY FS_CardinalityType
<1>2. CASE mx = busy
  <2>1. owed = Cardinality(hashed) + 1
    BY <1>2 DEF Owe, Unit
  <2>2. CASE busy \ {x} = {}
    <3>1. owed2 \in {0, 1}
      BY <1>2, <2>2, UnitType DEF Owe
    <3> QED BY <1>1, <2>1, <3>1
  <2>3. CASE busy \ {x} # {}
    <3>1. owed2 = Cardinality(hashed) + Unit((busy \ {x}) \ hashed # {} \/ bad2)
      BY <1>2, <2>3 DEF Owe
    <3> QED BY <1>1, <2>1, <3>1, UnitType
  <2> QED BY <2>2, <2>3
<1>3. CASE mx = {} /\ \A p, q \in busy : p = q
  <2>1. busy \ {x} = {} /\ hashed = {} /\ busy \ hashed = {x}
    BY <1>3
  <2>2. owed2 = Unit(hd2 \in S)
    BY <1>3, <2>1 DEF Owe
  <2>3. owed = Unit(Trace(en[x]) \in S)
    BY <1>3, <2>1 DEF Owe
  <2> QED BY <2>2, <2>3 DEF Unit
<1> QED BY <1>2, <1>3

(* A line is written, after which the hashes in T are bad: it costs one    *)
(* when its parent is bad.                                                 *)
LEMMA WriteOwes ==
  ASSUME NEW S, NEW T, NEW busy, NEW hashed, NEW hd, NEW en, NEW mx, IsFiniteSet(hashed),
         hashed \subseteq busy, mx = busy \/ (mx = {} /\ \A p, q \in busy : p = q),
         NEW x \in hashed
  PROVE  LET owed == Owe(S, busy, hashed, hd, en, mx)
             owed2 == Owe(T, busy, hashed \ {x}, hd, en, mx) IN
         /\ owed2 <= owed + 1
         /\ mx # {} => owed2 <= owed
         /\ Trace(en[x]) \notin T => owed2 + Unit(en[x].parent \in S) <= owed
         /\ (en[x].parent \notin S => Trace(en[x]) \notin T) => owed2 <= owed
<1> DEFINE bad == hd \in S \/ \E p \in hashed : en[p].parent \in S
           owed == Owe(S, busy, hashed, hd, en, mx)
           owed2 == Owe(T, busy, hashed \ {x}, hd, en, mx)
           cost == Unit(en[x].parent \in S)
<1> SUFFICES /\ owed2 <= owed + 1
             /\ mx # {} => owed2 <= owed
             /\ Trace(en[x]) \notin T => owed2 + cost <= owed
             /\ (en[x].parent \notin S => Trace(en[x]) \notin T) => owed2 <= owed
  OBVIOUS
<1>1. Cardinality(hashed) \in Nat /\ Cardinality(hashed \ {x}) = Cardinality(hashed) - 1
  BY FS_CardinalityType, OneLess
<1>2. en[x].parent \in S => bad
  OBVIOUS
<1>3. CASE mx # {}
  <2>1. owed = Cardinality(hashed) + Unit(busy \ hashed # {} \/ bad)
    BY <1>3 DEF Owe
  <2>2. busy \ (hashed \ {x}) # {}
    OBVIOUS
  <2>3. owed2 = Cardinality(hashed \ {x}) + 1
    BY <1>3, <2>2 DEF Owe, Unit
  <2> HIDE DEF bad, owed, owed2
  <2>4. owed2 + cost <= owed /\ cost \in {0, 1} /\ owed \in Nat /\ owed2 \in Nat
    BY <1>1, <1>2, <2>1, <2>3 DEF Unit
  <2> QED BY <2>4
<1>4. CASE mx = {} /\ \A p, q \in busy : p = q
  <2>1. busy = {x} /\ hashed = {x} /\ busy \ hashed = {} /\ hashed \ {x} = {}
    BY <1>4
  <2>2. owed = Unit(bad)
    BY <1>4, <2>1 DEF Owe
  <2>3. owed2 = Unit(Trace(en[x]) \in T)
    BY <1>4, <2>1 DEF Owe
  <2>4. mx = {}
    BY <1>4
  <2> HIDE DEF bad, owed, owed2
  <2> QED BY <1>2, <2>2, <2>3, <2>4 DEF Unit
<1>5. mx = {} => \A p, q \in busy : p = q
  OBVIOUS
<1> QED BY <1>3, <1>4, <1>5

\* The last-hash file is emptied by a call that has written its line.
LEMMA TruncateOwes ==
  ASSUME NEW S, NEW busy, NEW hashed, NEW hd, NEW hd2, NEW en, NEW mx, NEW x \in busy \ hashed
  PROVE  Owe(S, busy, hashed, hd2, en, mx) = Owe(S, busy, hashed, hd, en, mx)
<1>1. busy \ hashed # {}
  OBVIOUS
<1> QED BY <1>1 DEF Owe, Unit

(* A call begins: it pays for itself and for the call that was alone until *)
(* then, and for reading another hash than that of the file.               *)
LEMMA EnterOwes ==
  ASSUME NEW S, NEW busy, NEW hashed, NEW hd, NEW en, NEW mx, IsFiniteSet(busy),
         hashed \subseteq busy, mx = busy \/ (mx = {} /\ \A p, q \in busy : p = q),
         NEW x, x \notin busy, NEW e
  PROVE  LET together == IF busy = {} THEN {} ELSE busy \cup {x}
             en2 == [q \in busy \cup {x} |-> IF q = x THEN e ELSE en[q]]
             owed == Owe(S, busy, hashed, hd, en, mx)
             owed2 == Owe(S, busy \cup {x}, hashed \cup {x}, hd, en2, mx \cup together) IN
         /\ owed2 <= owed + Cardinality(together \ mx) + 1
         /\ e.parent = hd => owed2 <= owed + Cardinality(together \ mx)
<1> DEFINE together == IF busy = {} THEN {} ELSE busy \cup {x}
           en2 == [q \in busy \cup {x} |-> IF q = x THEN e ELSE en[q]]
           late == busy \ hashed
           bad == hd \in S \/ \E p \in hashed : en[p].parent \in S
           bad2 == hd \in S \/ \E p \in hashed \cup {x} : en2[p].parent \in S
           owed == Owe(S, busy, hashed, hd, en, mx)
           owed2 == Owe(S, busy \cup {x}, hashed \cup {x}, hd, en2, mx \cup together)
<1> SUFFICES /\ owed2 <= owed + Cardinality(together \ mx) + 1
             /\ e.parent = hd => owed2 <= owed + Cardinality(together \ mx)
  OBVIOUS
<1>1. (busy \cup {x}) \ (hashed \cup {x}) = late
  OBVIOUS
<1>2. bad2 => bad \/ e.parent \in S
  OBVIOUS
<1>3. e.parent = hd => (bad2 => bad)
  BY <1>2
<1>4. IsFiniteSet(hashed)
  BY FS_Subset
<1>5. Cardinality(hashed) \in Nat /\ Cardinality(hashed \cup {x}) = Cardinality(hashed) + 1
  BY <1>4, FS_CardinalityType, OneMore
<1>6. CASE busy = {}
  <2>1. hashed = {} /\ mx = {} /\ together = {} /\ late = {} /\ together \ mx = {}
    BY <1>6
  <2>2. owed = Unit(bad)
    BY <2>1 DEF Owe
  <2>3. owed2 = Unit(bad2)
    BY <1>1, <2>1 DEF Owe
  <2>4. Cardinality(together \ mx) = 0
    BY <2>1, FS_EmptySet
  <2> HIDE DEF bad, bad2, owed, owed2, together
  <2> QED BY <1>3, <2>2, <2>3, <2>4 DEF Unit
<1>7. CASE busy # {} /\ mx = busy
  <2>1. together = busy \cup {x} /\ together \ mx = {x} /\ mx \cup together # {}
    BY <1>7
  <2>2. owed = Cardinality(hashed) + Unit(late # {} \/ bad)
    BY <1>7 DEF Owe
  <2>3. owed2 = Cardinality(hashed) + 1 + Unit(late # {} \/ bad2)
    BY <1>1, <1>5, <2>1 DEF Owe
  <2>4. Cardinality(together \ mx) = 1
    BY <2>1, FS_Singleton
  <2> HIDE DEF bad, bad2, owed, owed2, together, late
  <2> QED BY <1>3, <1>5, <2>2, <2>3, <2>4 DEF Unit
<1>8. CASE busy # {} /\ mx = {} /\ \A p, q \in busy : p = q
  <2>1. PICK y : busy = {y}
    BY <1>8
  <2>2. together \ mx = {y} \cup {x} /\ mx \cup together # {} /\ x # y
    BY <1>8, <2>1
  <2>3. Cardinality(together \ mx) = 2
    BY <2>2, FS_Singleton, OneMore
  <2>4. owed2 = Cardinality(hashed) + 1 + Unit(late # {} \/ bad2)
    BY <1>1, <1>5, <2>2 DEF Owe
  <2>5. CASE hashed = {}
    <3>1. Cardinality(hashed) = 0
      BY <2>5, FS_EmptySet
    <3>2. owed \in {0, 1}
      BY <1>8, UnitType DEF Owe
    <3> HIDE DEF bad, bad2, owed, owed2, together, late
    <3> QED BY <2>3, <2>4, <3>1, <3>2 DEF Unit
  <2>6. CASE hashed # {}
    <3>1. hashed = {y} /\ late = {}
      BY <2>1, <2>6
    <3>2. Cardinality(hashed) = 1
      BY <3>1, FS_Singleton
    <3>3. owed = Unit(bad)
      BY <1>8, <3>1 DEF Owe
    <3> HIDE DEF bad, bad2, owed, owed2, together
    <3>4. owed2 = 2 + Unit(bad2)
      BY <2>4, <3>1, <3>2 DEF Unit
    <3> QED BY <1>3, <2>3, <3>3, <3>4 DEF Unit
  <2> QED BY <2>5, <2>6
<1> QED BY <1>6, <1>7, <1>8

-----------------------------------------------------------------------------
(* The strengthening.                                                      *)

Typed ==
  /\ log \in Seq(Entry) /\ torn \in BOOLEAN /\ head \in Hash
  /\ pc \in [Processes -> {"idle", "hashed", "appended", "truncated"}]
  /\ entry \in [Busy -> Entry]
  /\ mixed \subseteq Processes /\ overlapped \in Nat /\ faults \in 0 .. MaxFaults
  /\ blind \in 0 .. faults /\ gaps \subseteq 1 .. Len(log) + 1

GapsPaid == Cardinality(gaps) + Unit(torn) <= faults - blind

IInv == Typed /\ GapsPaid /\ MixedOK /\ ErrorsPaid /\ LossesPaid

LEMMA Numbers ==
  ASSUME Typed, AuditAssumption
  PROVE  /\ Busy \subseteq Processes /\ Hashed \subseteq Busy
         /\ IsFiniteSet(Busy) /\ IsFiniteSet(Hashed) /\ IsFiniteSet(gaps)
         /\ IsFiniteSet(Broken(log)) /\ IsFiniteSet(Hidden)
         /\ Breaks \in Nat /\ Cardinality(Hidden) \in Nat /\ Cardinality(gaps) \in Nat
         /\ Len(log) \in Nat /\ faults \in Nat /\ blind \in Nat /\ overlapped \in Nat
         /\ Owe(Wrong, Busy, Hashed, head, entry, mixed) \in Nat
         /\ Owe(Short, Busy, Hashed, head, entry, mixed) \in Nat
<1>1. Busy \subseteq Processes /\ Hashed \subseteq Busy /\ Hashed \subseteq Processes
  BY DEF Busy, Hashed
<1>2. IsFiniteSet(Busy) /\ IsFiniteSet(Hashed)
  BY <1>1, FS_Subset DEF AuditAssumption
<1>3. Len(log) \in Nat /\ faults \in Nat /\ blind \in Nat /\ overlapped \in Nat
  BY LenProperties DEF Typed, AuditAssumption
<1>4. IsFiniteSet(1 .. Len(log) + 1)
  BY <1>3, FS_Interval
<1>5. gaps \subseteq 1 .. Len(log) + 1 /\ Hidden \subseteq gaps /\ Broken(log) \subseteq 1 .. Len(log) + 1
  BY <1>3 DEF Typed, Hidden, Broken
<1>6. IsFiniteSet(gaps) /\ IsFiniteSet(Broken(log))
  BY <1>4, <1>5, FS_Subset
<1>7. IsFiniteSet(Hidden)
  BY <1>5, <1>6, FS_Subset
<1>8. Breaks \in Nat /\ Cardinality(Hidden) \in Nat /\ Cardinality(gaps) \in Nat
  BY <1>6, <1>7, FS_CardinalityType DEF Breaks
<1> QED BY <1>1, <1>2, <1>3, <1>6, <1>7, <1>8, OweType

\* The owing of the next state, spelled out.
LEMMA PaidNext ==
  ASSUME Breaks' + Owe(Wrong', Busy', Hashed', head', entry', mixed') + Unit(torn')
           <= faults' + overlapped',
         Cardinality(Hidden') + Owe(Short', Busy', Hashed', head', entry', mixed')
           <= blind' + overlapped'
  PROVE  ErrorsPaid' /\ LossesPaid'
BY DEF ErrorsPaid, LossesPaid

(* A step that writes no line: what more is owed is paid by the overlaps   *)
(* and by the faults that are about the last hash.                         *)
LEMMA Settled ==
  ASSUME IInv, AuditAssumption, UNCHANGED <<log, gaps>>, Typed',
         Owe(Wrong, Busy', Hashed', head', entry', mixed')
           <= Owe(Wrong, Busy, Hashed, head, entry, mixed) + (overlapped' - overlapped) + (blind' - blind),
         Owe(Short, Busy', Hashed', head', entry', mixed')
           <= Owe(Short, Busy, Hashed, head, entry, mixed) + (overlapped' - overlapped) + (blind' - blind),
         Unit(torn') <= Unit(torn) + (faults' - faults) - (blind' - blind),
         Hashed' \subseteq Processes, MixedOK'
  PROVE  IInv'
<1>1. Wrong' = Wrong /\ Short' = Short /\ Hidden' = Hidden /\ Breaks' = Breaks
  BY DEF Wrong, Short, Tip, Hidden, Broken, Breaks
<1>2. /\ Breaks + Owe(Wrong, Busy, Hashed, head, entry, mixed) + Unit(torn) <= faults + overlapped
      /\ Cardinality(Hidden) + Owe(Short, Busy, Hashed, head, entry, mixed) <= blind + overlapped
      /\ Cardinality(gaps) + Unit(torn) <= faults - blind
  BY DEF IInv, ErrorsPaid, LossesPaid, GapsPaid
<1>3. /\ Breaks \in Nat /\ Cardinality(Hidden) \in Nat /\ Cardinality(gaps) \in Nat
      /\ faults \in Nat /\ blind \in Nat /\ overlapped \in Nat
      /\ Owe(Wrong, Busy, Hashed, head, entry, mixed) \in Nat
      /\ Owe(Short, Busy, Hashed, head, entry, mixed) \in Nat
      /\ Unit(torn) \in {0, 1} /\ Unit(torn') \in {0, 1}
  BY Numbers, UnitType DEF IInv
<1>4. faults' \in Nat /\ blind' \in Nat /\ overlapped' \in Nat
  BY DEF Typed, AuditAssumption
<1>5. IsFiniteSet(Hashed')
  BY FS_Subset DEF AuditAssumption
<1> DEFINE w == Owe(Wrong, Busy', Hashed', head', entry', mixed')
           v == Owe(Short, Busy', Hashed', head', entry', mixed')
<1>6. w \in Nat /\ v \in Nat
  BY <1>5, OweType
<1> HIDE DEF w, v
<1>7. Breaks + w + Unit(torn') <= faults' + overlapped'
  BY <1>2, <1>3, <1>4, <1>6 DEF w
<1>8. Cardinality(Hidden) + v <= blind' + overlapped'
  BY <1>2, <1>3, <1>4, <1>6 DEF v
<1>9. ErrorsPaid' /\ LossesPaid'
  BY <1>1, <1>7, <1>8, PaidNext DEF w, v
<1>10. GapsPaid'
  BY <1>2, <1>3, <1>4 DEF GapsPaid
<1> QED BY <1>9, <1>10 DEF IInv

-----------------------------------------------------------------------------
LEMMA InitIInv == Init /\ AuditAssumption => IInv
<1> SUFFICES ASSUME Init, AuditAssumption PROVE IInv
  OBVIOUS
<1>1. Busy = {} /\ Hashed = {}
  BY DEF Init, Busy, Hashed
<1>2. log \in Seq(Entry) /\ head \in Hash /\ Len(log) = 0
  BY EmptySeq DEF Init, ZeroHash, Hash
<1>3. entry \in [Busy -> Entry]
  BY <1>1 DEF Init
<1>4. Typed
  <2>1. torn \in BOOLEAN
    BY DEF Init
  <2>2. pc \in [Processes -> {"idle", "hashed", "appended", "truncated"}]
    BY DEF Init
  <2>3. faults \in 0 .. MaxFaults /\ blind \in 0 .. faults
    BY DEF Init, AuditAssumption
  <2>4. mixed \subseteq Processes /\ overlapped \in Nat /\ gaps \subseteq 1 .. Len(log) + 1
    BY DEF Init
  <2> QED BY <1>2, <1>3, <2>1, <2>2, <2>3, <2>4 DEF Typed
<1>5. Broken(log) = {} /\ Hidden = {} /\ Wrong = {} /\ Short = {}
  BY <1>2 DEF Broken, Hidden, Init, Wrong, Short
<1>6. Owe({}, {}, {}, head, entry, {}) = 0
  BY DEF Owe, Unit
<1>7. Breaks = 0 /\ Cardinality(Hidden) = 0 /\ Cardinality(gaps) = 0 /\ Unit(torn) = 0
  BY <1>5, FS_EmptySet DEF Breaks, Init, Unit
<1>8. ErrorsPaid /\ LossesPaid /\ GapsPaid
  BY <1>1, <1>5, <1>6, <1>7 DEF Init, ErrorsPaid, LossesPaid, GapsPaid
<1>9. MixedOK
  BY <1>1 DEF Init, MixedOK
<1> QED BY <1>4, <1>8, <1>9 DEF IInv

\* A call ends.
LEMMA LeaveShape ==
  ASSUME IInv, NEW p \in Busy, Leave(p)
  PROVE  /\ pc' \in [Processes -> {"idle", "hashed", "appended", "truncated"}]
         /\ Busy' = Busy \ {p} /\ Hashed' = Hashed \ {p} /\ Hashed' \subseteq Processes
         /\ mixed' = mixed \ {p} /\ mixed' \subseteq Processes
         /\ entry' = [q \in Busy \ {p} |-> entry[q]] /\ entry' \in [Busy' -> Entry]
         /\ overlapped' = overlapped /\ MixedOK'
<1>1. /\ pc' = [pc EXCEPT ![p] = "idle"] /\ entry' = [q \in Busy \ {p} |-> entry[q]]
      /\ mixed' = mixed \ {p} /\ overlapped' = overlapped
  BY DEF Leave
<1>2. /\ pc \in [Processes -> {"idle", "hashed", "appended", "truncated"}]
      /\ mixed \subseteq Processes /\ entry \in [Busy -> Entry] /\ MixedOK
  BY DEF IInv, Typed
<1>3. /\ pc' \in [Processes -> {"idle", "hashed", "appended", "truncated"}]
      /\ Busy' = Busy \ {p} /\ Hashed' = Hashed \ {p} /\ Hashed' \subseteq Processes
  BY <1>1, <1>2 DEF Busy, Hashed
<1>4. entry' \in [Busy' -> Entry]
  BY <1>1, <1>2, <1>3
<1>5. MixedOK'
  BY <1>1, <1>2, <1>3 DEF MixedOK
<1> QED BY <1>1, <1>2, <1>3, <1>4, <1>5

\* What faults may do to their counts.
LEMMA FaultShape ==
  ASSUME Typed, AuditAssumption, NEW n \in {0, 1}, Fault(n)
  PROVE  /\ faults' = faults + 1 /\ blind' = blind + n
         /\ faults' \in 0 .. MaxFaults /\ blind' \in 0 .. faults'
BY DEF Typed, AuditAssumption, Fault

LEMMA SameTorn ==
  ASSUME torn' = torn, blind' - blind \in {0, 1}, faults' - faults = blind' - blind
  PROVE  Unit(torn') <= Unit(torn) + (faults' - faults) - (blind' - blind)
<1> DEFINE d == blind' - blind
           u == Unit(torn)
<1>1. u \in {0, 1} /\ d \in {0, 1} /\ faults' - faults = d /\ Unit(torn') = u
  BY UnitType
<1> HIDE DEF d, u
<1>2. u <= u + d - d
  BY <1>1
<1> QED BY <1>1, <1>2 DEF d, u

LEMMA BeginStep ==
  ASSUME IInv, AuditAssumption, NEW p \in Processes, NEW payload \in Payloads, Begin(p, payload)
  PROVE  IInv'
<1>1. /\ pc[p] = "idle" /\ pc' = [pc EXCEPT ![p] = "hashed"] /\ UNCHANGED <<log, torn, head, gaps>>
      /\ Typed /\ MixedOK
  BY DEF IInv, Begin, files
<1>2. PICK e \in Entry :
        /\ Enter(p, e)
        /\ \/ e.parent = head /\ NoFault
           \/ Fault(1)
  <2>1. ZeroHash \in Hash
    BY EmptySeq DEF ZeroHash, Hash
  <2>2. /\ [parent |-> head, payload |-> payload] \in Entry
        /\ [parent |-> ZeroHash, payload |-> payload] \in Entry
    BY <1>1, <2>1 DEF Typed, Entry
  <2> QED BY <2>2 DEF Begin
<1> DEFINE together == IF Busy = {} THEN {} ELSE Busy \cup {p}
           en2 == [q \in Busy \cup {p} |-> IF q = p THEN e ELSE entry[q]]
<1>3. entry' = en2 /\ mixed' = mixed \cup together
      /\ overlapped' = overlapped + Cardinality(together \ mixed)
  BY <1>2 DEF Enter
<1>4. /\ pc' \in [Processes -> {"idle", "hashed", "appended", "truncated"}] /\ p \notin Busy
      /\ Busy' = Busy \cup {p} /\ Hashed' = Hashed \cup {p} /\ Hashed' \subseteq Processes
  BY <1>1 DEF Typed, Busy, Hashed
<1>5. entry' \in [Busy' -> Entry]
  BY <1>1, <1>3, <1>4 DEF Typed
<1>6. Cardinality(together \ mixed) \in Nat
  <2>1. IsFiniteSet(together \ mixed)
    BY <1>1, Numbers, FS_EmptySet, FS_AddElement, FS_Difference
  <2> QED BY <2>1, FS_CardinalityType
<1>7. overlapped' \in Nat /\ mixed' \subseteq Processes
  BY <1>1, <1>3, <1>4, <1>6 DEF Typed, Busy
<1>8. MixedOK'
  BY <1>1, <1>3, <1>4 DEF MixedOK
<1>9. /\ faults' \in 0 .. MaxFaults /\ blind' \in 0 .. faults' /\ blind' - blind \in {0, 1}
      /\ faults' - faults = blind' - blind
      /\ e.parent # head => blind' - blind = 1
  <2>1. CASE NoFault /\ e.parent = head
    BY <1>1, <2>1 DEF NoFault, Typed, AuditAssumption
  <2>2. CASE Fault(1)
    BY <1>1, <2>2, FaultShape, Numbers
  <2> QED BY <1>2, <2>1, <2>2
<1>10. Typed'
  BY <1>1, <1>4, <1>5, <1>7, <1>9 DEF Typed
<1>11. ASSUME NEW S, Owe(S, Busy, Hashed, head, entry, mixed) \in Nat
       PROVE  Owe(S, Busy', Hashed', head', entry', mixed')
                <= Owe(S, Busy, Hashed, head, entry, mixed) + (overlapped' - overlapped) + (blind' - blind)
  <2> DEFINE owed == Owe(S, Busy, Hashed, head, entry, mixed)
             owed2 == Owe(S, Busy \cup {p}, Hashed \cup {p}, head, en2, mixed \cup together)
             k == Cardinality(together \ mixed)
  <2>1. /\ owed2 <= owed + k + 1
        /\ e.parent = head => owed2 <= owed + k
      <3>1. IsFiniteSet(Busy) /\ Hashed \subseteq Busy
      BY <1>1, Numbers
    <3>2. mixed = Busy \/ (mixed = {} /\ \A a, b \in Busy : a = b)
      BY <1>1 DEF MixedOK
    <3> QED BY ONLY <1>4, <3>1, <3>2, EnterOwes
  <2>2. owed2 = Owe(S, Busy', Hashed', head', entry', mixed')
    BY <1>1, <1>3, <1>4
  <2>3. owed2 \in Nat
    BY <1>1, Numbers, OweType, FS_AddElement
  <2>4. overlapped' - overlapped = k /\ k \in Nat
    BY <1>1, <1>3, <1>6 DEF Typed
  <2> HIDE DEF owed, owed2, k
  <2> DEFINE d == blind' - blind
  <2>5. d \in {0, 1} /\ (e.parent = head \/ d = 1) /\ owed \in Nat
    BY <1>9, <1>11 DEF owed
  <2> HIDE DEF d
  <2>6. owed2 <= owed + k + d
    BY <2>1, <2>3, <2>4, <2>5
  <2> QED BY <2>2, <2>4, <2>6 DEF owed, d
<1>12. Unit(torn') <= Unit(torn) + (faults' - faults) - (blind' - blind)
  BY <1>1, <1>9, SameTorn
<1> QED BY <1>1, <1>4, <1>8, <1>10, <1>11, <1>12, Numbers, Settled

LEMMA TruncateStep ==
  ASSUME IInv, AuditAssumption, NEW p \in Processes, Truncate(p)
  PROVE  IInv'
<1>1. /\ pc[p] = "appended" /\ pc' = [pc EXCEPT ![p] = "truncated"]
      /\ UNCHANGED <<log, torn, gaps, entry, mixed, overlapped, faults, blind>> /\ head' = ZeroHash
      /\ Typed /\ MixedOK
  BY DEF IInv, Truncate, ghosts
<1>2. /\ pc' \in [Processes -> {"idle", "hashed", "appended", "truncated"}]
      /\ Busy' = Busy /\ Hashed' = Hashed /\ Hashed' \subseteq Processes /\ p \in Busy \ Hashed
  BY <1>1 DEF Typed, Busy, Hashed
<1>3. head' \in Hash
  BY <1>1, EmptySeq DEF ZeroHash, Hash
<1>4. Typed' /\ MixedOK'
  BY <1>1, <1>2, <1>3 DEF Typed, MixedOK
<1>5. ASSUME NEW S
      PROVE  Owe(S, Busy', Hashed', head', entry', mixed') = Owe(S, Busy, Hashed, head, entry, mixed)
  BY <1>1, <1>2, TruncateOwes
<1>6. Unit(torn') = Unit(torn) /\ Unit(torn) \in {0, 1}
  BY <1>1, UnitType
<1> QED BY <1>1, <1>2, <1>4, <1>5, <1>6, Numbers, Settled

\* A call ends before its line is written: what is owed does not grow.
LEMMA EarlyStep ==
  ASSUME IInv, AuditAssumption, NEW p \in Processes, pc[p] = "hashed",
         LineFails(p) \/ Crash(p)
  PROVE  IInv'
<1>1. /\ Leave(p) /\ UNCHANGED <<log, head, gaps>> /\ torn' \in {torn, TRUE} /\ Fault(0)
      /\ Typed /\ MixedOK
  BY DEF IInv, LineFails, Crash, NothingLeft, PartLeft
<1>2. p \in Busy /\ p \in Hashed
  BY <1>1 DEF Typed, Busy, Hashed
<1>3. /\ pc' \in [Processes -> {"idle", "hashed", "appended", "truncated"}]
      /\ Busy' = Busy \ {p} /\ Hashed' = Hashed \ {p} /\ Hashed' \subseteq Processes
      /\ mixed' = mixed \ {p} /\ mixed' \subseteq Processes
      /\ entry' = [q \in Busy \ {p} |-> entry[q]] /\ entry' \in [Busy' -> Entry]
      /\ overlapped' = overlapped /\ MixedOK'
  BY <1>1, <1>2, LeaveShape
<1>4. /\ faults' = faults + 1 /\ blind' = blind + 0
      /\ faults' \in 0 .. MaxFaults /\ blind' \in 0 .. faults'
  BY <1>1, FaultShape
<1>5. torn' \in BOOLEAN
  BY <1>1 DEF Typed
<1>6. Typed'
  BY <1>1, <1>3, <1>4, <1>5 DEF Typed
<1>7. ASSUME NEW S
      PROVE  Owe(S, Busy', Hashed', head', entry', mixed') <= Owe(S, Busy, Hashed, head, entry, mixed)
  BY <1>1, <1>2, <1>3, Numbers, LeaveEarly DEF MixedOK
<1>8. /\ overlapped' - overlapped = 0 /\ blind' - blind = 0 /\ faults' - faults = 1
  BY <1>3, <1>4, Numbers, <1>1
<1>9. Unit(torn') <= Unit(torn) + (faults' - faults) - (blind' - blind)
  <2>1. Unit(torn) \in {0, 1} /\ Unit(torn') \in {0, 1}
    BY UnitType
  <2>2. Unit(torn') <= Unit(torn) + 1 - 0
    BY <2>1
  <2>3. blind' - blind = 0 /\ faults' - faults = 1
    BY <1>8
  <2> QED BY ONLY <2>2, <2>3
<1>10. ASSUME NEW S, Owe(S, Busy, Hashed, head, entry, mixed) \in Nat
       PROVE  Owe(S, Busy', Hashed', head', entry', mixed')
                <= Owe(S, Busy, Hashed, head, entry, mixed) + (overlapped' - overlapped) + (blind' - blind)
  <2> DEFINE owed == Owe(S, Busy, Hashed, head, entry, mixed)
             owed2 == Owe(S, Busy', Hashed', head', entry', mixed')
  <2>1. owed2 <= owed /\ owed \in Nat
    BY <1>7, <1>10
  <2>2. owed2 \in Nat
    BY <1>1, <1>3, Numbers, OweType, FS_RemoveElement
  <2> HIDE DEF owed, owed2
  <2>3. owed2 <= owed + 0 + 0
    BY <2>1, <2>2
  <2> QED BY <1>8, <2>3 DEF owed, owed2
<1> QED BY <1>1, <1>3, <1>6, <1>9, <1>10, Numbers, Settled

\* A call ends after its line is written, with the new last hash or without.
LEMMA LateStep ==
  ASSUME IInv, AuditAssumption, NEW p \in Processes, pc[p] \in {"appended", "truncated"},
         WriteHead(p) \/ HeadFails(p) \/ Crash(p)
  PROVE  IInv'
<1>1. /\ Leave(p) /\ UNCHANGED <<log, torn, gaps>> /\ Typed /\ MixedOK
      /\ \/ head' = Trace(entry[p]) /\ NoFault
         \/ head' = head /\ Fault(1)
  BY DEF IInv, WriteHead, HeadFails, Crash, NothingLeft, files
<1>2. p \in Busy \ Hashed
  BY <1>1 DEF Typed, Busy, Hashed
<1>3. /\ pc' \in [Processes -> {"idle", "hashed", "appended", "truncated"}]
      /\ Busy' = Busy \ {p} /\ Hashed' = Hashed \ {p} /\ Hashed' \subseteq Processes
      /\ mixed' = mixed \ {p} /\ mixed' \subseteq Processes
      /\ entry' = [q \in Busy \ {p} |-> entry[q]] /\ entry' \in [Busy' -> Entry]
      /\ overlapped' = overlapped /\ MixedOK'
  BY <1>1, <1>2, LeaveShape
<1>4. Hashed' = Hashed
  BY <1>2, <1>3
<1>5. /\ faults' \in 0 .. MaxFaults /\ blind' \in 0 .. faults' /\ blind' - blind \in {0, 1}
      /\ faults' - faults = blind' - blind
      /\ head' # Trace(entry[p]) => blind' - blind = 1
  <2>1. CASE NoFault /\ head' = Trace(entry[p])
    BY <1>1, <2>1 DEF NoFault, Typed, AuditAssumption
  <2>2. CASE Fault(1)
    BY <1>1, <2>2, FaultShape, Numbers
  <2> QED BY <1>1, <2>1, <2>2
<1>6. head' \in Hash
  <2>1. entry[p].parent \in Hash /\ entry[p].payload \in Payloads
    BY <1>1, <1>2 DEF Typed, Entry
  <2>2. Trace(entry[p]) \in Hash
    BY <2>1, AppendProperties DEF Trace, TraceId, Hash
  <2> QED BY <1>1, <2>2 DEF Typed
<1>7. Typed'
  BY <1>1, <1>3, <1>5, <1>6 DEF Typed
<1>8. ASSUME NEW S, Owe(S, Busy, Hashed, head, entry, mixed) \in Nat
      PROVE  Owe(S, Busy', Hashed', head', entry', mixed')
               <= Owe(S, Busy, Hashed, head, entry, mixed) + (overlapped' - overlapped) + (blind' - blind)
  <2> DEFINE owed == Owe(S, Busy, Hashed, head, entry, mixed)
             owed2 == Owe(S, Busy', Hashed', head', entry', mixed')
  <2>1. owed2 = Owe(S, Busy \ {p}, Hashed, head', [q \in Busy \ {p} |-> entry[q]], mixed \ {p})
    BY <1>3, <1>4
  <2>2. /\ owed2 <= owed + 1
        /\ head' = Trace(entry[p]) => owed2 <= owed
    BY <1>1, <1>2, <2>1, Numbers, LeaveLate DEF MixedOK
  <2>3. owed2 \in Nat
    BY <1>1, <1>4, Numbers, OweType
  <2>4. overlapped' - overlapped = 0
    BY <1>1, <1>3 DEF Typed
  <2> HIDE DEF owed, owed2
  <2> DEFINE d == blind' - blind
  <2>5. d \in {0, 1} /\ (head' = Trace(entry[p]) \/ d = 1) /\ owed \in Nat
    BY <1>5, <1>8 DEF owed
  <2> HIDE DEF d
  <2>6. owed2 <= owed + 0 + d
    BY <2>2, <2>3, <2>5
  <2> QED BY <2>4, <2>6 DEF owed, owed2, d
<1>9. Unit(torn') <= Unit(torn) + (faults' - faults) - (blind' - blind)
  BY <1>1, <1>5, SameTorn
<1> QED BY <1>1, <1>3, <1>7, <1>8, <1>9, Numbers, Settled

-----------------------------------------------------------------------------
(* A line is written.                                                      *)

LEMMA WriteShape ==
  ASSUME IInv, AuditAssumption, NEW p \in Processes, WriteLine(p)
  PROVE  /\ pc' \in [Processes -> {"idle", "hashed", "appended", "truncated"}]
         /\ Busy' = Busy /\ Hashed' = Hashed \ {p} /\ p \in Hashed
         /\ UNCHANGED <<head, entry, mixed, overlapped, faults, blind>> /\ torn' = FALSE
         /\ log' = (IF torn THEN log ELSE Append(log, entry[p]))
         /\ gaps' = (IF torn THEN gaps \cup {Len(log) + 1} ELSE gaps)
         /\ entry[p] \in Entry /\ Trace(entry[p]) \in Hash
         /\ Len(Trace(entry[p])) = Len(entry[p].parent) + 1 /\ Len(entry[p].parent) \in Nat
         /\ Unit(torn') = 0
<1>1. /\ pc[p] = "hashed" /\ pc' = [pc EXCEPT ![p] = "appended"] /\ Typed
      /\ UNCHANGED <<head, entry, mixed, overlapped, faults, blind>> /\ torn' = FALSE
      /\ log' = (IF torn THEN log ELSE Append(log, entry[p]))
      /\ gaps' = (IF torn THEN gaps \cup {Len(log) + 1} ELSE gaps)
  BY DEF IInv, WriteLine
<1>2. /\ pc' \in [Processes -> {"idle", "hashed", "appended", "truncated"}]
      /\ Busy' = Busy /\ Hashed' = Hashed \ {p} /\ p \in Hashed /\ p \in Busy
  BY <1>1 DEF Typed, Busy, Hashed
<1>3. entry[p] \in Entry
  BY <1>1, <1>2 DEF Typed
<1>4. entry[p].parent \in Seq(Payloads) /\ entry[p].payload \in Payloads
  BY <1>3 DEF Entry, Hash
<1>5. /\ Trace(entry[p]) \in Hash /\ Len(Trace(entry[p])) = Len(entry[p].parent) + 1
      /\ Len(entry[p].parent) \in Nat
  BY <1>4, AppendProperties, LenProperties DEF Trace, TraceId, Hash
<1>6. Unit(torn') = 0
  BY <1>1 DEF Unit
<1> QED BY <1>1, <1>2, <1>3, <1>5, <1>6

\* The file ends in part of a line: the entry is lost with it.
LEMMA LostStep ==
  ASSUME IInv, AuditAssumption, NEW p \in Processes, WriteLine(p), torn
  PROVE  IInv'
<1> DEFINE n == Len(log)
           x == entry[p]
<1>1. /\ pc' \in [Processes -> {"idle", "hashed", "appended", "truncated"}]
      /\ Busy' = Busy /\ Hashed' = Hashed \ {p} /\ p \in Hashed
      /\ UNCHANGED <<log, head, entry, mixed, overlapped, faults, blind>> /\ torn' = FALSE
      /\ gaps' = gaps \cup {n + 1}
      /\ x \in Entry /\ Trace(x) \in Hash
      /\ Len(Trace(x)) = Len(x.parent) + 1 /\ Len(x.parent) \in Nat
      /\ Unit(torn') = 0 /\ Unit(torn) = 1 /\ Typed /\ MixedOK
  BY WriteShape DEF IInv, Unit
<1>2. n \in Nat
  BY <1>1, Numbers
<1>3. Typed'
  <2>1. gaps' \subseteq 1 .. Len(log') + 1
    <3>1. gaps \subseteq 1 .. n + 1 /\ gaps' = gaps \cup {n + 1} /\ Len(log') = n
      BY <1>1 DEF Typed
    <3>2. n + 1 \in 1 .. n + 1
      BY <1>2
    <3> QED BY <3>1, <3>2
  <2>2. torn' \in BOOLEAN
    BY <1>1
  <2> QED BY <1>1, <2>1, <2>2 DEF Typed
<1>4. GapsPaid'
  <2>1. IsFiniteSet(gaps) /\ Cardinality(gaps) \in Nat /\ faults \in Nat /\ blind \in Nat
    BY <1>1, Numbers
  <2>2. /\ Cardinality(gaps \cup {n + 1}) =
             IF n + 1 \in gaps THEN Cardinality(gaps) ELSE Cardinality(gaps) + 1
    BY <2>1, FS_AddElement
  <2>3. Cardinality(gaps') <= Cardinality(gaps) + 1 /\ Cardinality(gaps') \in Nat
    BY <1>1, <2>1, <2>2
  <2>4. Cardinality(gaps) + 1 <= faults - blind
    BY <1>1 DEF IInv, GapsPaid
  <2>5. Cardinality(gaps') + 0 <= faults - blind
    BY <2>1, <2>3, <2>4
  <2> QED BY <1>1, <2>5 DEF GapsPaid
<1>5. MixedOK'
  BY <1>1 DEF MixedOK
<1>6. Wrong' = Wrong /\ Breaks' = Breaks /\ Hidden' = Hidden
  <2>1. n + 1 \notin 2 .. n
    BY <1>2
  <2> QED BY <1>1, <2>1 DEF Wrong, Tip, Breaks, Broken, Hidden
<1>7. x.parent \notin Short => Trace(x) \notin Short'
  <2>1. CASE log = <<>>
    BY <1>1, <2>1 DEF Short
  <2>2. CASE log # <<>>
    <3>1. log[n] \in Entry
      <4>1. n \in 1 .. n
        BY <1>1, <1>2, <2>2, EmptySeq DEF Typed
      <4> QED BY <1>1, <4>1, ElementOfSeq DEF Typed
    <3>2. Tip \in Hash
      BY <3>1, AppendProperties DEF Tip, Trace, TraceId, Entry, Hash
    <3>3. Len(Tip) \in Nat /\ Tip' = Tip
      BY <1>1, <3>2, LenProperties DEF Hash, Tip
    <3>4. ASSUME x.parent \notin Short PROVE Trace(x) \notin Short'
      <4>1. x.parent \in Hash
        BY <1>1 DEF Entry
      <4>2. ~(Len(x.parent) < Len(Tip) + Unit(n + 1 \in gaps))
        BY <2>2, <3>4, <4>1 DEF Short
      <4>3. Len(Tip) <= Len(x.parent)
        BY <1>1, <3>3, <4>2, UnitType
      <4>4. ~(Len(Trace(x)) < Len(Tip) + 1)
        BY <1>1, <3>3, <4>3
      <4>5. Unit(Len(log') + 1 \in gaps') = 1
        BY <1>1 DEF Unit
      <4> QED BY <1>1, <3>3, <4>4, <4>5 DEF Short
    <3> QED BY <3>4
  <2> QED BY <2>1, <2>2
<1> DEFINE w == Owe(Wrong, Busy, Hashed, head, entry, mixed)
           v == Owe(Short, Busy, Hashed, head, entry, mixed)
           w2 == Owe(Wrong', Busy', Hashed', head', entry', mixed')
           v2 == Owe(Short', Busy', Hashed', head', entry', mixed')
<1>8. Hashed \subseteq Busy /\ IsFiniteSet(Hashed) /\ (mixed = Busy \/ (mixed = {} /\ \A a, b \in Busy : a = b))
  BY <1>1, Numbers DEF MixedOK
<1>9. w2 <= w + 1
  BY <1>1, <1>8, Numbers, WriteOwes DEF MixedOK
<1>10. v2 <= v
  BY <1>1, <1>7, <1>8, Numbers, WriteOwes DEF MixedOK
<1>11. w2 \in Nat /\ v2 \in Nat
  BY <1>1, Numbers, OweType, FS_RemoveElement
<1>12. /\ Breaks + w + 1 <= faults + overlapped
       /\ Cardinality(Hidden) + v <= blind + overlapped
       /\ Breaks \in Nat /\ Cardinality(Hidden) \in Nat /\ w \in Nat /\ v \in Nat
       /\ faults \in Nat /\ blind \in Nat /\ overlapped \in Nat
  BY <1>1, Numbers DEF IInv, ErrorsPaid, LossesPaid
<1> HIDE DEF w, v, w2, v2
<1>13. Breaks + w2 + 0 <= faults + overlapped /\ Cardinality(Hidden) + v2 <= blind + overlapped
  BY <1>9, <1>10, <1>11, <1>12
<1>14. ErrorsPaid' /\ LossesPaid'
  BY <1>1, <1>6, <1>13, PaidNext DEF w2, v2
<1> QED BY <1>3, <1>4, <1>5, <1>14 DEF IInv

\* The line can be decoded: a bad parent shows, or hides what was lost.
LEMMA AppendStep ==
  ASSUME IInv, AuditAssumption, NEW p \in Processes, WriteLine(p), ~torn
  PROVE  IInv'
<1> DEFINE n == Len(log)
           x == entry[p]
<1>1. /\ pc' \in [Processes -> {"idle", "hashed", "appended", "truncated"}]
      /\ Busy' = Busy /\ Hashed' = Hashed \ {p} /\ p \in Hashed
      /\ UNCHANGED <<gaps, head, entry, mixed, overlapped, faults, blind>> /\ torn' = FALSE
      /\ log' = Append(log, x)
      /\ x \in Entry /\ Trace(x) \in Hash
      /\ Len(Trace(x)) = Len(x.parent) + 1 /\ Len(x.parent) \in Nat
      /\ Unit(torn') = 0 /\ Unit(torn) = 0 /\ Typed /\ MixedOK
  BY WriteShape DEF IInv, Unit
<1>2. n \in Nat
  BY <1>1, Numbers
<1>3. /\ log' \in Seq(Entry) /\ Len(log') = n + 1 /\ log'[n + 1] = x
      /\ \A i \in 1 .. n : log'[i] = log[i]
  BY <1>1, AppendProperties DEF Typed
<1>4. Typed'
  <2>1. gaps' \subseteq 1 .. Len(log') + 1
    <3>1. gaps \subseteq 1 .. n + 1 /\ gaps' = gaps /\ Len(log') = n + 1
      BY <1>1, <1>3 DEF Typed
    <3>2. 1 .. n + 1 \subseteq 1 .. n + 1 + 1
      BY <1>2
    <3> QED BY <3>1, <3>2
  <2>2. torn' \in BOOLEAN
    BY <1>1
  <2> QED BY <1>1, <1>3, <2>1, <2>2 DEF Typed
<1>5. GapsPaid' /\ MixedOK'
  BY <1>1 DEF IInv, GapsPaid, MixedOK
<1>6. log # <<>> <=> n # 0
  BY <1>1, EmptySeq DEF Typed
<1>7. Tip' = Trace(x) /\ Trace(x) \notin Wrong' /\ Trace(x) \notin Short'
  <2>1. Tip' = Trace(x)
    BY <1>3 DEF Tip
  <2>2. Trace(x) \notin Wrong'
    BY <2>1 DEF Wrong
  <2>3. Len(log') + 1 \notin gaps'
    BY <1>1, <1>2, <1>3 DEF Typed
  <2>4. Unit(Len(log') + 1 \in gaps') = 0
    BY <2>3 DEF Unit
  <2>5. ~(Len(Trace(x)) < Len(Tip') + 0)
    BY <1>1, <2>1
  <2> QED BY <2>1, <2>2, <2>4, <2>5 DEF Short
<1>8. Broken(log') = Broken(log) \cup (IF x.parent \in Wrong THEN {n + 1} ELSE {})
  <2>1. x.parent \in Hash
    BY <1>1 DEF Entry
  <2>2. x.parent \in Wrong <=> n # 0 /\ x.parent # Tip
    BY <1>6, <2>1 DEF Wrong
  <2>3. 2 .. n + 1 = (2 .. n) \cup (IF n # 0 THEN {n + 1} ELSE {})
    BY <1>2
  <2>4. \A i \in 2 .. n : log'[i] = log[i] /\ log'[i - 1] = log[i - 1]
    BY <1>2, <1>3
  <2>5. n # 0 => log'[n + 1] = x /\ log'[n + 1 - 1] = log[n]
    BY <1>2, <1>3
  <2> QED BY <1>3, <2>2, <2>3, <2>4, <2>5 DEF Broken, Tip
<1>9. n + 1 \notin Broken(log) /\ n + 1 \notin Hidden
  BY <1>2 DEF Broken, Hidden
<1> DEFINE c == Unit(x.parent \in Wrong)
           d == Unit(x.parent \in Short)
<1>10. Breaks' = Breaks + c
  <2>1. CASE x.parent \in Wrong
    BY <1>8, <1>9, <2>1, OneMore, Numbers, <1>1 DEF Breaks, Unit
  <2>2. CASE x.parent \notin Wrong
    <3>1. Broken(log') = Broken(log) /\ c = 0
      BY <1>8, <2>2 DEF Unit
    <3> QED BY <1>1, <3>1, Numbers DEF Breaks
  <2> QED BY <2>1, <2>2
<1>11. Cardinality(Hidden') <= Cardinality(Hidden) + d
  <2>1. Hidden' \subseteq Hidden \cup {n + 1}
    BY <1>1, <1>2, <1>3, <1>8 DEF Hidden
  <2>2. CASE x.parent \in Short
    <3>1. IsFiniteSet(Hidden \cup {n + 1}) /\ Cardinality(Hidden \cup {n + 1}) = Cardinality(Hidden) + 1
      BY <1>1, <1>9, Numbers, FS_AddElement
    <3>2. Cardinality(Hidden') <= Cardinality(Hidden \cup {n + 1})
      BY <2>1, <3>1, FS_Subset
    <3> QED BY <2>2, <3>1, <3>2 DEF Unit
  <2>3. CASE x.parent \notin Short
    <3>1. n + 1 \notin Hidden'
      <4>1. SUFFICES ASSUME n + 1 \in Hidden' PROVE FALSE
        OBVIOUS
      <4>2. n + 1 \in gaps /\ n # 0 /\ x.parent \notin Wrong
        BY <1>1, <1>2, <1>8, <4>1 DEF Hidden
      <4>3. x.parent \in Hash /\ x.parent = Tip
        BY <1>1, <1>6, <4>2 DEF Wrong, Entry
      <4>4. Unit(n + 1 \in gaps) = 1
        BY <4>2 DEF Unit
      <4>5. Len(x.parent) < Len(Tip) + Unit(n + 1 \in gaps)
        BY <1>1, <4>3, <4>4
      <4> QED BY <1>6, <2>3, <4>2, <4>3, <4>5 DEF Short
    <3>2. Hidden' \subseteq Hidden
      BY <2>1, <3>1
    <3>3. Cardinality(Hidden') <= Cardinality(Hidden) /\ d = 0
      BY <1>1, <2>3, <3>2, Numbers, FS_Subset DEF Unit
    <3> QED BY <1>1, <3>3, Numbers
  <2> QED BY <2>2, <2>3
<1>12. c \in {0, 1} /\ d \in {0, 1}
  BY UnitType
<1> DEFINE w == Owe(Wrong, Busy, Hashed, head, entry, mixed)
           v == Owe(Short, Busy, Hashed, head, entry, mixed)
           w2 == Owe(Wrong', Busy', Hashed', head', entry', mixed')
           v2 == Owe(Short', Busy', Hashed', head', entry', mixed')
<1>13. Hashed \subseteq Busy /\ IsFiniteSet(Hashed)
  BY <1>1, Numbers
<1>14. w2 + c <= w
  BY <1>1, <1>7, <1>13, WriteOwes DEF MixedOK
<1>15. v2 + d <= v
  BY <1>1, <1>7, <1>13, WriteOwes DEF MixedOK
<1>16. w2 \in Nat /\ v2 \in Nat
  BY <1>1, Numbers, OweType, FS_RemoveElement
<1>17. /\ Breaks + w + 0 <= faults + overlapped
       /\ Cardinality(Hidden) + v <= blind + overlapped
       /\ Breaks \in Nat /\ Cardinality(Hidden) \in Nat /\ w \in Nat /\ v \in Nat
       /\ faults \in Nat /\ blind \in Nat /\ overlapped \in Nat
  BY <1>1, Numbers DEF IInv, ErrorsPaid, LossesPaid
<1>18. Cardinality(Hidden') \in Nat
  <2>1. Hidden' \subseteq gaps /\ IsFiniteSet(gaps)
    BY <1>1, Numbers DEF Hidden
  <2> QED BY <2>1, FS_Subset, FS_CardinalityType
<1> HIDE DEF w, v, w2, v2, c, d
<1>19. Breaks' + w2 + 0 <= faults + overlapped /\ Cardinality(Hidden') + v2 <= blind + overlapped
  BY <1>10, <1>11, <1>12, <1>14, <1>15, <1>16, <1>17, <1>18
<1>20. ErrorsPaid' /\ LossesPaid'
  BY <1>1, <1>19, PaidNext DEF w2, v2
<1> QED BY <1>4, <1>5, <1>20 DEF IInv

-----------------------------------------------------------------------------
LEMMA NextIInv ==
  ASSUME AuditAssumption
  PROVE  IInv /\ [Next]_vars => IInv'
<1> SUFFICES ASSUME IInv, [Next]_vars PROVE IInv'
  OBVIOUS
<1>1. CASE UNCHANGED vars
  <2>1. UNCHANGED <<log, torn, head, pc, entry, mixed, overlapped, faults, blind, gaps>>
    BY <1>1 DEF vars, files, ghosts
  <2>2. Busy' = Busy /\ Hashed' = Hashed /\ Wrong' = Wrong /\ Short' = Short /\ Hidden' = Hidden
    BY <2>1 DEF Busy, Hashed, Wrong, Short, Tip, Hidden, Broken
  <2> QED BY <2>1, <2>2 DEF IInv, Typed, GapsPaid, MixedOK, ErrorsPaid, LossesPaid, Breaks, Broken
<1>2. ASSUME NEW p \in Processes, NEW payload \in Payloads, Begin(p, payload) PROVE IInv'
  BY <1>2, BeginStep
<1>3. ASSUME NEW p \in Processes, WriteLine(p) PROVE IInv'
  BY <1>3, LostStep, AppendStep
<1>4. ASSUME NEW p \in Processes, Truncate(p) PROVE IInv'
  BY <1>4, TruncateStep
<1>5. ASSUME NEW p \in Processes, LineFails(p) \/ WriteHead(p) \/ HeadFails(p) \/ Crash(p) PROVE IInv'
  <2>1. pc[p] \in {"hashed", "appended", "truncated"}
    BY <1>5 DEF IInv, Typed, LineFails, WriteHead, HeadFails, Crash
  <2>2. LineFails(p) => pc[p] = "hashed"
    BY DEF LineFails
  <2>3. WriteHead(p) \/ HeadFails(p) => pc[p] \in {"appended", "truncated"}
    BY DEF WriteHead, HeadFails
  <2> QED BY <1>5, <2>1, <2>2, <2>3, EarlyStep, LateStep
<1> QED BY <1>1, <1>2, <1>3, <1>4, <1>5 DEF Next

\* The strengthening holds in every reachable state, for any processes.
LEMMA InvariantHolds == Spec => []IInv
<1>1. Init => IInv
  BY InitIInv, AuditAssumption
<1>2. IInv /\ [Next]_vars => IInv'
  BY NextIInv, AuditAssumption
<1> QED BY <1>1, <1>2, PTL DEF Spec

\* A part that was cut inside a character is at the end, or was written after.
PartIsThere == garbled \in BOOLEAN /\ (garbled => torn \/ gaps # {})

LEMMA PartStays == Spec => []PartIsThere
<1>1. Init => PartIsThere
  BY DEF Init, PartIsThere
<1>2. PartIsThere /\ [Next]_vars => PartIsThere'
  <2> SUFFICES ASSUME PartIsThere, [Next]_vars PROVE PartIsThere'
    OBVIOUS
  <2>1. CASE UNCHANGED vars
    BY <2>1 DEF vars, files, ghosts, PartIsThere
  <2>2. ASSUME NEW p \in Processes, WriteLine(p) PROVE PartIsThere'
    BY <2>2 DEF WriteLine, PartIsThere
  <2>3. ASSUME NEW p \in Processes, LineFails(p) \/ Crash(p) PROVE PartIsThere'
    <3>1. /\ gaps' = gaps
          /\ (torn' = torn /\ garbled' = garbled) \/ (torn' = TRUE /\ garbled' \in {garbled, TRUE})
      BY <2>3 DEF LineFails, Crash, NothingLeft, PartLeft
    <3>2. CASE torn' = torn /\ garbled' = garbled
      BY <3>1, <3>2 DEF PartIsThere
    <3>3. CASE torn' = TRUE /\ garbled' \in {garbled, TRUE}
      BY <3>3 DEF PartIsThere
    <3> QED BY <3>1, <3>2, <3>3
  <2>4. ASSUME NEW p \in Processes,
               \/ \E payload \in Payloads : Begin(p, payload)
               \/ Truncate(p) \/ WriteHead(p) \/ HeadFails(p)
        PROVE  PartIsThere'
    <3>1. gaps' = gaps /\ torn' = torn /\ garbled' = garbled
      BY <2>4 DEF Begin, Truncate, WriteHead, HeadFails, files, ghosts
    <3> QED BY <3>1 DEF PartIsThere
  <2> QED BY <2>1, <2>2, <2>3, <2>4 DEF Next
<1> QED BY <1>1, <1>2, PTL DEF Spec

(* The types, and every entry lost to part of a line, and every such part, *)
(* is due to a fault of its own that is not about the last hash; a file is *)
(* undecodable only because of such a part.                                *)
THEOREM AuditTypeCorrect == Spec => []AuditTypeOK
<1>1. IInv /\ PartIsThere => AuditTypeOK
  BY DEF IInv, Typed, GapsPaid, Unit, AuditTypeOK, PartIsThere, Entry, Hash
<1> QED BY <1>1, InvariantHolds, PartStays, PTL

-----------------------------------------------------------------------------
(* From all lines to those verify_integrity() compares.                    *)

\* What is reported is broken; what is compared and lost is reported or hidden.
LEMMA WindowOfBroken ==
  ASSUME IInv
  PROVE  /\ Errors \in Nat /\ Errors <= Breaks /\ Breaks \in Nat
         /\ garbled \/ Cardinality(gaps \cap Compared(log)) <= Errors + Cardinality(Hidden)
<1> DEFINE lost == gaps \cap Compared(log)
           shown == Mismatches(log)
<1>1. IsFiniteSet(Broken(log)) /\ Breaks \in Nat /\ IsFiniteSet(Hidden) /\ IsFiniteSet(gaps)
  BY Numbers, AuditAssumption DEF IInv
<1>2. shown \subseteq Broken(log) /\ IsFiniteSet(shown)
  BY <1>1, FS_Subset DEF Mismatches
<1>3. Cardinality(shown) \in Nat /\ Cardinality(shown) <= Breaks
  BY <1>1, <1>2, FS_Subset, FS_CardinalityType DEF Breaks
<1>4. Errors = IF garbled THEN 0 ELSE Cardinality(shown)
  BY DEF Errors
<1>5. Errors \in Nat /\ Errors <= Breaks
  BY <1>1, <1>3, <1>4
<1>6. IsFiniteSet(lost) /\ IsFiniteSet(lost \ shown) /\ IsFiniteSet(lost \cap shown)
  <2>1. lost \subseteq gaps /\ lost \ shown \subseteq gaps /\ lost \cap shown \subseteq gaps
    OBVIOUS
  <2> QED BY <1>1, <2>1, FS_Subset
<1>7. Cardinality(lost \ shown) <= Cardinality(Hidden) /\ Cardinality(Hidden) \in Nat
  <2>1. lost \ shown \subseteq Hidden
    BY DEF Hidden, Mismatches, Compared
  <2> QED BY <1>1, <2>1, FS_Subset, FS_CardinalityType
<1>8. Cardinality(lost \cap shown) <= Cardinality(shown)
  BY <1>2, FS_Subset
<1>9. /\ Cardinality(lost \ shown) = Cardinality(lost) - Cardinality(lost \cap shown)
      /\ Cardinality(lost) \in Nat /\ Cardinality(lost \cap shown) \in Nat
  BY <1>2, <1>6, FS_Difference, FS_CardinalityType
<1>10. Cardinality(lost) <= Cardinality(shown) + Cardinality(Hidden)
  BY <1>3, <1>7, <1>8, <1>9
<1> QED BY <1>1, <1>4, <1>5, <1>10

(* verify_integrity() reports no more errors than there were faults and    *)
(* calls that overlapped those of another process: the log of one process  *)
(* that neither crashes nor fails to read or write always verifies.        *)
THEOREM ErrorsAreExplained == Spec => []ErrorsExplained
<1>1. IInv => ErrorsExplained
  <2> SUFFICES ASSUME IInv PROVE Errors <= faults + overlapped
    BY DEF ErrorsExplained
  <2>1. Breaks + Owe(Wrong, Busy, Hashed, head, entry, mixed) + Unit(torn) <= faults + overlapped
    BY DEF IInv, ErrorsPaid
  <2>2. Breaks <= faults + overlapped
    BY <2>1, Numbers, UnitType, AuditAssumption DEF IInv
  <2> QED BY <2>2, WindowOfBroken, Numbers, AuditAssumption DEF IInv
<1> QED BY <1>1, InvariantHolds, PTL

(* An entry lost between two of the last Limit lines shows as an error,    *)
(* unless a wrong last hash or an overlapping call hides it, or a part cut *)
(* inside a character hides the whole file.                                *)
THEOREM LossesShow == Spec => []LossShows
<1>1. IInv => LossShows
  <2> SUFFICES ASSUME IInv, ~garbled
               PROVE  Cardinality(gaps \cap Compared(log)) <= Errors + blind + overlapped
    BY DEF LossShows
  <2>1. Cardinality(Hidden) + Owe(Short, Busy, Hashed, head, entry, mixed) <= blind + overlapped
    BY DEF IInv, LossesPaid
  <2>2. Cardinality(Hidden) <= blind + overlapped
    BY <2>1, Numbers, AuditAssumption DEF IInv
  <2>3. IsFiniteSet(gaps \cap Compared(log))
    BY Numbers, FS_Intersection, AuditAssumption DEF IInv
  <2>4. Cardinality(gaps \cap Compared(log)) \in Nat
    BY <2>3, FS_CardinalityType
  <2> QED BY <2>2, <2>4, WindowOfBroken, Numbers, AuditAssumption DEF IInv
<1> QED BY <1>1, InvariantHolds, PTL

-----------------------------------------------------------------------------
(* One process alone.                                                      *)

OneProcess == \A p, q \in Processes : p = q

NoOverlap == overlapped = 0

\* No call of a single process overlaps another.
LEMMA NothingOverlaps == ASSUME OneProcess PROVE Spec => []NoOverlap
<1>1. Init => NoOverlap
  BY DEF Init, NoOverlap
<1>2. NoOverlap /\ [Next]_vars => NoOverlap'
  <2> SUFFICES ASSUME overlapped = 0, [Next]_vars PROVE overlapped' = 0
    BY DEF NoOverlap
  <2>1. CASE UNCHANGED vars
    BY <2>1 DEF vars, ghosts
  <2>2. ASSUME NEW p \in Processes, NEW e, pc[p] = "idle", Enter(p, e) PROVE overlapped' = 0
    <3>1. Busy = {}
      BY <2>2 DEF Busy, OneProcess
    <3>2. overlapped' = overlapped + Cardinality({} \ mixed)
      BY <2>2, <3>1 DEF Enter
    <3>3. {} \ mixed = {}
      OBVIOUS
    <3> QED BY <3>2, <3>3, FS_EmptySet
  <2>3. CASE Next
    <3>1. PICK p \in Processes :
            \/ \E payload \in Payloads : Begin(p, payload)
            \/ WriteLine(p) \/ LineFails(p) \/ Truncate(p) \/ WriteHead(p) \/ HeadFails(p) \/ Crash(p)
      BY <2>3 DEF Next
    <3>2. CASE \E payload \in Payloads : Begin(p, payload)
      BY <2>2, <3>2 DEF Begin
    <3>3. CASE WriteLine(p) \/ LineFails(p) \/ Truncate(p) \/ WriteHead(p) \/ HeadFails(p) \/ Crash(p)
      BY <3>3
         DEF WriteLine, LineFails, Truncate, WriteHead, HeadFails, Crash, Leave, ghosts
    <3> QED BY <3>1, <3>2, <3>3
  <2> QED BY <2>1, <2>3
<1> QED BY <1>1, <1>2, PTL DEF Spec

(* verify_integrity() reports no more errors in the log of a process alone *)
(* than there were faults, and, of the entries lost between two of the     *)
(* last Limit lines, all but one for each wrong last hash: nothing without *)
(* a fault.  Lines torn between two characters hide no such loss; a line   *)
(* torn inside one hides all of them, and from then on there is no error   *)
(* at all (audit_chain.py:90, 119-120).                                    *)
THEOREM OneProcessVerifies ==
  ASSUME OneProcess
  PROVE  Spec => []( /\ Errors <= faults
                     /\ garbled \/ Cardinality(gaps \cap Compared(log)) <= Errors + blind )
<1> DEFINE Verifies == /\ Errors <= faults
                       /\ garbled \/ Cardinality(gaps \cap Compared(log)) <= Errors + blind
<1>1. ErrorsExplained /\ LossShows /\ IInv /\ NoOverlap => Verifies
  <2> SUFFICES ASSUME ErrorsExplained, LossShows, IInv, overlapped = 0
               PROVE  Verifies
    BY DEF NoOverlap
  <2>1. Errors \in Nat /\ faults \in Nat /\ blind \in Nat
    BY WindowOfBroken, Numbers, AuditAssumption DEF IInv
  <2> QED BY <2>1 DEF ErrorsExplained, LossShows
<1> QED BY <1>1, NothingOverlaps, ErrorsAreExplained, LossesShow, InvariantHolds, PTL
=============================================================================
