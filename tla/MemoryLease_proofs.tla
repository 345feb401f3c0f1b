------------------------- MODULE MemoryLease_proofs -------------------------
(***************************************************************************)
(* What is proved of MemoryLease for any agents, keys, priorities and      *)
(* bounds.  All operations but a grant only fade leases: holder, key and   *)
(* scope stay and nothing that is inactive becomes active again.  A grant  *)
(* adds one lease, after everything it conflicts with has become inactive. *)
(* The negotiator's call counts down the steps it may still take.          *)
(***************************************************************************)
EXTENDS MemoryLease, SequenceTheorems, WellFoundedInduction, TLAPS

\* What happens to leases that are swept, released, replaced or renewed.
Fades(old, new) ==
  /\ new \in Seq(Lease) /\ Len(new) = Len(old)
  /\ \A i \in 1 .. Len(old) :
       /\ new[i].holder = old[i].holder /\ new[i].key = old[i].key /\ new[i].scope = old[i].scope
       /\ new[i].active => old[i].active

\* A lease is inactive for ever once a later one conflicts with it.
Superseded ==
  \A i, j \in 1 .. Len(leases) :
    i < j /\ leases[i].key = leases[j].key /\ Conflict(leases[i].scope, leases[j].scope)
    => ~leases[i].active

\* Leases that ended before their time, all of which were released or replaced.
EndedEarly(ls) == {i \in 1 .. Len(ls) : ls[i].left > 0 /\ ~ls[i].active}
Accounted == EndedEarly(leases) \subseteq released

\* A negotiate call has found a lease where it uses one and nowhere before.
Found ==
  call # NoCall =>
    /\ call.at \in {"look", "acquire", "own", "ownLease", "other", "otherLease"} => call.lease = 0
    /\ call.at \in {"renew", "preempt"} => call.lease # 0

IInv == LeaseTypeOK /\ Superseded /\ Accounted /\ Found

-----------------------------------------------------------------------------
LEMMA LeaseFields ==
  \A l \in Lease : /\ l.holder \in Holders /\ l.key \in Keys /\ l.scope \in Scopes
                   /\ l.left \in 0 .. MaxDuration /\ l.active \in BOOLEAN
BY DEF Lease

\* A sequence built index by index from another one.
LEMMA Rebuilt ==
  ASSUME NEW ls \in Seq(Lease), NEW f, f = [i \in DOMAIN ls |-> f[i]],
         \A i \in 1 .. Len(ls) : f[i] \in Lease
  PROVE  f \in Seq(Lease) /\ Len(f) = Len(ls) /\ DOMAIN f = 1 .. Len(ls)
<1>1. Len(ls) \in Nat /\ DOMAIN ls = 1 .. Len(ls)
  BY LenProperties
<1>2. f \in [1 .. Len(ls) -> Lease]
  BY <1>1
<1>3. f \in Seq(Lease)
  BY <1>1, <1>2, SeqDef
<1> QED BY <1>1, <1>2, <1>3, LenProperties

\* Sweeping ends no lease early.
LEMMA SweptFades ==
  ASSUME NEW ls \in Seq(Lease)
  PROVE  Fades(ls, Swept(ls)) /\ EndedEarly(Swept(ls)) \subseteq EndedEarly(ls)
<1>1. DOMAIN ls = 1 .. Len(ls) /\ \A i \in 1 .. Len(ls) : ls[i] \in Lease
  BY LenProperties, ElementOfSeq
<1>2. ASSUME NEW i \in 1 .. Len(ls)
      PROVE  /\ Swept(ls)[i] \in Lease
             /\ Swept(ls)[i].holder = ls[i].holder /\ Swept(ls)[i].key = ls[i].key
             /\ Swept(ls)[i].scope = ls[i].scope /\ Swept(ls)[i].left = ls[i].left
             /\ Swept(ls)[i].active => ls[i].active
             /\ ls[i].active /\ ls[i].left > 0 => Swept(ls)[i].active
  <2> DEFINE b == ls[i].active /\ ls[i].left > 0
  <2>1. Swept(ls)[i] = [ls[i] EXCEPT !.active = b] /\ b \in BOOLEAN
    BY <1>1 DEF Swept
  <2>2. b => ls[i].active
    OBVIOUS
  <2> HIDE DEF b
  <2>3. ls[i] \in Lease
    BY <1>1
  <2>4. /\ Swept(ls)[i] \in Lease
        /\ Swept(ls)[i].holder = ls[i].holder /\ Swept(ls)[i].key = ls[i].key
        /\ Swept(ls)[i].scope = ls[i].scope /\ Swept(ls)[i].left = ls[i].left
        /\ Swept(ls)[i].active = b
    BY <2>1, <2>3 DEF Lease
  <2> QED BY <2>2, <2>4 DEF b
<1>3. Swept(ls) = [i \in DOMAIN ls |-> Swept(ls)[i]]
  BY DEF Swept
<1>4. Swept(ls) \in Seq(Lease) /\ Len(Swept(ls)) = Len(ls)
  BY <1>2, <1>3, Rebuilt
<1> QED BY <1>2, <1>4 DEF Fades, EndedEarly

\* Dropping leases ends those early that are dropped.
LEMMA DroppedFades ==
  ASSUME NEW ls \in Seq(Lease), NEW S
  PROVE  /\ Fades(ls, Dropped(ls, S)) /\ EndedEarly(Dropped(ls, S)) \subseteq EndedEarly(ls) \cup S
         /\ \A i \in S \cap 1 .. Len(ls) : ~Dropped(ls, S)[i].active
<1>1. DOMAIN ls = 1 .. Len(ls) /\ \A i \in 1 .. Len(ls) : ls[i] \in Lease
  BY LenProperties, ElementOfSeq
<1>2. ASSUME NEW i \in 1 .. Len(ls)
      PROVE  /\ Dropped(ls, S)[i] \in Lease
             /\ Dropped(ls, S)[i].holder = ls[i].holder /\ Dropped(ls, S)[i].key = ls[i].key
             /\ Dropped(ls, S)[i].scope = ls[i].scope /\ Dropped(ls, S)[i].left = ls[i].left
             /\ i \in S => Dropped(ls, S)[i].active = FALSE
             /\ i \notin S => Dropped(ls, S)[i].active = ls[i].active
  <2>1. CASE i \in S
    <3>1. Dropped(ls, S)[i] = [ls[i] EXCEPT !.active = FALSE] /\ ls[i] \in Lease
      BY <1>1, <2>1 DEF Dropped
    <3> QED BY <2>1, <3>1 DEF Lease
  <2>2. CASE i \notin S
    <3>1. Dropped(ls, S)[i] = ls[i] /\ ls[i] \in Lease
      BY <1>1, <2>2 DEF Dropped
    <3> QED BY <2>2, <3>1
  <2> QED BY <2>1, <2>2
<1>3. Dropped(ls, S) = [i \in DOMAIN ls |-> Dropped(ls, S)[i]]
  BY DEF Dropped
<1>4. Dropped(ls, S) \in Seq(Lease) /\ Len(Dropped(ls, S)) = Len(ls)
  BY <1>2, <1>3, Rebuilt
<1> QED BY <1>2, <1>4 DEF Fades, EndedEarly

\* Releasing a lease ends that lease early, if any.
LEMMA ReleasedFades ==
  ASSUME NEW ls \in Seq(Lease), NEW k \in 1 .. Len(ls)
  PROVE  LET new == [ls EXCEPT ![k].active = FALSE] IN
         Fades(ls, new) /\ EndedEarly(new) \subseteq EndedEarly(ls) \cup {k} /\ ~new[k].active
<1> DEFINE e == [ls[k] EXCEPT !.active = FALSE]
           new == [ls EXCEPT ![k] = e]
<1>1. ls[k] \in Lease /\ Len(ls) \in Nat /\ DOMAIN ls = 1 .. Len(ls)
  BY ElementOfSeq, LenProperties
<1>2. /\ e \in Lease /\ e.holder = ls[k].holder /\ e.key = ls[k].key /\ e.scope = ls[k].scope
      /\ e.left = ls[k].left /\ e.active = FALSE
  BY <1>1 DEF Lease
<1>3. [ls EXCEPT ![k].active = FALSE] = new
  BY <1>1
<1> HIDE DEF e
<1>4. /\ new \in Seq(Lease) /\ Len(new) = Len(ls)
      /\ \A j \in 1 .. Len(ls) : new[j] = IF j = k THEN e ELSE ls[j]
  BY <1>2, ExceptSeq
<1> HIDE DEF new
<1>5. Fades(ls, new)
  BY <1>2, <1>4 DEF Fades
<1>6. EndedEarly(new) \subseteq EndedEarly(ls) \cup {k} /\ ~new[k].active
  BY <1>2, <1>4 DEF EndedEarly
<1> QED BY <1>3, <1>5, <1>6

\* Renewing an active lease ends none early.
LEMMA RenewedFades ==
  ASSUME NEW ls \in Seq(Lease), NEW k \in 1 .. Len(ls), ls[k].active, NEW d \in Durations
  PROVE  LET new == [ls EXCEPT ![k].left = d] IN
         Fades(ls, new) /\ EndedEarly(new) \subseteq EndedEarly(ls)
<1> DEFINE e == [ls[k] EXCEPT !.left = d]
           new == [ls EXCEPT ![k] = e]
<1>1. ls[k] \in Lease /\ Len(ls) \in Nat /\ DOMAIN ls = 1 .. Len(ls)
  BY ElementOfSeq, LenProperties
<1>2. /\ e \in Lease /\ e.holder = ls[k].holder /\ e.key = ls[k].key /\ e.scope = ls[k].scope
      /\ e.active = ls[k].active
  <2>1. d \in 0 .. MaxDuration
    BY LeaseAssumption DEF Durations
  <2> QED BY ONLY <1>1, <2>1 DEF Lease
<1>3. [ls EXCEPT ![k].left = d] = new
  BY <1>1
<1> HIDE DEF e
<1>4. /\ new \in Seq(Lease) /\ Len(new) = Len(ls)
      /\ \A j \in 1 .. Len(ls) : new[j] = IF j = k THEN e ELSE ls[j]
  BY <1>2, ExceptSeq
<1> HIDE DEF new
<1>5. Fades(ls, new)
  BY <1>2, <1>4 DEF Fades
<1>6. EndedEarly(new) \subseteq EndedEarly(ls)
  BY <1>2, <1>4 DEF EndedEarly
<1> QED BY <1>3, <1>5, <1>6

\* A tick leaves every lease with as much as it had or less.
LEMMA TickedFades ==
  ASSUME NEW ls \in Seq(Lease)
  PROVE  LET new == [i \in DOMAIN ls |->
                       [ls[i] EXCEPT !.left = IF @ = 0 THEN 0 ELSE @ - 1]] IN
         /\ Fades(ls, new)
         /\ EndedEarly(new) \subseteq EndedEarly(ls) /\ \A i \in EndedEarly(new) : new[i].left > 0
<1> DEFINE new == [i \in DOMAIN ls |-> [ls[i] EXCEPT !.left = IF @ = 0 THEN 0 ELSE @ - 1]]
<1>1. DOMAIN ls = 1 .. Len(ls) /\ \A i \in 1 .. Len(ls) : ls[i] \in Lease
  BY LenProperties, ElementOfSeq
<1>2. ASSUME NEW i \in 1 .. Len(ls)
      PROVE  /\ new[i] \in Lease
             /\ new[i].holder = ls[i].holder /\ new[i].key = ls[i].key
             /\ new[i].scope = ls[i].scope /\ new[i].active = ls[i].active
             /\ new[i].left > 0 => ls[i].left > 0
  <2> DEFINE l == IF ls[i].left = 0 THEN 0 ELSE ls[i].left - 1
  <2>1. new[i] = [ls[i] EXCEPT !.left = l] /\ ls[i] \in Lease
    BY <1>1
  <2>2. l \in 0 .. MaxDuration /\ (l > 0 => ls[i].left > 0)
    BY <2>1, LeaseFields, LeaseAssumption
  <2> HIDE DEF l
  <2> QED BY <2>1, <2>2 DEF Lease
<1>3. new = [i \in DOMAIN ls |-> new[i]]
  OBVIOUS
<1> HIDE DEF new
<1>4. new \in Seq(Lease) /\ Len(new) = Len(ls)
  BY <1>2, <1>3, Rebuilt
<1>5. Fades(ls, new)
  BY <1>2, <1>4 DEF Fades
<1>6. EndedEarly(new) \subseteq EndedEarly(ls) /\ \A i \in EndedEarly(new) : new[i].left > 0
  BY <1>2, <1>4 DEF EndedEarly
<1> QED BY <1>5, <1>6 DEF new

LEMMA FadesComposed ==
  ASSUME NEW a, NEW b, NEW c, Fades(a, b), Fades(b, c)
  PROVE  Fades(a, c)
BY DEF Fades

\* Fading leases stay superseded.
LEMMA FadingSupersedes ==
  ASSUME Superseded, Fades(leases, leases')
  PROVE  Superseded'
BY DEF Superseded, Fades

-----------------------------------------------------------------------------
(* A grant after a sweep: what conflicts with it is inactive, so it is the *)
(* last active lease of its kind.                                          *)
LEMMA AcquireOK ==
  ASSUME leases \in Seq(Lease), Superseded,
         NEW h \in Holders, NEW k \in Keys, NEW s \in Scopes, NEW d \in Durations,
         Acquire(h, k, s, d)
  PROVE  /\ leases' \in Seq(Lease)
         /\ Len(leases') = Len(leases) \/ Len(leases') = Len(leases) + 1
         /\ \A i \in 1 .. Len(leases) : leases'[i].holder = leases[i].holder
         /\ Superseded'
         /\ released \subseteq released' /\ released' \subseteq released \cup 1 .. Len(leases)
         /\ EndedEarly(leases') \subseteq EndedEarly(leases) \cup released'
<1> DEFINE ls == Swept(leases)
           S == Replaced(ls, h, k, s)
           ds == Dropped(ls, S)
           new == [holder |-> h, key |-> k, scope |-> s, left |-> d, active |-> TRUE]
<1>1. Fades(leases, ls) /\ EndedEarly(ls) \subseteq EndedEarly(leases)
  BY SweptFades
<1>2. ls \in Seq(Lease) /\ Len(ls) = Len(leases) /\ Len(leases) \in Nat
  BY <1>1, LenProperties DEF Fades
<1>3. /\ Fades(ls, ds) /\ EndedEarly(ds) \subseteq EndedEarly(ls) \cup S
      /\ \A i \in S \cap 1 .. Len(ls) : ~ds[i].active
  BY <1>2, DroppedFades
<1>4. Fades(leases, ds) /\ ds \in Seq(Lease) /\ Len(ds) = Len(leases)
  BY <1>1, <1>2, <1>3, FadesComposed DEF Fades
<1>5. S \subseteq 1 .. Len(leases)
  BY <1>2, LenProperties DEF Replaced, ActiveOn
<1>6. CASE Grantable(ls, k, s)
  <2>1. leases' = Append(ds, new) /\ released' = released \cup S
    BY <1>6 DEF Acquire, Granted
  <2>2. new \in Lease
    BY LeaseAssumption DEF Lease, Durations
  <2>3. /\ leases' \in Seq(Lease) /\ Len(leases') = Len(leases) + 1
        /\ \A i \in 1 .. Len(leases) : leases'[i] = ds[i]
        /\ leases'[Len(leases) + 1] = new
    <3> HIDE DEF ds, new
    <3>1. /\ Append(ds, new) \in Seq(Lease) /\ Len(Append(ds, new)) = Len(ds) + 1
          /\ \A i \in 1 .. Len(ds) : Append(ds, new)[i] = ds[i]
          /\ Append(ds, new)[Len(ds) + 1] = new
      BY <1>4, <2>2, AppendProperties
    <3> QED BY <1>4, <2>1, <3>1
  <2>4. \A i \in 1 .. Len(leases) : leases'[i].holder = leases[i].holder
    BY <1>4, <2>3 DEF Fades
  <2>5. Superseded'
    <3> SUFFICES ASSUME NEW i \in 1 .. Len(leases'), NEW j \in 1 .. Len(leases'),
                        i < j, leases'[i].key = leases'[j].key,
                        Conflict(leases'[i].scope, leases'[j].scope)
                 PROVE  ~leases'[i].active
      BY DEF Superseded
    <3>1. i \in 1 .. Len(leases)
      BY <1>2, <2>3
    <3>2. CASE j \in 1 .. Len(leases)
      BY <1>4, <2>3, <3>1, <3>2 DEF Superseded, Fades
    <3>3. CASE j = Len(leases) + 1
      <4>1. leases'[j].key = k /\ leases'[j].scope = s
        BY <2>3, <3>3
      <4>2. ls[i].key = k /\ Conflict(s, ls[i].scope)
        BY <1>2, <1>3, <2>3, <3>1, <4>1 DEF Fades, Conflict
      <4>3. ~ls[i].active
        <5> SUFFICES ASSUME ls[i].active PROVE FALSE
          OBVIOUS
        <5>1. i \in ActiveOn(ls, k)
          BY <1>2, <3>1, <4>2, LenProperties DEF ActiveOn
        <5> QED BY <1>6, <4>2, <5>1 DEF Grantable
      <4> QED BY <1>2, <1>3, <2>3, <3>1, <4>3 DEF Fades
    <3> QED BY <1>2, <2>3, <3>2, <3>3
  <2>6. EndedEarly(leases') \subseteq EndedEarly(leases) \cup released'
    <3> SUFFICES ASSUME NEW i \in EndedEarly(leases') PROVE i \in EndedEarly(leases) \cup released'
      OBVIOUS
    <3>1. i \in 1 .. Len(leases') /\ leases'[i].left > 0 /\ ~leases'[i].active
      BY DEF EndedEarly
    <3>2. i # Len(leases) + 1
      BY <2>3, <3>1
    <3>3. i \in EndedEarly(ds)
      BY <1>2, <1>4, <2>3, <3>1, <3>2 DEF EndedEarly
    <3> QED BY <1>1, <1>3, <2>1, <3>3
  <2> QED BY <1>5, <2>1, <2>3, <2>4, <2>5, <2>6
<1>7. CASE ~Grantable(ls, k, s)
  <2>1. leases' = ls /\ released' = released
    BY <1>7 DEF Acquire
  <2> HIDE DEF ls
  <2>2. Fades(leases, leases') /\ EndedEarly(leases') \subseteq EndedEarly(leases)
    BY <1>1, <2>1
  <2>3. Superseded'
    BY <2>2, FadingSupersedes
  <2> QED BY <1>2, <2>1, <2>2, <2>3 DEF Fades
<1> QED BY <1>6, <1>7

-----------------------------------------------------------------------------
LEMMA LeastExists ==
  ASSUME NEW T, T \subseteq Nat, T # {}
  PROVE  \E x \in T : \A y \in T : x <= y
<1> DEFINE R == OpToRel(<, Nat)
<1>1. IsWellFoundedOn(R, Nat)
  BY NatLessThanWellFounded
<1>2. \A y, x \in Nat : <<y, x>> \in R <=> y < x
  BY DEF OpToRel
<1> HIDE DEF R
<1>3. PICK x \in T : \A y \in T : ~ (<<y, x>> \in R)
  BY <1>1, WFMin
<1>4. ASSUME NEW y \in T PROVE x <= y
  <2>1. ~(<<y, x>> \in R) /\ x \in Nat /\ y \in Nat
    BY <1>3
  <2>2. ~(y < x)
    BY <1>2, <2>1
  <2> QED BY <2>1, <2>2
<1> QED BY <1>4

\* get_holder finds a holder where there is an active lease.
LEMMA HolderTyped ==
  ASSUME NEW ls \in Seq(Lease), NEW k
  PROVE  HolderOf(ls, k) \in Holders \cup {"nobody"}
<1> DEFINE on == ActiveOn(ls, k)
           Rank(i) == CASE ls[i].scope = "exclusive" -> 3
                        [] ls[i].scope = "write" -> 2
                        [] OTHER -> 1
           Before(i, j) == Rank(i) > Rank(j) \/ (Rank(i) = Rank(j) /\ i <= j)
           pick == CHOOSE i \in on : \A j \in on : Before(i, j)
           top == {i \in on : \A j \in on : Rank(i) >= Rank(j)}
<1>1. HolderOf(ls, k) = IF on = {} THEN "nobody" ELSE ls[pick].holder
  BY DEF HolderOf
<1>2. on \subseteq 1 .. Len(ls) /\ on \subseteq Nat
  BY LenProperties DEF ActiveOn
<1>3. \A i : Rank(i) \in {1, 2, 3}
  OBVIOUS
<1> HIDE DEF on, Rank
<1>4. ASSUME on # {} PROVE top # {}
  <2>1. CASE \E i \in on : Rank(i) = 3
    BY <1>3, <2>1
  <2>2. CASE (\A i \in on : Rank(i) # 3) /\ (\E i \in on : Rank(i) = 2)
    BY <1>3, <2>2
  <2>3. CASE \A i \in on : Rank(i) # 3 /\ Rank(i) # 2
    BY <1>3, <1>4, <2>3
  <2> QED BY <2>1, <2>2, <2>3
<1>5. ASSUME on # {} PROVE pick \in on
  <2>1. PICK i \in top : \A j \in top : i <= j
    BY <1>2, <1>4, <1>5, LeastExists
  <2>2. \A j \in on : Before(i, j)
    BY <1>3, <2>1
  <2> HIDE DEF Before
  <2> QED BY <2>1, <2>2
<1>6. ASSUME on # {} PROVE ls[pick].holder \in Holders
  BY <1>2, <1>5, <1>6, ElementOfSeq, LeaseFields
<1> QED BY <1>1, <1>6

\* The search finds a negotiated lease of the holder, or nothing.
LEMMA FirstTyped ==
  ASSUME NEW ls \in Seq(Lease), NEW h, FirstNegotiated(ls, h) # 0
  PROVE  /\ FirstNegotiated(ls, h) \in DOMAIN negotiated \cap 1 .. Len(ls)
         /\ ls[FirstNegotiated(ls, h)].holder = h
<1> DEFINE own == {i \in DOMAIN ls : ls[i].active /\ ls[i].holder = h /\ i \in DOMAIN negotiated}
           pick == CHOOSE i \in own : \A j \in own : i <= j
<1>1. FirstNegotiated(ls, h) = IF own = {} THEN 0 ELSE pick
  BY DEF FirstNegotiated
<1>2. own \subseteq DOMAIN negotiated \cap 1 .. Len(ls) /\ \A i \in own : ls[i].holder = h
  BY LenProperties
<1>3. own \subseteq Nat
  BY <1>2, LenProperties
<1> HIDE DEF own
<1>4. own # {} => pick \in own
  BY <1>3, LeastExists
<1> QED BY <1>1, <1>2, <1>4

-----------------------------------------------------------------------------
\* The call in progress, seen from the ledger of leases.
CallOK == call # NoCall /\ call.lease # 0 =>
            call.lease \in DOMAIN negotiated /\ leases[call.lease].holder = call.who

NegotiatedOK ==
  /\ DOMAIN negotiated \subseteq 1 .. Len(leases)
  /\ \A i \in DOMAIN negotiated : negotiated[i] \in Priorities
  /\ pinned \subseteq DOMAIN negotiated

ReleasedOK == released \subseteq 1 .. Len(leases)

LEMMA Parts ==
  IInv <=> /\ leases \in Seq(Lease) /\ call \in Calls \cup {NoCall}
           /\ NegotiatedOK /\ ReleasedOK /\ CallOK
           /\ Superseded /\ Accounted /\ Found
<1>1. leases \in Seq(Lease) => DOMAIN leases = 1 .. Len(leases)
  BY LenProperties
<1> QED BY <1>1 DEF IInv, LeaseTypeOK, NegotiatedOK, ReleasedOK, CallOK

LEMMA PartsNext ==
  ASSUME leases' \in Seq(Lease), call' \in Calls \cup {NoCall},
         NegotiatedOK', ReleasedOK', CallOK', Superseded', Accounted', Found'
  PROVE  IInv'
<1>1. DOMAIN leases' = 1 .. Len(leases')
  BY LenProperties
<1> QED BY <1>1 DEF IInv, LeaseTypeOK, NegotiatedOK, ReleasedOK, CallOK

LEMMA InitIInv == Init => IInv
<1> SUFFICES ASSUME Init PROVE IInv
  OBVIOUS
<1>1. leases \in Seq(Lease) /\ Len(leases) = 0 /\ call = NoCall
  BY EmptySeq DEF Init
<1>2. 1 .. Len(leases) = {}
  BY <1>1
<1>3. DOMAIN negotiated = {}
  BY DEF Init
<1>4. NegotiatedOK /\ ReleasedOK /\ CallOK /\ Superseded /\ Accounted /\ Found
  BY <1>1, <1>2, <1>3
     DEF Init, NegotiatedOK, ReleasedOK, CallOK, Superseded, Accounted, EndedEarly, Found
<1> QED BY <1>1, <1>4, Parts

\* A step that only fades leases and leaves the negotiator alone.
LEMMA FadeStep ==
  ASSUME IInv, Fades(leases, leases'), UNCHANGED <<negotiated, pinned, call>>,
         ReleasedOK', Accounted'
  PROVE  IInv'
<1>1. Superseded'
  BY FadingSupersedes DEF IInv
<1>2. leases' \in Seq(Lease) /\ call' \in Calls \cup {NoCall} /\ NegotiatedOK' /\ Found'
  BY Parts DEF Fades, NegotiatedOK, Found
<1>3. CallOK'
  <2> SUFFICES ASSUME call # NoCall, call.lease # 0
               PROVE  call.lease \in DOMAIN negotiated /\ leases'[call.lease].holder = call.who
    BY DEF CallOK
  <2>1. call.lease \in DOMAIN negotiated /\ leases[call.lease].holder = call.who
    BY Parts DEF CallOK
  <2>2. call.lease \in 1 .. Len(leases)
    BY <2>1, Parts DEF NegotiatedOK
  <2> QED BY <2>1, <2>2 DEF Fades
<1> QED BY <1>1, <1>2, <1>3, PartsNext

\* A step of the negotiator that only fades leases.
LEMMA CallStep ==
  ASSUME IInv, Fades(leases, leases'), EndedEarly(leases') \subseteq EndedEarly(leases),
         UNCHANGED <<negotiated, pinned, released>>,
         call' \in Calls \cup {NoCall}, CallOK', Found'
  PROVE  IInv'
<1>1. Superseded'
  BY FadingSupersedes DEF IInv
<1>2. leases' \in Seq(Lease) /\ NegotiatedOK' /\ ReleasedOK' /\ Accounted'
  BY Parts DEF Fades, NegotiatedOK, ReleasedOK, Accounted
<1> QED BY <1>1, <1>2, PartsNext

\* acquire, called by an agent
LEMMA AgentAcquireStep ==
  ASSUME IInv, NEW h \in Holders, NEW k \in Keys, NEW s \in Scopes, NEW d \in Durations,
         AgentAcquire(h, k, s, d)
  PROVE  IInv'
<1>1. UNCHANGED <<negotiated, pinned, call>> /\ Acquire(h, k, s, d)
  BY DEF AgentAcquire, granted
<1>2. /\ leases \in Seq(Lease) /\ call \in Calls \cup {NoCall}
      /\ NegotiatedOK /\ ReleasedOK /\ CallOK /\ Superseded /\ Accounted /\ Found
  BY Parts
<1>3. /\ leases' \in Seq(Lease)
      /\ Len(leases') = Len(leases) \/ Len(leases') = Len(leases) + 1
      /\ \A i \in 1 .. Len(leases) : leases'[i].holder = leases[i].holder
      /\ Superseded'
      /\ released \subseteq released' /\ released' \subseteq released \cup 1 .. Len(leases)
      /\ EndedEarly(leases') \subseteq EndedEarly(leases) \cup released'
  BY <1>1, <1>2, AcquireOK
<1>4. Len(leases) \in Nat /\ 1 .. Len(leases) \subseteq 1 .. Len(leases')
  BY <1>2, <1>3, LenProperties
<1>5. NegotiatedOK' /\ ReleasedOK' /\ Accounted' /\ Found'
  BY <1>1, <1>2, <1>3, <1>4 DEF NegotiatedOK, ReleasedOK, Accounted, Found
<1>6. CallOK'
  BY <1>1, <1>2, <1>3, <1>4 DEF NegotiatedOK, CallOK
<1> QED BY <1>1, <1>2, <1>3, <1>5, <1>6, PartsNext

\* A lease is released, whoever calls.
LEMMA ReleaseStep ==
  ASSUME IInv, NEW k \in DOMAIN leases, Release(k)
  PROVE  /\ Fades(leases, leases') /\ ReleasedOK' /\ Accounted'
<1>1. leases \in Seq(Lease) /\ k \in 1 .. Len(leases) /\ ReleasedOK /\ Accounted
  BY Parts, LenProperties
<1>2. Fades(leases, leases') /\ EndedEarly(leases') \subseteq EndedEarly(leases) \cup {k}
  BY <1>1, ReleasedFades DEF Release
<1>3. ASSUME ~(leases[k].active /\ leases[k].left > 0)
      PROVE  EndedEarly(leases') \subseteq EndedEarly(leases)
  <2>1. leases[k] \in Lease /\ leases'[k] = [leases[k] EXCEPT !.active = FALSE]
    BY <1>1, LenProperties, ElementOfSeq DEF Release
  <2>2. leases'[k].left = leases[k].left
    BY <2>1 DEF Lease
  <2> QED BY <1>1, <1>2, <1>3, <2>2 DEF EndedEarly
<1>4. released' = IF leases[k].active /\ leases[k].left > 0 THEN released \cup {k} ELSE released
  BY DEF Release
<1> QED BY <1>1, <1>2, <1>3, <1>4 DEF Fades, ReleasedOK, Accounted

\* The other steps of agents and of time.
LEMMA AgentStep ==
  ASSUME IInv,
         \/ \E i \in DOMAIN leases :
              \/ AgentRelease(i) \/ Evict(i) \/ AgentCheck(i)
              \/ \E d \in Durations : AgentRenew(i, d)
         \/ Sweep \/ Tick
  PROVE  IInv'
<1>1. /\ leases \in Seq(Lease) /\ DOMAIN leases = 1 .. Len(leases)
      /\ NegotiatedOK /\ ReleasedOK /\ Accounted
  BY Parts, LenProperties
<1>2. ASSUME NEW i \in DOMAIN leases, AgentRelease(i) \/ Evict(i) PROVE IInv'
  <2>1. Fades(leases, leases') /\ ReleasedOK' /\ Accounted' /\ UNCHANGED <<negotiated, pinned, call>>
    BY <1>2, ReleaseStep DEF AgentRelease, Evict, granted
  <2> QED BY <2>1, FadeStep
<1>3. ASSUME NEW i \in DOMAIN leases, AgentCheck(i) PROVE IInv'
  <2>1. /\ leases' = [leases EXCEPT ![i].active = FALSE] /\ leases[i].left = 0
        /\ UNCHANGED <<negotiated, pinned, call, released>>
    BY <1>3 DEF AgentCheck, granted
  <2>2. Fades(leases, leases') /\ EndedEarly(leases') \subseteq EndedEarly(leases) \cup {i}
    BY <1>1, <2>1, ReleasedFades
  <2>3. leases'[i].left = 0
    BY <1>1, <2>1, ElementOfSeq DEF Lease
  <2>4. i \notin EndedEarly(leases')
    BY <2>3 DEF EndedEarly
  <2>5. ReleasedOK' /\ Accounted'
    BY <1>1, <2>1, <2>2, <2>4 DEF ReleasedOK, Accounted, Fades
  <2> QED BY <2>1, <2>2, <2>5, FadeStep
<1>4. ASSUME NEW i \in DOMAIN leases, NEW d \in Durations, AgentRenew(i, d) PROVE IInv'
  <2>1. Fades(leases, leases') /\ EndedEarly(leases') \subseteq EndedEarly(leases)
    BY <1>1, <1>4, RenewedFades DEF AgentRenew, Renew
  <2>2. UNCHANGED <<negotiated, pinned, call, released>>
    BY <1>4 DEF AgentRenew, granted
  <2>3. ReleasedOK' /\ Accounted'
    BY <1>1, <2>1, <2>2 DEF ReleasedOK, Accounted, Fades
  <2> QED BY <2>1, <2>2, <2>3, FadeStep
<1>5. CASE Sweep
  <2>1. leases' = Swept(leases) /\ UNCHANGED <<negotiated, pinned, call, released>>
    BY <1>5 DEF Sweep, granted
  <2>2. Fades(leases, leases') /\ EndedEarly(leases') \subseteq EndedEarly(leases)
    BY <1>1, <2>1, SweptFades
  <2>3. ReleasedOK' /\ Accounted'
    BY <1>1, <2>1, <2>2 DEF ReleasedOK, Accounted, Fades
  <2> QED BY <2>1, <2>2, <2>3, FadeStep
<1>6. CASE Tick
  <2>1. /\ Fades(leases, leases') /\ EndedEarly(leases') \subseteq EndedEarly(leases)
        /\ \A i \in EndedEarly(leases') : leases'[i].left > 0
    BY <1>1, <1>6, TickedFades DEF Tick
  <2>2. released' = {i \in released : leases'[i].left > 0} /\ UNCHANGED <<negotiated, pinned, call>>
    BY <1>6 DEF Tick, granted
  <2>3. ReleasedOK' /\ Accounted'
    BY <1>1, <2>1, <2>2 DEF ReleasedOK, Accounted, Fades
  <2> QED BY <2>1, <2>2, <2>3, FadeStep
<1> QED BY <1>2, <1>3, <1>4, <1>5, <1>6

-----------------------------------------------------------------------------
\* A call at a place is a call.
LEMMA InCallTyped ==
  ASSUME IInv, call.at # "idle"
  PROVE  call \in Calls /\ call # NoCall
BY Parts DEF NoCall

LEMMA CallFields ==
  \A c \in Calls : /\ c.holder \in Holders /\ c.key \in Keys /\ c.scope \in Scopes
                   /\ c.priority \in Priorities /\ c.rounds \in 1 .. MaxRounds
                   /\ c.who \in Holders \cup {"nobody"} /\ c.lease \in Nat
                   /\ c # NoCall
BY DEF Calls, NoCall

\* Look and FindHolder: the first reads of a round
LEMMA ReadStep ==
  ASSUME IInv, Look \/ FindHolder
  PROVE  IInv'
<1>1. /\ leases \in Seq(Lease) /\ Found
      /\ call.at \in {"look", "own", "other"}
      /\ leases' = Swept(leases) /\ UNCHANGED <<negotiated, pinned, released>>
  BY Parts DEF Look, FindHolder, InCall, granted
<1>2. call \in Calls /\ call # NoCall /\ call.lease = 0
  BY <1>1, InCallTyped DEF Found
<1>3. Fades(leases, leases') /\ EndedEarly(leases') \subseteq EndedEarly(leases)
  BY <1>1, SweptFades
<1>4. PICK h \in Holders \cup {"nobody"},
           a \in {"acquire", "own", "ownLease", "other", "otherLease"} :
         call' = [call EXCEPT !.who = h, !.at = a]
  <2>1. HolderOf(leases', call.key) \in Holders \cup {"nobody"}
    BY <1>1, <1>3, HolderTyped DEF Fades
  <2> DEFINE h == HolderOf(leases', call.key)
  <2>2. CASE Look
    <3> DEFINE a == IF h = "nobody" THEN "acquire" ELSE IF h = call.holder THEN "own" ELSE "other"
    <3>1. call' = [call EXCEPT !.who = h, !.at = a]
      BY <2>2 DEF Look
    <3>2. a \in {"acquire", "own", "ownLease", "other", "otherLease"}
      OBVIOUS
    <3> HIDE DEF h, a
    <3> QED BY <2>1, <3>1, <3>2 DEF h
  <2>3. CASE FindHolder
    <3> DEFINE a == IF call.at = "own" THEN "ownLease" ELSE "otherLease"
    <3>1. call' = [call EXCEPT !.who = h, !.at = a]
      BY <1>2, <2>3 DEF FindHolder
    <3>2. a \in {"acquire", "own", "ownLease", "other", "otherLease"}
      OBVIOUS
    <3> HIDE DEF h, a
    <3> QED BY <2>1, <3>1, <3>2 DEF h
  <2> QED BY <2>2, <2>3
<1>5. call' \in Calls /\ call'.lease = 0
        /\ call'.at \in {"acquire", "own", "ownLease", "other", "otherLease"}
  BY <1>2, <1>4 DEF Calls
<1>6. CallOK' /\ Found'
  BY <1>5 DEF CallOK, Found
<1> QED BY <1>1, <1>3, <1>5, <1>6, CallStep

\* FindLease: the search is over
LEMMA FindLeaseStep ==
  ASSUME IInv, FindLease
  PROVE  IInv'
<1>1. /\ leases \in Seq(Lease) /\ Found /\ NegotiatedOK
      /\ call.at \in {"ownLease", "otherLease"}
      /\ UNCHANGED <<negotiated, pinned, released>>
  BY Parts DEF FindLease, InCall, granted
<1>2. call \in Calls /\ call # NoCall
  BY <1>1, InCallTyped
<1>3. Fades(leases, leases') /\ EndedEarly(leases') \subseteq EndedEarly(leases)
  <2>1. CASE call.who = "nobody"
    <3>1. leases' = leases
      BY <2>1 DEF FindLease
    <3> QED BY <1>1, <3>1 DEF Fades
  <2>2. CASE call.who # "nobody"
    <3>1. leases' = Swept(leases)
      BY <2>2 DEF FindLease
    <3> QED BY <1>1, <3>1, SweptFades
  <2> QED BY <2>1, <2>2
<1> DEFINE i == IF call.who = "nobody" THEN 0 ELSE FirstNegotiated(leases', call.who)
           own == call.at = "ownLease"
           a == IF i = 0 THEN (IF own THEN "other" ELSE "retry")
                ELSE IF own THEN "renew"
                ELSE IF call.priority < negotiated[i] THEN "preempt" ELSE "retry"
<1>4. call' = [call EXCEPT !.lease = i, !.at = a]
  BY <1>2 DEF FindLease
<1>5. i # 0 => i \in DOMAIN negotiated \cap 1 .. Len(leases') /\ leases'[i].holder = call.who
  BY <1>3, FirstTyped DEF Fades
<1>6. i \in Nat
  BY <1>1, <1>5 DEF NegotiatedOK
<1>7. /\ a \in {"other", "retry", "renew", "preempt"}
      /\ a = "other" => i = 0
      /\ a \in {"renew", "preempt"} => i # 0
  OBVIOUS
<1> HIDE DEF i, own, a
<1>8. call' \in Calls /\ call'.lease = i /\ call'.at = a /\ call'.who = call.who
  BY <1>2, <1>4, <1>6, <1>7 DEF Calls
<1>9. CallOK' /\ Found'
  BY <1>1, <1>5, <1>7, <1>8 DEF CallOK, Found
<1> QED BY <1>1, <1>3, <1>8, <1>9, CallStep

\* The lease a call that renews or preempts has found.
LEMMA FoundLease ==
  ASSUME IInv, InCall("renew") \/ InCall("preempt")
  PROVE  call \in Calls /\ call.lease \in DOMAIN negotiated \cap DOMAIN leases
<1>1. call \in Calls /\ call # NoCall
  BY InCallTyped DEF InCall
<1>2. call.lease # 0
  BY <1>1, Parts DEF Found, InCall
<1>3. call.lease \in DOMAIN negotiated
  BY <1>1, <1>2, Parts DEF CallOK
<1>4. DOMAIN leases = 1 .. Len(leases) /\ DOMAIN negotiated \subseteq 1 .. Len(leases)
  BY Parts, LenProperties DEF NegotiatedOK
<1> QED BY <1>1, <1>3, <1>4

\* RenewFound: the call ends
LEMMA RenewFoundStep ==
  ASSUME IInv, NEW d \in Durations, RenewFound(d)
  PROVE  IInv'
<1>1. /\ call \in Calls /\ call.lease \in DOMAIN negotiated \cap DOMAIN leases
      /\ call' = NoCall /\ UNCHANGED <<pinned, released>>
  BY FoundLease DEF RenewFound
<1>2. /\ leases \in Seq(Lease) /\ DOMAIN leases = 1 .. Len(leases)
      /\ NegotiatedOK /\ ReleasedOK /\ Accounted /\ Superseded
  BY Parts, LenProperties
<1>3. CallOK' /\ Found'
  BY <1>1 DEF CallOK, Found
<1>4. CASE leases[call.lease].active
  <2>1. /\ leases' = [leases EXCEPT ![call.lease].left = d]
        /\ negotiated' = [negotiated EXCEPT ![call.lease] = call.priority]
    BY <1>4 DEF RenewFound, Renew
  <2>2. Fades(leases, leases') /\ EndedEarly(leases') \subseteq EndedEarly(leases)
    BY <1>1, <1>2, <1>4, <2>1, RenewedFades
  <2>3. NegotiatedOK'
    BY <1>1, <1>2, <2>1, <2>2, CallFields DEF NegotiatedOK, Fades
  <2>4. ReleasedOK' /\ Accounted' /\ leases' \in Seq(Lease)
    BY <1>1, <1>2, <2>2 DEF ReleasedOK, Accounted, Fades
  <2>5. Superseded'
    BY <1>2, <2>2, FadingSupersedes
  <2> QED BY <1>1, <1>3, <2>3, <2>4, <2>5, PartsNext
<1>5. CASE ~leases[call.lease].active
  <2>1. UNCHANGED <<leases, negotiated, pinned, released>>
    BY <1>1, <1>5 DEF RenewFound
  <2>2. Fades(leases, leases') /\ EndedEarly(leases') \subseteq EndedEarly(leases)
    BY <1>2, <2>1 DEF Fades
  <2> QED BY <1>1, <1>3, <2>1, <2>2, CallStep
<1> QED BY <1>4, <1>5

\* Preempt: the lease found is released
LEMMA PreemptStep ==
  ASSUME IInv, Preempt
  PROVE  IInv'
<1>1. /\ call \in Calls /\ call.lease \in DOMAIN negotiated \cap DOMAIN leases
      /\ UNCHANGED <<negotiated, pinned>> /\ Release(call.lease)
      /\ call' = [call EXCEPT !.at = "replace"]
  BY FoundLease DEF Preempt, granted
<1>2. Fades(leases, leases') /\ ReleasedOK' /\ Accounted'
  BY <1>1, ReleaseStep
<1>3. call' \in Calls /\ call'.lease = call.lease /\ call'.who = call.who /\ call'.at = "replace"
  BY <1>1 DEF Calls
<1>4. Superseded' /\ leases' \in Seq(Lease) /\ NegotiatedOK' /\ Found'
  BY <1>1, <1>2, <1>3, Parts, FadingSupersedes DEF Fades, NegotiatedOK, Found
<1>5. CallOK'
  <2>1. call.lease # 0 => leases[call.lease].holder = call.who
    BY <1>1, Parts, CallFields DEF CallOK
  <2>2. call.lease \in 1 .. Len(leases)
    BY <1>1, Parts, LenProperties
  <2> QED BY <1>1, <1>2, <1>3, <2>1, <2>2 DEF CallOK, Fades
<1> QED BY <1>2, <1>3, <1>4, <1>5, PartsNext

\* AcquireForCall: the call ends with the grant, or with the refusal
LEMMA AcquireForCallStep ==
  ASSUME IInv, NEW d \in Durations, AcquireForCall(d)
  PROVE  IInv'
<1>1. /\ call \in Calls /\ call' = NoCall
      /\ Acquire(call.holder, call.key, call.scope, d)
  BY InCallTyped DEF AcquireForCall, InCall
<1>2. /\ leases \in Seq(Lease) /\ Superseded /\ NegotiatedOK /\ ReleasedOK /\ Accounted
      /\ Len(leases) \in Nat
  BY Parts, LenProperties
<1>3. /\ leases' \in Seq(Lease)
      /\ Len(leases') = Len(leases) \/ Len(leases') = Len(leases) + 1
      /\ Superseded'
      /\ released \subseteq released' /\ released' \subseteq released \cup 1 .. Len(leases)
      /\ EndedEarly(leases') \subseteq EndedEarly(leases) \cup released'
  BY <1>1, <1>2, CallFields, AcquireOK
<1>4. NegotiatedOK'
  <2>1. CASE Len(leases') = Len(leases)
    <3>1. negotiated' = negotiated /\ pinned' = pinned
      BY <2>1 DEF AcquireForCall
    <3> QED BY <1>2, <2>1, <3>1 DEF NegotiatedOK
  <2>2. CASE Len(leases') = Len(leases) + 1
    <3>1. negotiated' = [i \in DOMAIN negotiated \cup {Len(leases')} |->
                           IF i = Len(leases') THEN call.priority ELSE negotiated[i]]
      BY <1>2, <2>2 DEF AcquireForCall
    <3>2. pinned' \subseteq pinned \cup {Len(leases')}
      BY DEF AcquireForCall
    <3> QED BY <1>1, <1>2, <2>2, <3>1, <3>2, CallFields DEF NegotiatedOK
  <2> QED BY <1>3, <2>1, <2>2
<1>5. ReleasedOK' /\ Accounted'
  <2>1. 1 .. Len(leases) \subseteq 1 .. Len(leases')
    BY <1>2, <1>3
  <2> QED BY <1>1, <1>2, <1>3, <2>1 DEF ReleasedOK, Accounted
<1>6. CallOK' /\ Found'
  BY <1>1 DEF CallOK, Found
<1> QED BY <1>1, <1>3, <1>4, <1>5, <1>6, PartsNext

\* Negotiate and Retry: a round begins
LEMMA RoundStep ==
  ASSUME IInv, \/ Retry
               \/ \E h \in Holders, k \in Keys, s \in Scopes, p \in Priorities : Negotiate(h, k, s, p)
  PROVE  IInv'
<1>1. UNCHANGED <<leases, negotiated, pinned, released>> /\ leases \in Seq(Lease)
  BY Parts DEF Retry, Negotiate, granted
<1>2. Fades(leases, leases') /\ EndedEarly(leases') \subseteq EndedEarly(leases)
  BY <1>1 DEF Fades
<1>3. call' = NoCall \/ (call' \in Calls /\ call'.lease = 0 /\ call'.at = "look")
  <2>1. CASE Retry
    <3>1. call \in Calls
      BY <2>1, InCallTyped DEF Retry, InCall
    <3>2. CASE call.rounds < MaxRounds
      <4>1. call' = [call EXCEPT !.at = "look", !.rounds = @ + 1, !.lease = 0]
        BY <2>1, <3>2 DEF Retry
      <4>2. call.rounds + 1 \in 1 .. MaxRounds
        BY <3>1, <3>2, CallFields, LeaseAssumption
      <4> QED BY <3>1, <4>1, <4>2 DEF Calls
    <3>3. CASE ~(call.rounds < MaxRounds)
      BY <2>1, <3>3 DEF Retry
    <3> QED BY <3>2, <3>3
  <2>2. CASE \E h \in Holders, k \in Keys, s \in Scopes, p \in Priorities : Negotiate(h, k, s, p)
    <3>1. 1 \in 1 .. MaxRounds
      BY LeaseAssumption
    <3> QED BY <2>2, <3>1 DEF Negotiate, Calls
  <2> QED BY <2>1, <2>2
<1>4. CallOK' /\ Found' /\ call' \in Calls \cup {NoCall}
  BY <1>3 DEF CallOK, Found
<1> QED BY <1>1, <1>2, <1>4, CallStep

\* PreemptLowest and ReleaseNegotiated, between two calls
LEMMA NegotiatorStep ==
  ASSUME IInv, \/ \E k \in Keys : PreemptLowest(k)
               \/ \E i \in DOMAIN leases : ReleaseNegotiated(i)
  PROVE  IInv'
<1>1. /\ DOMAIN leases = 1 .. Len(leases) /\ Superseded /\ NegotiatedOK
      /\ call = NoCall /\ call' = NoCall
  BY Parts, LenProperties DEF PreemptLowest, ReleaseNegotiated
<1>2. PICK i \in DOMAIN leases :
        /\ Release(i) /\ pinned' \subseteq pinned \ {i}
        /\ negotiated' = [j \in DOMAIN negotiated \ {i} |-> negotiated[j]]
  <2>1. ASSUME NEW k \in Keys, PreemptLowest(k)
        PROVE  \E i \in DOMAIN leases :
                 /\ Release(i) /\ pinned' \subseteq pinned \ {i}
                 /\ negotiated' = [j \in DOMAIN negotiated \ {i} |-> negotiated[j]]
    BY <2>1 DEF PreemptLowest, ActiveOn
  <2> QED BY <2>1 DEF ReleaseNegotiated
<1>3. Fades(leases, leases') /\ ReleasedOK' /\ Accounted'
  BY <1>2, ReleaseStep
<1>4. leases' \in Seq(Lease) /\ Superseded' /\ NegotiatedOK'
  BY <1>1, <1>2, <1>3, FadingSupersedes DEF Fades, NegotiatedOK
<1>5. CallOK' /\ Found'
  BY <1>1 DEF CallOK, Found
<1> QED BY <1>1, <1>3, <1>4, <1>5, PartsNext

\* Pin and MakeCritical, also in the middle of a call
LEMMA ProtectStep ==
  ASSUME IInv, NEW i \in DOMAIN leases, Pin(i) \/ MakeCritical(i)
  PROVE  IInv'
<1>1. /\ leases \in Seq(Lease) /\ call \in Calls \cup {NoCall}
      /\ NegotiatedOK /\ ReleasedOK /\ CallOK /\ Superseded /\ Accounted /\ Found
  BY Parts
<1>2. UNCHANGED <<leases, call, released>> /\ DOMAIN negotiated' = DOMAIN negotiated
  BY DEF Pin, MakeCritical
<1>3. NegotiatedOK'
  <2>1. CASE Pin(i)
    BY <1>1, <1>2, <2>1 DEF Pin, NegotiatedOK
  <2>2. CASE MakeCritical(i)
    <3>1. negotiated' = [negotiated EXCEPT ![i] = 0] /\ pinned' = pinned
      BY <2>2 DEF MakeCritical, Critical
    <3>2. \A j \in DOMAIN negotiated' : negotiated'[j] \in Priorities
      BY <1>1, <3>1, LeaseAssumption DEF NegotiatedOK
    <3> QED BY <1>1, <1>2, <3>1, <3>2 DEF NegotiatedOK
  <2> QED BY <2>1, <2>2
<1>4. ReleasedOK' /\ CallOK' /\ Superseded' /\ Accounted' /\ Found'
  BY <1>1, <1>2 DEF ReleasedOK, CallOK, Superseded, Accounted, EndedEarly, Found
<1> QED BY <1>1, <1>2, <1>3, <1>4, PartsNext

LEMMA NextIInv == IInv /\ [Next]_vars => IInv'
<1> SUFFICES ASSUME IInv, [Next]_vars PROVE IInv'
  OBVIOUS
<1>1. ASSUME NEW h \in Holders, NEW k \in Keys, NEW s \in Scopes, NEW d \in Durations,
             AgentAcquire(h, k, s, d)
      PROVE  IInv'
  BY <1>1, AgentAcquireStep
<1>2. CASE \E h \in Holders, k \in Keys, s \in Scopes, p \in Priorities : Negotiate(h, k, s, p)
  BY <1>2, RoundStep
<1>3. CASE \/ \E i \in DOMAIN leases :
                \/ AgentRelease(i) \/ Evict(i) \/ AgentCheck(i)
                \/ \E d \in Durations : AgentRenew(i, d)
           \/ Sweep \/ Tick
  BY <1>3, AgentStep
<1>4. CASE \/ \E k \in Keys : PreemptLowest(k)
           \/ \E i \in DOMAIN leases : ReleaseNegotiated(i)
  BY <1>4, NegotiatorStep
<1>5. CASE Negotiation
  <2>1. CASE Look \/ FindHolder
    BY <2>1, ReadStep
  <2>2. CASE FindLease
    BY <2>2, FindLeaseStep
  <2>3. CASE \E d \in Durations : RenewFound(d)
    BY <2>3, RenewFoundStep
  <2>4. CASE Preempt
    BY <2>4, PreemptStep
  <2>5. CASE \E d \in Durations : AcquireForCall(d)
    BY <2>5, AcquireForCallStep
  <2>6. CASE Retry
    BY <2>6, RoundStep
  <2> QED BY <1>5, <2>1, <2>2, <2>3, <2>4, <2>5, <2>6 DEF Negotiation
<1>6. CASE UNCHANGED vars
  <2>1. UNCHANGED <<leases, negotiated, pinned, call, released>>
    BY <1>6 DEF vars, granted
  <2>2. Fades(leases, leases') /\ ReleasedOK' /\ Accounted'
    BY <2>1, Parts DEF Fades, ReleasedOK, Accounted
  <2> QED BY <2>1, <2>2, FadeStep
<1>7. CASE \E i \in DOMAIN leases : Pin(i) \/ MakeCritical(i)
  BY <1>7, ProtectStep
<1> QED BY <1>1, <1>2, <1>3, <1>4, <1>5, <1>6, <1>7 DEF Next

LEMMA InvariantHolds == Spec => []IInv
BY InitIInv, NextIInv, PTL DEF Spec

-----------------------------------------------------------------------------
(* Leases, calls and the negotiator's records keep their types, and a call *)
(* holds a negotiated lease of the agent it has seen.                      *)
THEOREM LeaseTypeCorrect == Spec => []LeaseTypeOK
<1>1. IInv => LeaseTypeOK
  BY DEF IInv
<1> QED BY <1>1, InvariantHolds, PTL

(* No interleaving of agents, negotiations, expiry, sweeps and renewals    *)
(* makes two active leases on a key conflict.                              *)
THEOREM LeasesCompatible == Spec => []Compatible
<1>1. IInv => Compatible
  <2> SUFFICES ASSUME IInv, NEW i \in DOMAIN leases, NEW j \in DOMAIN leases,
                      i # j, leases[i].key = leases[j].key,
                      leases[i].active, leases[j].active,
                      Conflict(leases[i].scope, leases[j].scope)
               PROVE  FALSE
    BY DEF Compatible
  <2>1. i \in 1 .. Len(leases) /\ j \in 1 .. Len(leases) /\ Len(leases) \in Nat /\ Superseded
    BY Parts, LenProperties
  <2>2. Conflict(leases[j].scope, leases[i].scope)
    BY DEF Conflict
  <2>3. i < j \/ j < i
    BY <2>1
  <2> QED BY <2>1, <2>2, <2>3 DEF Superseded
<1> QED BY <1>1, InvariantHolds, PTL

(* An agent that lost its key to a conflicting lease before its own ran    *)
(* out replaced it, or it was released: by the agent or by another that    *)
(* knew its id, by the negotiator, the pressure handler or the migration.  *)
(* Nothing else ends a lease that has not run out: no sweep, no renewal    *)
(* and no grant to another agent.                                          *)
THEOREM UsersAreAlone == Spec => []UsersAlone
<1>1. IInv => UsersAlone
  <2> SUFFICES ASSUME IInv, NEW i \in DOMAIN leases, NEW j \in DOMAIN leases,
                      i < j, leases[i].key = leases[j].key,
                      leases[i].left > 0,
                      Conflict(leases[i].scope, leases[j].scope)
               PROVE  i \in released
    BY DEF UsersAlone
  <2>1. i \in 1 .. Len(leases) /\ j \in 1 .. Len(leases) /\ Superseded /\ Accounted
    BY Parts, LenProperties
  <2>2. ~leases[i].active
    BY <2>1 DEF Superseded
  <2>3. i \in EndedEarly(leases)
    BY <2>1, <2>2 DEF EndedEarly
  <2> QED BY <2>1, <2>3 DEF Accounted
<1> QED BY <1>1, InvariantHolds, PTL

-----------------------------------------------------------------------------
(* Steps.                                                                  *)

\* What a step may do to the leases that are there: they can only end.
Kept ==
  \A i \in DOMAIN leases :
    /\ i \in DOMAIN leases'
    /\ leases'[i].holder = leases[i].holder /\ leases'[i].key = leases[i].key
    /\ leases'[i].scope = leases[i].scope
    /\ leases'[i].active => leases[i].active

LEMMA FadingKeeps ==
  ASSUME leases \in Seq(Lease), Fades(leases, leases')
  PROVE  Kept
<1>1. DOMAIN leases = 1 .. Len(leases) /\ DOMAIN leases' = 1 .. Len(leases)
  BY LenProperties DEF Fades
<1> QED BY <1>1 DEF Fades, Kept

LEMMA AcquireKeeps ==
  ASSUME leases \in Seq(Lease), NEW h \in Holders, NEW k \in Keys, NEW s \in Scopes,
         NEW d \in Durations, Acquire(h, k, s, d)
  PROVE  Kept
<1> DEFINE ls == Swept(leases)
           ds == Dropped(ls, Replaced(ls, h, k, s))
           new == [holder |-> h, key |-> k, scope |-> s, left |-> d, active |-> TRUE]
<1>1. Fades(leases, ls)
  BY SweptFades
<1>2. Fades(leases, ds)
  BY <1>1, DroppedFades, FadesComposed DEF Fades
<1>3. CASE Grantable(ls, k, s)
  <2>1. leases' = Append(ds, new) /\ new \in Lease
    BY <1>3, LeaseAssumption DEF Acquire, Granted, Lease, Durations
  <2> HIDE DEF ds, new
  <2>2. ds \in Seq(Lease) /\ Len(ds) = Len(leases) /\ Len(leases) \in Nat
    BY <1>2, LenProperties DEF Fades
  <2>3. /\ leases' \in Seq(Lease) /\ Len(leases') = Len(leases) + 1
        /\ \A i \in 1 .. Len(leases) : leases'[i] = ds[i]
    BY <2>1, <2>2, AppendProperties
  <2>4. DOMAIN leases = 1 .. Len(leases) /\ DOMAIN leases' = 1 .. Len(leases')
    BY <2>3, LenProperties
  <2>5. DOMAIN leases \subseteq DOMAIN leases'
    BY <2>2, <2>3, <2>4
  <2> QED BY <1>2, <2>3, <2>4, <2>5 DEF Fades, Kept
<1>4. CASE ~Grantable(ls, k, s)
  <2>1. leases' = ls
    BY <1>4 DEF Acquire
  <2> QED BY <1>1, <2>1, FadingKeeps
<1> QED BY <1>3, <1>4

\* The steps of the negotiator and of the methods that are no acquire.
LEMMA OtherStepsFade ==
  ASSUME IInv,
         \/ \E i \in DOMAIN leases :
              \/ AgentRelease(i) \/ AgentCheck(i) \/ ReleaseNegotiated(i)
              \/ Evict(i) \/ Pin(i) \/ MakeCritical(i)
              \/ \E d \in Durations : AgentRenew(i, d)
         \/ \E k \in Keys : PreemptLowest(k)
         \/ \E h \in Holders, k \in Keys, s \in Scopes, p \in Priorities : Negotiate(h, k, s, p)
         \/ Sweep \/ Tick \/ Look \/ FindHolder \/ FindLease
         \/ \E d \in Durations : RenewFound(d)
         \/ Preempt \/ Retry \/ UNCHANGED vars
  PROVE  Fades(leases, leases')
<1>0. leases \in Seq(Lease) /\ DOMAIN leases = 1 .. Len(leases)
  BY Parts, LenProperties
<1>1. ASSUME NEW i \in DOMAIN leases, Release(i) PROVE Fades(leases, leases')
  BY <1>0, <1>1, ReleasedFades DEF Release
<1>2. ASSUME NEW i \in DOMAIN leases, NEW d \in Durations, Renew(i, d)
      PROVE  Fades(leases, leases')
  BY <1>0, <1>2, RenewedFades DEF Renew
<1>3. ASSUME leases' = Swept(leases) PROVE Fades(leases, leases')
  BY <1>0, <1>3, SweptFades
<1>4. ASSUME leases' = leases PROVE Fades(leases, leases')
  BY <1>0, <1>4 DEF Fades
<1>5. ASSUME NEW i \in DOMAIN leases,
             \/ AgentRelease(i) \/ AgentCheck(i) \/ ReleaseNegotiated(i)
             \/ Evict(i) \/ Pin(i) \/ MakeCritical(i)
      PROVE  Fades(leases, leases')
  <2>1. CASE AgentRelease(i) \/ ReleaseNegotiated(i) \/ Evict(i)
    BY <1>1, <2>1 DEF AgentRelease, ReleaseNegotiated, Evict
  <2>2. CASE AgentCheck(i)
    BY <1>0, <2>2, ReleasedFades DEF AgentCheck
  <2>3. CASE Pin(i) \/ MakeCritical(i)
    BY <1>4, <2>3 DEF Pin, MakeCritical
  <2> QED BY <1>5, <2>1, <2>2, <2>3
<1>6. ASSUME NEW i \in DOMAIN leases, NEW d \in Durations, AgentRenew(i, d)
      PROVE  Fades(leases, leases')
  BY <1>2, <1>6 DEF AgentRenew
<1>7. ASSUME NEW k \in Keys, PreemptLowest(k) PROVE Fades(leases, leases')
  BY <1>1, <1>7 DEF PreemptLowest, ActiveOn
<1>8. CASE Sweep \/ Look \/ FindHolder
  BY <1>3, <1>8 DEF Sweep, Look, FindHolder
<1>9. CASE FindLease
  BY <1>3, <1>4, <1>9 DEF FindLease
<1>10. CASE Tick
  BY <1>0, <1>10, TickedFades DEF Tick
<1>11. ASSUME NEW d \in Durations, RenewFound(d) PROVE Fades(leases, leases')
  BY <1>2, <1>4, <1>11, FoundLease DEF RenewFound
<1>12. CASE Preempt
  BY <1>1, <1>12, FoundLease DEF Preempt
<1>13. CASE \/ \E h \in Holders, k \in Keys, s \in Scopes, p \in Priorities : Negotiate(h, k, s, p)
            \/ Retry \/ UNCHANGED vars
  BY <1>4, <1>13 DEF Negotiate, Retry, vars
<1> QED BY <1>5, <1>6, <1>7, <1>8, <1>9, <1>10, <1>11, <1>12, <1>13

(* A lease that has ended never comes back, and leases keep their holder,  *)
(* key and scope: neither the renewal of an expired lease nor a negotiate  *)
(* call that found a lease before it ended makes it active again.          *)
THEOREM EndedForGood ==
  Spec => [][\A i \in DOMAIN leases :
               /\ i \in DOMAIN leases'
               /\ leases'[i].holder = leases[i].holder /\ leases'[i].key = leases[i].key
               /\ leases'[i].scope = leases[i].scope
               /\ leases'[i].active => leases[i].active]_vars
<1>1. ASSUME IInv, Next PROVE Kept
  <2>0. leases \in Seq(Lease)
    BY <1>1, Parts
  <2>1. ASSUME NEW h \in Holders, NEW k \in Keys, NEW s \in Scopes, NEW d \in Durations,
               AgentAcquire(h, k, s, d)
        PROVE  Kept
    BY <2>0, <2>1, AcquireKeeps DEF AgentAcquire
  <2>2. ASSUME NEW d \in Durations, AcquireForCall(d) PROVE Kept
    <3>1. call \in Calls /\ Acquire(call.holder, call.key, call.scope, d)
      BY <1>1, <2>2, InCallTyped DEF AcquireForCall, InCall
    <3> QED BY <2>0, <2>2, <3>1, CallFields, AcquireKeeps
  <2> QED BY <1>1, <2>0, <2>1, <2>2, OtherStepsFade, FadingKeeps DEF Next, Negotiation
<1>2. IInv /\ [Next]_vars => [Kept]_vars
  BY <1>1
<1>3. Spec => [][Kept]_vars
  BY <1>2, InvariantHolds, PTL DEF Spec
<1> QED BY <1>3 DEF Kept

-----------------------------------------------------------------------------
(* The negotiate call.                                                     *)

\* Steps to the end of the round, at most.
Place(a) ==
  CASE a = "look" -> 6
    [] a = "own" -> 5
    [] a = "ownLease" -> 4
    [] a = "other" -> 3
    [] a = "otherLease" -> 2
    [] a \in {"acquire", "renew", "preempt", "retry"} -> 1
    [] OTHER -> 0

StepsLeft(rounds, a) == 7 * (MaxRounds - rounds) + Place(a)

Places == {"look", "acquire", "own", "ownLease", "other", "otherLease", "renew", "preempt",
           "replace", "retry"}

LEMMA PlaceRange == \A a \in Places : Place(a) \in 0 .. 6
BY DEF Place, Places

\* What the reads of a round do to the call.
LEMMA ReadGoesOn ==
  ASSUME call \in Calls, Look \/ FindHolder
  PROVE  \E h : \E a \in {"acquire", "own", "ownLease", "other", "otherLease"} :
           /\ call' = [call EXCEPT !.who = h, !.at = a]
           /\ Place(a) < Place(call.at)
<1> DEFINE h == HolderOf(leases', call.key)
<1>1. CASE Look
  <2> DEFINE a == IF h = "nobody" THEN "acquire" ELSE IF h = call.holder THEN "own" ELSE "other"
  <2>1. call' = [call EXCEPT !.who = h, !.at = a] /\ call.at = "look"
    BY <1>1 DEF Look, InCall
  <2>2. a \in {"acquire", "own", "other"}
    OBVIOUS
  <2> HIDE DEF h, a
  <2>3. Place(a) < Place(call.at)
    BY <2>1, <2>2 DEF Place
  <2> QED BY <2>1, <2>2, <2>3
<1>2. CASE FindHolder
  <2> DEFINE a == IF call.at = "own" THEN "ownLease" ELSE "otherLease"
  <2>1. call' = [call EXCEPT !.who = h, !.at = a] /\ call.at \in {"own", "other"}
    BY <1>2 DEF FindHolder, InCall
  <2>2. a \in {"ownLease", "otherLease"} /\ Place(a) < Place(call.at)
    BY <2>1 DEF Place
  <2> HIDE DEF h, a
  <2> QED BY <2>1, <2>2
<1> QED BY <1>1, <1>2

LEMMA SearchGoesOn ==
  ASSUME call \in Calls, FindLease
  PROVE  \E i : \E a \in {"other", "retry", "renew", "preempt"} :
           /\ call' = [call EXCEPT !.lease = i, !.at = a]
           /\ Place(a) < Place(call.at)
<1> DEFINE i == IF call.who = "nobody" THEN 0 ELSE FirstNegotiated(leases', call.who)
           own == call.at = "ownLease"
           a == IF i = 0 THEN (IF own THEN "other" ELSE "retry")
                ELSE IF own THEN "renew"
                ELSE IF call.priority < negotiated[i] THEN "preempt" ELSE "retry"
<1>1. call' = [call EXCEPT !.lease = i, !.at = a] /\ call.at \in {"ownLease", "otherLease"}
  BY DEF FindLease, InCall
<1>2. a \in {"retry", "renew", "preempt"} \/ (a = "other" /\ call.at = "ownLease")
  OBVIOUS
<1> HIDE DEF i, own, a
<1>3. Place(a) < Place(call.at)
  BY <1>1, <1>2 DEF Place
<1> QED BY <1>1, <1>2, <1>3

\* A step of the call ends it, goes on in the round, or begins the next one.
LEMMA NegotiationStep ==
  ASSUME IInv, Negotiation
  PROVE  /\ call \in Calls
         /\ \/ call' = NoCall
            \/ call'.rounds = call.rounds /\ call'.at \in Places /\ Place(call'.at) < Place(call.at)
            \/ /\ call.rounds < MaxRounds /\ call'.rounds = call.rounds + 1
               /\ call.at = "retry" /\ call'.at = "look"
<1>0. call \in Calls
  <2>1. call.at # "idle"
    BY DEF Negotiation, Look, FindHolder, FindLease, RenewFound, Preempt, AcquireForCall, Retry, InCall
  <2> QED BY <2>1, InCallTyped
<1>1. CASE Look \/ FindHolder
  <2>1. PICK h : \E a \in {"acquire", "own", "ownLease", "other", "otherLease"} :
          call' = [call EXCEPT !.who = h, !.at = a] /\ Place(a) < Place(call.at)
    BY <1>0, <1>1, ReadGoesOn
  <2>2. PICK a \in {"acquire", "own", "ownLease", "other", "otherLease"} :
          call' = [call EXCEPT !.who = h, !.at = a] /\ Place(a) < Place(call.at)
    BY <2>1
  <2>3. call'.rounds = call.rounds /\ call'.at = a
    BY <1>0, <2>2 DEF Calls
  <2> QED BY <1>0, <2>2, <2>3 DEF Places
<1>2. CASE FindLease
  <2>1. PICK i : \E a \in {"other", "retry", "renew", "preempt"} :
          call' = [call EXCEPT !.lease = i, !.at = a] /\ Place(a) < Place(call.at)
    BY <1>0, <1>2, SearchGoesOn
  <2>2. PICK a \in {"other", "retry", "renew", "preempt"} :
          call' = [call EXCEPT !.lease = i, !.at = a] /\ Place(a) < Place(call.at)
    BY <2>1
  <2>3. call'.rounds = call.rounds /\ call'.at = a
    BY <1>0, <2>2 DEF Calls
  <2> QED BY <1>0, <2>2, <2>3 DEF Places
<1>3. CASE (\E d \in Durations : RenewFound(d)) \/ (\E d \in Durations : AcquireForCall(d))
  BY <1>0, <1>3 DEF RenewFound, AcquireForCall
<1>4. CASE Preempt
  BY <1>0, <1>4 DEF Preempt, InCall, Calls, Place, Places
<1>5. CASE Retry
  BY <1>0, <1>5 DEF Retry, InCall, Calls
<1> QED BY <1>1, <1>2, <1>3, <1>4, <1>5 DEF Negotiation

(* negotiate ends: each of its steps ends it or leaves fewer to take, and  *)
(* no step of an agent, of another method or of the clock changes where it *)
(* is, so it asks the manager at most 7 * max_rounds times.                *)
THEOREM NegotiationIsBounded ==
  Spec => [][call # NoCall =>
               /\ StepsLeft(call.rounds, call.at) \in 0 .. 7 * MaxRounds - 1
               /\ IF Negotiation
                  THEN call' = NoCall
                       \/ StepsLeft(call'.rounds, call'.at) < StepsLeft(call.rounds, call.at)
                  ELSE call' = call]_vars
<1> DEFINE Bound ==
      call # NoCall =>
        /\ StepsLeft(call.rounds, call.at) \in 0 .. 7 * MaxRounds - 1
        /\ IF Negotiation
           THEN call' = NoCall
                \/ StepsLeft(call'.rounds, call'.at) < StepsLeft(call.rounds, call.at)
           ELSE call' = call
<1>1. ASSUME IInv, Next PROVE Bound
  <2> SUFFICES ASSUME call # NoCall PROVE Bound
    OBVIOUS
  <2>1. call \in Calls /\ call.at \in Places /\ call.rounds \in 1 .. MaxRounds /\ MaxRounds \in Nat
    BY <1>1, Parts, CallFields, LeaseAssumption DEF Calls, Places
  <2>2. PICK n \in 1 .. MaxRounds, p \in 0 .. 6 : n = call.rounds /\ p = Place(call.at)
    BY <2>1, PlaceRange
  <2>3. StepsLeft(call.rounds, call.at) = 7 * (MaxRounds - n) + p
    BY <2>2 DEF StepsLeft
  <2>4. 7 * (MaxRounds - n) + p \in 0 .. 7 * MaxRounds - 1
    BY <2>1
  <2>5. CASE Negotiation
    <3>1. CASE call' = NoCall
      BY <2>3, <2>4, <2>5, <3>1
    <3>2. CASE call'.rounds = call.rounds /\ call'.at \in Places /\ Place(call'.at) < Place(call.at)
      <4>1. PICK q \in 0 .. 6 : q = Place(call'.at)
        BY <3>2, PlaceRange
      <4>2. q < p
        BY <2>2, <3>2, <4>1
      <4>3. StepsLeft(call'.rounds, call'.at) = 7 * (MaxRounds - n) + q
        BY <2>2, <3>2, <4>1 DEF StepsLeft
      <4>4. 7 * (MaxRounds - n) + q < 7 * (MaxRounds - n) + p
        BY <2>1, <4>2
      <4> QED BY <2>3, <2>4, <2>5, <4>3, <4>4
    <3>3. CASE /\ call.rounds < MaxRounds /\ call'.rounds = call.rounds + 1
               /\ call.at = "retry" /\ call'.at = "look"
      <4>1. p = 1 /\ Place(call'.at) = 6
        BY <2>2, <3>3 DEF Place
      <4>2. StepsLeft(call'.rounds, call'.at) = 7 * (MaxRounds - (n + 1)) + 6
        BY <2>2, <3>3, <4>1 DEF StepsLeft
      <4>3. 7 * (MaxRounds - (n + 1)) + 6 < 7 * (MaxRounds - n) + 1
        BY <2>1
      <4> QED BY <2>3, <2>4, <2>5, <4>1, <4>2, <4>3
    <3> QED BY <1>1, <2>5, <3>1, <3>2, <3>3, NegotiationStep
  <2>6. CASE ~Negotiation
    <3>1. call' = call
      BY <1>1, <2>6 DEF Next, AgentAcquire, Negotiate, AgentRelease, AgentCheck, ReleaseNegotiated,
                        Evict, Pin, MakeCritical, AgentRenew, PreemptLowest, Sweep, Tick
    <3> QED BY <2>3, <2>4, <2>6, <3>1
  <2> QED BY <2>5, <2>6
<1> HIDE DEF Bound
<1>2. Spec => [][Bound]_vars
  BY <1>1, InvariantHolds, PTL DEF Spec
<1> QED BY <1>2 DEF Bound
=============================================================================
