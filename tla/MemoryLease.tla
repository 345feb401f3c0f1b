---------------------------- MODULE MemoryLease ----------------------------
(***************************************************************************)
(* Leases on memory keys: LeaseManager of hlf_mcp/hlf/knowledge/           *)
(* memory_lease.py, whose methods each hold its lock, used by agents and   *)
(* by the LeaseNegotiator of hlf_mcp/hlf/memory_lease_hardening.py, which  *)
(* makes several calls under a lock of its own.  MemoryPressureHandler and *)
(* LeaseMigration of that module release leases of whoever holds them, and *)
(* change what the negotiator knows of a lease without its lock.  A lease  *)
(* that has run out stays active until a method sweeps it.                 *)
(***************************************************************************)
EXTENDS Integers, Sequences, FiniteSets

CONSTANTS
  Holders,      \* agents
  Keys,         \* memory keys
  Priorities,   \* priorities, smaller ones preempt larger ones: 0 is CRITICAL
  MaxRounds,    \* max_rounds of negotiate
  MaxDuration,  \* bound: the longest duration, in ticks
  MaxLeases     \* bound: leases ever granted

ASSUME LeaseAssumption ==
  /\ Priorities \subseteq Nat /\ 0 \in Priorities
  /\ MaxRounds \in Nat \ {0} /\ MaxDuration \in Nat \ {0} /\ MaxLeases \in Nat

VARIABLES
  leases,      \* _leases in the order in which they were granted
  negotiated,  \* _negotiated: the priority of the leases it has granted
  pinned,      \* of these leases, those that are pinned
  call,        \* the negotiate call that holds the negotiator's lock
  released     \* leases released, or replaced by their holder, before they ran out

granted == <<negotiated, pinned>>
vars == <<leases, granted, call, released>>

Critical == 0

Scopes == {"read", "write", "exclusive"}
Lease == [holder : Holders, key : Keys, scope : Scopes,
          left : 0 .. MaxDuration,   \* expires_at - now, 0 when it has expired
          active : BOOLEAN]

Calls == [at : {"look", "acquire", "own", "ownLease", "other", "otherLease", "renew", "preempt",
                "replace", "retry"},
          holder : Holders, key : Keys, scope : Scopes, priority : Priorities,
          rounds : 1 .. MaxRounds,
          who : Holders \cup {"nobody"},   \* what get_holder returned last
          lease : Nat]                     \* what _find_negotiated_for_key found

NoCall == [at |-> "idle"]

Init ==
  /\ leases = <<>> /\ negotiated = <<>> /\ pinned = {} /\ call = NoCall
  /\ released = {}

-----------------------------------------------------------------------------
Conflict(s, t) == s = "exclusive" \/ t = "exclusive" \/ (s = "write" /\ t = "write")

\* Mutation: a lease expires a tick early.
SweptEarly(ls) == [i \in DOMAIN ls |-> [ls[i] EXCEPT !.active = @ /\ ls[i].left > 1]]

\* _expire_internal
Swept(ls) == [i \in DOMAIN ls |-> [ls[i] EXCEPT !.active = @ /\ ls[i].left > 0]]

ActiveOn(ls, k) == {i \in DOMAIN ls : ls[i].active /\ ls[i].key = k}

Dropped(ls, S) == [i \in DOMAIN ls |-> IF i \in S THEN [ls[i] EXCEPT !.active = FALSE] ELSE ls[i]]

\* acquire does not raise.
Grantable(ls, k, s) == \A i \in ActiveOn(ls, k) : ~Conflict(s, ls[i].scope)

\* The leases of h that its new one replaces: those for reading.
Replaced(ls, h, k, s) ==
  IF s = "read" THEN {} ELSE {i \in ActiveOn(ls, k) : ls[i].holder = h}

Granted(ls, h, k, s, d) ==
  Append(Dropped(ls, Replaced(ls, h, k, s)),
         [holder |-> h, key |-> k, scope |-> s, left |-> d, active |-> TRUE])

\* acquire, also when it raises
Acquire(h, k, s, d) ==
  /\ LET ls == Swept(leases) IN
     IF Grantable(ls, k, s)
     THEN /\ leases' = Granted(ls, h, k, s, d)
          /\ released' = released \cup Replaced(ls, h, k, s)
     ELSE leases' = ls /\ UNCHANGED released

\* Mutation: the flag is not looked at.
RenewAny(i, d) == leases' = [leases EXCEPT ![i].left = d, ![i].active = TRUE]

\* Mutation: the duration is added to what is left.
RenewAdds(i, d) == leases[i].active /\ leases' = [leases EXCEPT ![i].left = @ + d]

\* renew, which looks at the flag and not at the time
Renew(i, d) == leases[i].active /\ leases' = [leases EXCEPT ![i].left = d]

\* release takes any id: the caller may be the holder or another.
Release(i) ==
  /\ leases' = [leases EXCEPT ![i].active = FALSE]
  /\ released' = IF leases[i].active /\ leases[i].left > 0 THEN released \cup {i} ELSE released

\* get_holder: the holder of the first of the most restrictive leases on k
HolderOf(ls, k) ==
  LET on == ActiveOn(ls, k)
      Rank(i) == CASE ls[i].scope = "exclusive" -> 3
                   [] ls[i].scope = "write" -> 2
                   [] OTHER -> 1
      Before(i, j) == Rank(i) > Rank(j) \/ (Rank(i) = Rank(j) /\ i <= j)
  IN IF on = {} THEN "nobody"
     ELSE ls[CHOOSE i \in on : \A j \in on : Before(i, j)].holder

(* The lease _find_negotiated_for_key finds for a holder: the first of its *)
(* active ones that was negotiated, on whatever key; 0 is None.            *)
FirstNegotiated(ls, h) ==
  LET own == {i \in DOMAIN ls : ls[i].active /\ ls[i].holder = h /\ i \in DOMAIN negotiated}
  IN IF own = {} THEN 0 ELSE CHOOSE i \in own : \A j \in own : i <= j

-----------------------------------------------------------------------------
\* The calls of agents that use the manager directly.
Durations == 1 .. MaxDuration

\* A call of the negotiator grants one lease at most.
Room == Len(leases) + (IF call = NoCall THEN 0 ELSE 1) < MaxLeases

AgentAcquire(h, k, s, d) == Room /\ Acquire(h, k, s, d) /\ UNCHANGED <<granted, call>>

AgentRelease(i) ==
  /\ leases[i].active
  /\ Release(i)
  /\ UNCHANGED <<granted, call>>

\* The duration is at least 1.
AgentRenew(i, d) == Renew(i, d) /\ UNCHANGED <<granted, call, released>>

(* evict_under_pressure and demote_cold, which hold no lock: a lease either *)
(* found active is released when its turn comes.  demote_cold looks at the *)
(* accesses alone, so any lease may be released, a pinned one too.         *)
Evict(i) ==
  /\ leases[i].active
  /\ Release(i)
  /\ UNCHANGED <<granted, call>>

\* check
AgentCheck(i) ==
  /\ leases[i].active /\ leases[i].left = 0
  /\ leases' = [leases EXCEPT ![i].active = FALSE]
  /\ UNCHANGED <<granted, call, released>>

\* expire_stale, is_held, get_holder and list_active
Sweep ==
  /\ Swept(leases) # leases
  /\ leases' = Swept(leases)
  /\ UNCHANGED <<granted, call, released>>

Tick ==
  /\ \E i \in DOMAIN leases : leases[i].left > 0
  /\ leases' = [i \in DOMAIN leases |->
       [leases[i] EXCEPT !.left = IF @ = 0 THEN 0 ELSE @ - 1]]
  /\ released' = {i \in released : leases'[i].left > 0}
  /\ UNCHANGED <<granted, call>>

-----------------------------------------------------------------------------
InCall(place) == call.at = place

\* negotiate takes the negotiator's lock.
Negotiate(h, k, s, p) ==
  /\ call = NoCall /\ Room
  /\ call' = [at |-> "look", holder |-> h, key |-> k, scope |-> s, priority |-> p,
              rounds |-> 1, who |-> "nobody", lease |-> 0]
  /\ UNCHANGED <<leases, granted, released>>

\* Is the key held?
Look ==
  /\ InCall("look")
  /\ leases' = Swept(leases)
  /\ LET h == HolderOf(leases', call.key) IN
     call' = [call EXCEPT !.who = h, !.at = IF h = "nobody" THEN "acquire"
                                            ELSE IF h = call.holder THEN "own" ELSE "other"]
  /\ UNCHANGED <<granted, released>>

\* _find_negotiated_for_key, its first call of the manager
FindHolder ==
  /\ InCall("own") \/ InCall("other")
  /\ leases' = Swept(leases)
  /\ call' = [call EXCEPT !.who = HolderOf(leases', call.key),
                          !.at = IF @ = "own" THEN "ownLease" ELSE "otherLease"]
  /\ UNCHANGED <<granted, released>>

\* and its second; what is found is renewed, or preempted for a higher priority.
FindLease ==
  /\ InCall("ownLease") \/ InCall("otherLease")
  /\ leases' = IF call.who = "nobody" THEN leases ELSE Swept(leases)
  /\ LET i == IF call.who = "nobody" THEN 0 ELSE FirstNegotiated(leases', call.who)
         own == call.at = "ownLease" IN
     call' = [call EXCEPT !.lease = i,
       !.at = IF i = 0 THEN (IF own THEN "other" ELSE "retry")
              ELSE IF own THEN "renew"
              ELSE IF call.priority < negotiated[i] THEN "preempt" ELSE "retry"]
  /\ UNCHANGED <<granted, released>>

\* The lease found is renewed with the priority of this call, or renew raises.
RenewFound(d) ==
  /\ InCall("renew")
  /\ IF leases[call.lease].active
     THEN /\ Renew(call.lease, d)
          /\ negotiated' = [negotiated EXCEPT ![call.lease] = call.priority]
     ELSE UNCHANGED <<leases, negotiated>>
  /\ call' = NoCall
  /\ UNCHANGED <<pinned, released>>

\* The lease found is released, whatever has happened to it since.
Preempt ==
  /\ InCall("preempt")
  /\ Release(call.lease)
  /\ call' = [call EXCEPT !.at = "replace"]
  /\ UNCHANGED granted

(* A free key, or one whose lease was preempted, is acquired, pinned if the *)
(* call asks for it, or acquire raises.                                     *)
AcquireForCall(d) ==
  /\ InCall("acquire") \/ InCall("replace")
  /\ Acquire(call.holder, call.key, call.scope, d)
  /\ negotiated' = IF Len(leases') = Len(leases) THEN negotiated
       ELSE [i \in DOMAIN negotiated \cup {Len(leases')} |->
               IF i = Len(leases') THEN call.priority ELSE negotiated[i]]
  /\ pinned' = pinned \/ (Len(leases') # Len(leases) /\ pinned' = pinned \cup {Len(leases')})
  /\ call' = NoCall

\* negotiate sleeps and tries again, or gives up.
Retry ==
  /\ InCall("retry")
  /\ call' = IF call.rounds < MaxRounds
             THEN [call EXCEPT !.at = "look", !.rounds = @ + 1, !.lease = 0]
             ELSE NoCall
  /\ UNCHANGED <<leases, granted, released>>

(* preempt_lowest: of the live leases on k that are not pinned, the first  *)
(* of the largest priority number is preempted.                            *)
PreemptLowest(k) ==
  /\ call = NoCall
  /\ LET live == {i \in DOMAIN negotiated \ pinned :
                    i \in ActiveOn(leases, k) /\ leases[i].left > 0} IN
     \E i \in live :
       /\ \A j \in live : negotiated[j] < negotiated[i] \/ (negotiated[j] = negotiated[i] /\ i <= j)
       /\ Release(i)
       /\ negotiated' = [j \in DOMAIN negotiated \ {i} |-> negotiated[j]]
  /\ UNCHANGED <<pinned, call>>

\* release_negotiated, of a lease that is forgotten also when it has ended
ReleaseNegotiated(i) ==
  /\ call = NoCall
  /\ i \in DOMAIN negotiated
  /\ Release(i)
  /\ negotiated' = [j \in DOMAIN negotiated \ {i} |-> negotiated[j]]
  /\ pinned' = pinned \ {i}
  /\ UNCHANGED call

(* protect_critical asks the negotiator for a lease, under its lock, and   *)
(* then writes to it without: the lease is pinned, and then critical, also *)
(* between the comparison of a negotiate call and its preemption.  A lease *)
(* that is pinned may be protected again.                                  *)
Pin(i) ==
  /\ i \in DOMAIN negotiated \ pinned
  /\ pinned' = pinned \cup {i}
  /\ UNCHANGED <<leases, negotiated, call, released>>

MakeCritical(i) ==
  /\ i \in pinned
  /\ negotiated' = [negotiated EXCEPT ![i] = Critical]
  /\ UNCHANGED <<leases, pinned, call, released>>

Negotiation ==
  \/ Look \/ FindHolder \/ FindLease \/ (\E d \in Durations : RenewFound(d))
  \/ Preempt \/ (\E d \in Durations : AcquireForCall(d)) \/ Retry

Next ==
  \/ \E h \in Holders, k \in Keys, s \in Scopes :
       \/ \E d \in Durations : AgentAcquire(h, k, s, d)
       \/ \E p \in Priorities : Negotiate(h, k, s, p)
  \/ \E i \in DOMAIN leases :
       \/ AgentRelease(i) \/ AgentCheck(i) \/ ReleaseNegotiated(i)
       \/ Evict(i) \/ Pin(i) \/ MakeCritical(i)
       \/ \E d \in Durations : AgentRenew(i, d)
  \/ \E k \in Keys : PreemptLowest(k)
  \/ Sweep \/ Tick \/ Negotiation

Spec == Init /\ [][Next]_vars

-----------------------------------------------------------------------------
LeaseTypeOK ==
  /\ leases \in Seq(Lease)
  /\ DOMAIN negotiated \subseteq DOMAIN leases
  /\ \A i \in DOMAIN negotiated : negotiated[i] \in Priorities
  /\ pinned \subseteq DOMAIN negotiated
  /\ call \in Calls \cup {NoCall}
  /\ released \subseteq DOMAIN leases
  /\ call # NoCall /\ call.lease # 0 =>
       call.lease \in DOMAIN negotiated /\ leases[call.lease].holder = call.who

(* Two active leases on a key never conflict, although an expired lease    *)
(* may be renewed: one that was granted meanwhile has swept it.            *)
Compatible ==
  \A i, j \in DOMAIN leases :
    /\ i # j /\ leases[i].key = leases[j].key
    /\ leases[i].active /\ leases[j].active
    => ~Conflict(leases[i].scope, leases[j].scope)

(* An agent whose lease has not run out is alone, by its own clock, unless *)
(* it gave the lease up or another took it: the negotiator, the pressure   *)
(* handler, the migration, or an agent that releases the lease of another. *)
(* Neither a sweep nor a renewal, nor a grant or a negotiate call that     *)
(* meets an expired lease, takes a lease from an agent that may use it.    *)
UsersAlone ==
  \A i, j \in DOMAIN leases :
    /\ i < j /\ leases[i].key = leases[j].key
    /\ leases[i].left > 0 /\ leases[j].left > 0
    /\ Conflict(leases[i].scope, leases[j].scope)
    => i \in released

(* What _find_negotiated_for_key finds for a key is a lease on that key.   *)
FoundOnKey ==
  InCall("renew") \/ InCall("preempt") => leases[call.lease].key = call.key
=============================================================================
