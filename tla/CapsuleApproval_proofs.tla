----------------------- MODULE CapsuleApproval_proofs -----------------------
(***************************************************************************)
(* What is proved of CapsuleApproval for any threads, servers and          *)
(* capsules.  The strengthening has a part about the database, a part for  *)
(* each thread, and the locks.  Decisions are final where one server runs. *)
(***************************************************************************)
EXTENDS CapsuleApproval, SequenceTheorems, TLAPS

Request == [capsule : Capsules, status : Statuses, by : Processes]
Hashes == Seq(Types \X Capsules)
LedgerEvent == [request : Nat, type : Types, capsule : Capsules, by : Processes,
                prev : Hashes, trace : Hashes]
Call == [capsule : Capsules \cup {"none"}, token : Tokens, decision : Decisions \cup {"none"},
         request : Nat, seen : Statuses \cup {"none"}]
Ids == 1 .. Len(requests)
Entries == 1 .. Len(events)

\* Every event is about a request, with the capsule of that request.
EventsFit ==
  \A i \in Entries : /\ events[i].request \in Ids
                     /\ events[i].capsule = requests[events[i].request].capsule

Linked ==
  \A i \in Entries :
    /\ events[i].prev = IF i = 1 THEN ZeroHash ELSE events[i - 1].trace
    /\ events[i].trace = TraceId(events[i].prev, events[i].type, events[i].capsule)

\* A status is what the last event of the request says,
Reported ==
  \A r \in Ids : \E i \in Entries :
    /\ events[i].request = r
    /\ \A j \in Entries : events[j].request = r => j <= i
    /\ requests[r].status = IF events[i].type = "requested" THEN "pending" ELSE events[i].type

\* and a request that was decided once is never pending again.
Resolved ==
  \A i \in Entries : events[i].type # "requested" => requests[events[i].request].status # "pending"

\* There is a newest request for a capsule as soon as there is one.
NewestFound ==
  /\ newest \in [Capsules -> {0} \cup Ids]
  /\ \A r \in Ids : newest[requests[r].capsule] # 0
  /\ \A c \in Capsules : newest[c] # 0 => requests[newest[c]].capsule = c

Once ==
  \A i, j \in Entries : i < j /\ events[i].by = events[j].by =>
    /\ events[i].type = "requested" /\ events[j].type = "requested" =>
         events[i].capsule # events[j].capsule
    /\ events[i].type # "requested" /\ events[j].type # "requested" =>
         events[i].request # events[j].request

Database ==
  /\ requests \in Seq(Request) /\ events \in Seq(LedgerEvent)
  /\ EventsFit /\ Linked /\ Reported /\ Resolved /\ NewestFound /\ Once

Justified(t) ==
  \E i \in Entries :
    /\ events[i].request = call[t].request /\ events[i].capsule = call[t].capsule
    /\ \/ events[i].type = "approved"
       \/ events[i].type = "rejected" /\ call[t].token = "right"

(* A thread in the middle of ensure_request or decide still has the answer *)
(* of its SELECT as far as its own server is concerned.                    *)
ThreadOK(t) ==
  /\ pc[t] \in {"idle", "insert", "decide", "update", "running"} /\ call[t] \in Call
  /\ pc[t] = "insert" =>
       /\ call[t].capsule \in Capsules
       /\ \A i \in Entries : events[i].type = "requested" /\ events[i].by = Home[t] =>
            events[i].capsule # call[t].capsule
  /\ pc[t] \in {"decide", "update", "running"} => call[t].request \in Ids
  /\ pc[t] \in {"decide", "running"} => requests[call[t].request].capsule = call[t].capsule
  /\ pc[t] = "decide" => call[t].decision = "approved"
  /\ pc[t] = "update" =>
       /\ call[t].decision \in Decisions
       /\ call[t].capsule # "none" => requests[call[t].request].capsule = call[t].capsule
       /\ \A i \in Entries : events[i].type # "requested" /\ events[i].by = Home[t] =>
            events[i].request # call[t].request
  /\ pc[t] = "running" => Justified(t)

Places == pc \in [Threads -> {"idle", "insert", "decide", "update", "running"}]

LockOK ==
  /\ lock = {t \in Threads : pc[t] \in {"insert", "update"}}
  /\ \A t, u \in lock : Home[t] = Home[u] => t = u

IInv ==
  /\ Database
  /\ Places /\ call \in [Threads -> Call]
  /\ \A t \in Threads : ThreadOK(t)
  /\ LockOK

-----------------------------------------------------------------------------
LEMMA IdleTyped == Idle \in Call
BY DEF Idle, Call, Tokens

LEMMA InitIInv == Init => IInv
<1> SUFFICES ASSUME Init PROVE IInv
  OBVIOUS
<1>1. requests \in Seq(Request) /\ events \in Seq(LedgerEvent) /\ Len(requests) = 0 /\ Len(events) = 0
  BY EmptySeq DEF Init
<1>2. Ids = {} /\ Entries = {}
  BY <1>1 DEF Ids, Entries
<1>3. Database
  BY <1>1, <1>2
     DEF Init, Database, EventsFit, Linked, Reported, Resolved, NewestFound, Once
<1>4. Places /\ call \in [Threads -> Call]
  BY IdleTyped DEF Init, Places
<1>5. \A t \in Threads : ThreadOK(t)
  BY IdleTyped DEF Init, ThreadOK
<1>6. LockOK
  BY DEF Init, LockOK
<1> QED BY <1>3, <1>4, <1>5, <1>6 DEF IInv

-----------------------------------------------------------------------------
(* What a step of a thread may do to the database: it adds requests and    *)
(* events, and only when the thread holds the lock of its server.          *)
Grown(t) ==
  /\ Ids \subseteq Ids' /\ Entries \subseteq Entries'
  /\ \A r \in Ids : requests'[r].capsule = requests[r].capsule
  /\ \A i \in Entries : events'[i] = events[i]
  /\ \A i \in Entries' : i \in Entries \/ (events'[i].by = Home[t] /\ t \in lock)

LEMMA Kept ==
  ASSUME Database, UNCHANGED <<requests, newest, events>>, NEW t
  PROVE  Database' /\ Grown(t)
<1>1. Database'
  BY DEF Database, EventsFit, Linked, Reported, Resolved, NewestFound, Once, Ids, Entries
<1>2. Grown(t)
  BY DEF Grown, Ids, Entries
<1> QED BY <1>1, <1>2

LEMMA ThreadStep ==
  ASSUME IInv, NEW t \in Threads, NEW place, NEW with, Goto(t, place, with),
         place \in {"idle", "insert", "decide", "update", "running"}, with \in Call,
         Database', Grown(t), ThreadOK(t)', LockOK'
  PROVE  IInv'
<1>1. /\ pc' = [pc EXCEPT ![t] = place] /\ call' = [call EXCEPT ![t] = with]
      /\ Places /\ call \in [Threads -> Call] /\ LockOK
  BY DEF Goto, IInv
<1>2. Places' /\ call' \in [Threads -> Call]
  BY <1>1 DEF Places
<1>3. ASSUME NEW u \in Threads, u # t PROVE ThreadOK(u)'
  <2>1. pc'[u] = pc[u] /\ call'[u] = call[u] /\ ThreadOK(u)
    BY <1>1, <1>3 DEF IInv, Places
  <2>2. pc[u] \in {"insert", "update"} => \A i \in Entries' : i \in Entries \/ events'[i].by # Home[u]
    BY <1>1, <1>3 DEF Grown, LockOK
  <2>3. pc[u] = "running" => Justified(u)'
    BY <2>1 DEF ThreadOK, Justified, Grown
  <2>4. /\ pc[u] \in {"decide", "update", "running"} => call[u].request \in Ids'
        /\ \A r \in Ids : requests'[r].capsule = requests[r].capsule
    BY <2>1 DEF ThreadOK, Grown
  <2>5. \A i \in Entries : events'[i] = events[i]
    BY DEF Grown
  <2> QED BY <2>1, <2>2, <2>3, <2>4, <2>5 DEF ThreadOK
<1>4. \A u \in Threads : ThreadOK(u)'
  BY <1>3
<1> QED BY <1>2, <1>4 DEF IInv

\* The lock of its server taken, given back or not needed.
LEMMA LockStep ==
  ASSUME Places, LockOK, NEW t \in Threads, NEW place, pc' = [pc EXCEPT ![t] = place],
         \/ place \in {"insert", "update"} /\ LockFree(t) /\ lock' = lock \cup {t}
         \/ place \notin {"insert", "update"} /\ lock' = lock \ {t}
         \/ place \notin {"insert", "update"} /\ pc[t] \notin {"insert", "update"} /\ lock' = lock
  PROVE  LockOK'
BY DEF Places, LockOK, LockFree

\* The gate lets a run go on or ends it.
LEMMA GateStep ==
  ASSUME Places, call \in [Threads -> Call], NEW t \in Threads,
         NEW run \in Call, Gate(t, run), Database',
         run.request \in Ids', requests'[run.request].capsule = run.capsule,
         run.seen = requests'[run.request].status, run.token # "none" => run.seen # "pending"
  PROVE  /\ \E place \in {"idle", "running"}, with \in Call : Goto(t, place, with)
         /\ ThreadOK(t)'
<1>1. CASE Granted(run)
  <2>1. Goto(t, "running", run)
    BY <1>1 DEF Gate
  <2>2. pc'[t] = "running" /\ call'[t] = run
    BY <2>1 DEF Goto, Places
  <2>3. PICK i \in Entries' :
          /\ events'[i].request = run.request
          /\ requests'[run.request].status =
               IF events'[i].type = "requested" THEN "pending" ELSE events'[i].type
    BY DEF Database, Reported
  <2>4. events'[i].capsule = run.capsule
    BY <2>3 DEF Database, EventsFit
  <2>5. events'[i].type = "approved" \/ (events'[i].type = "rejected" /\ run.token = "right")
    <3>1. requests' \in Seq(Request)
      BY DEF Database
    <3>2. requests'[run.request] \in Request
      BY <3>1, ElementOfSeq DEF Ids
    <3>3. run.seen \in Statuses
      BY <3>2 DEF Request
    <3>4. CASE run.seen = "approved"
      BY <2>3, <3>4
    <3>5. CASE run.seen # "approved"
      <4>1. run.token = "right"
        BY <1>1, <3>5 DEF Granted
      <4>2. run.seen = "rejected"
        BY <3>3, <3>5, <4>1 DEF Statuses
      <4> QED BY <2>3, <4>1, <4>2
    <3> QED BY <3>4, <3>5
  <2>6. Justified(t)'
    BY <2>2, <2>3, <2>4, <2>5 DEF Justified
  <2>7. ThreadOK(t)'
    BY <2>2, <2>6 DEF ThreadOK
  <2> QED BY <2>1, <2>7
<1>2. CASE ~Granted(run)
  <2>1. Goto(t, "idle", Idle)
    BY <1>2 DEF Gate
  <2>2. pc'[t] = "idle" /\ call'[t] = Idle
    BY <2>1 DEF Goto, Places
  <2>3. ThreadOK(t)'
    BY <2>2, IdleTyped DEF ThreadOK
  <2> QED BY <2>1, <2>3, IdleTyped
<1> QED BY <1>1, <1>2

\* A run with credentials decides a pending request first.
LEMMA ResolveStep ==
  ASSUME Places, call \in [Threads -> Call], NEW t \in Threads,
         NEW run \in Call, Resolve(t, run), Database',
         run.request \in Ids', requests'[run.request].capsule = run.capsule,
         run.seen = requests'[run.request].status
  PROVE  /\ \E place \in {"idle", "running", "decide"}, with \in Call : Goto(t, place, with)
         /\ ThreadOK(t)'
<1>1. CASE run.token # "none" /\ run.seen = "pending"
  <2> DEFINE with == [run EXCEPT !.decision = "approved"]
  <2>1. /\ with \in Call /\ with.request = run.request /\ with.capsule = run.capsule
        /\ with.decision = "approved"
    BY DEF Call, Decisions
  <2>2. Goto(t, "decide", with)
    BY <1>1 DEF Resolve
  <2> HIDE DEF with
  <2>3. pc'[t] = "decide" /\ call'[t] = with
    BY <2>2 DEF Goto, Places
  <2>4. ThreadOK(t)'
    BY <2>1, <2>3 DEF ThreadOK
  <2> QED BY <2>1, <2>2, <2>4
<1>2. CASE ~(run.token # "none" /\ run.seen = "pending")
  BY <1>2, GateStep DEF Resolve
<1> QED BY <1>1, <1>2

-----------------------------------------------------------------------------
(* The steps that leave the database alone.                                *)

LEMMA StartRunStep ==
  ASSUME IInv, NEW t \in Threads, NEW c \in Capsules, NEW token \in Tokens, StartRun(t, c, token)
  PROVE  IInv'
<1> DEFINE run == [Idle EXCEPT !.capsule = c, !.token = token,
                               !.request = newest[c], !.seen = requests[newest[c]].status]
<1>1. Places /\ call \in [Threads -> Call] /\ LockOK /\ Database /\ At(t, "idle")
  BY DEF IInv, StartRun
<1>2. UNCHANGED <<requests, newest, events>> /\ lock' = lock /\ Resolve(t, run)
  BY DEF StartRun, Keeping
<1>3. newest[c] \in Ids /\ requests[newest[c]].capsule = c /\ newest[c] \in Nat
  BY <1>1 DEF StartRun, Database, NewestFound, Ids
<1>4. requests[newest[c]].status \in Statuses
  <2>1. requests \in Seq(Request)
    BY <1>1 DEF Database
  <2>2. requests[newest[c]] \in Request
    BY <1>3, <2>1, ElementOfSeq DEF Ids
  <2> QED BY <2>2 DEF Request
<1>5. /\ run \in Call /\ run.request = newest[c] /\ run.capsule = c
      /\ run.seen = requests[newest[c]].status
  BY <1>3, <1>4 DEF Idle, Call, Tokens
<1>6. Database' /\ Grown(t)
  BY <1>1, <1>2, Kept
<1> HIDE DEF run
<1>7. run.request \in Ids' /\ requests'[run.request].capsule = run.capsule
      /\ run.seen = requests'[run.request].status
  BY <1>2, <1>3, <1>5 DEF Ids
<1>8. /\ \E place \in {"idle", "running", "decide"}, with \in Call : Goto(t, place, with)
      /\ ThreadOK(t)'
  BY <1>1, <1>2, <1>5, <1>6, <1>7, ResolveStep
<1>9. PICK place \in {"idle", "running", "decide"}, with \in Call : Goto(t, place, with)
  BY <1>8
<1>10. LockOK'
  BY <1>1, <1>2, <1>9, LockStep DEF Goto, At
<1> QED BY <1>6, <1>8, <1>9, <1>10, ThreadStep

LEMMA StartFirstRunStep ==
  ASSUME IInv, NEW t \in Threads, NEW c \in Capsules, NEW token \in Tokens,
         StartFirstRun(t, c, token)
  PROVE  IInv'
<1> DEFINE run == [Idle EXCEPT !.capsule = c, !.token = token]
<1>1. Places /\ call \in [Threads -> Call] /\ LockOK /\ Database
  BY DEF IInv
<1>2. /\ UNCHANGED <<requests, newest, events>> /\ Goto(t, "insert", run)
      /\ newest[c] = 0 /\ LockFree(t) /\ lock' = lock \cup {t}
  BY DEF StartFirstRun
<1>3. run \in Call /\ run.capsule = c
  BY DEF Idle, Call, Tokens
<1>4. Database' /\ Grown(t)
  BY <1>1, <1>2, Kept
<1> HIDE DEF run
<1>5. pc' = [pc EXCEPT ![t] = "insert"] /\ pc'[t] = "insert" /\ call'[t] = run
  BY <1>1, <1>2 DEF Goto, Places
<1>6. \A i \in Entries : events[i].capsule # c
  BY <1>1, <1>2 DEF Database, EventsFit, NewestFound
<1>7. ThreadOK(t)'
  BY <1>2, <1>3, <1>5, <1>6 DEF ThreadOK, Entries
<1>8. LockOK'
  BY <1>1, <1>2, <1>5, LockStep
<1> QED BY <1>2, <1>3, <1>4, <1>7, <1>8, ThreadStep

\* decide, by an operator or by a run.
LEMMA DecidingStep ==
  ASSUME IInv, NEW t \in Threads, NEW with \in Call, Deciding(t, with),
         with.decision \in Decisions, with.request \in Ids,
         with.capsule # "none" => requests[with.request].capsule = with.capsule
  PROVE  IInv'
<1>1. Places /\ call \in [Threads -> Call] /\ LockOK /\ Database
  BY DEF IInv
<1>2. /\ UNCHANGED <<requests, newest, events>> /\ Goto(t, "update", with)
      /\ requests[with.request].status = "pending" /\ LockFree(t) /\ lock' = lock \cup {t}
  BY DEF Deciding
<1>3. Database' /\ Grown(t)
  BY <1>1, <1>2, Kept
<1>4. pc' = [pc EXCEPT ![t] = "update"] /\ pc'[t] = "update" /\ call'[t] = with
  BY <1>1, <1>2 DEF Goto, Places
<1>5. \A i \in Entries : events[i].type # "requested" => events[i].request # with.request
  BY <1>1, <1>2 DEF Database, Resolved
<1>6. ThreadOK(t)'
  BY <1>2, <1>4, <1>5 DEF ThreadOK, Entries, Ids
<1>7. LockOK'
  BY <1>1, <1>2, <1>4, LockStep
<1> QED BY <1>2, <1>3, <1>6, <1>7, ThreadStep

LEMMA ReviewStep ==
  ASSUME IInv, NEW t \in Threads, NEW r \in DOMAIN requests, NEW decision \in Decisions,
         NEW token \in Tokens, Review(t, r, decision, token)
  PROVE  IInv'
<1> DEFINE with == [Idle EXCEPT !.request = r, !.decision = decision, !.token = token]
<1>1. r \in Ids /\ r \in Nat
  BY LenProperties DEF IInv, Database, Ids
<1>2. with \in Call /\ with.request = r /\ with.decision = decision /\ with.capsule = "none"
  BY <1>1 DEF Idle, Call, Tokens
<1>3. Deciding(t, with)
  BY DEF Review
<1> HIDE DEF with
<1> QED BY <1>1, <1>2, <1>3, DecidingStep

LEMMA RunDecidesStep ==
  ASSUME IInv, NEW t \in Threads, RunDecides(t)
  PROVE  IInv'
<1>1. pc[t] = "decide" /\ Deciding(t, call[t]) /\ ThreadOK(t)
  BY DEF IInv, RunDecides, At
<1>2. call[t] \in Call /\ call[t].decision \in Decisions /\ call[t].request \in Ids
      /\ requests[call[t].request].capsule = call[t].capsule
  BY <1>1 DEF ThreadOK, Decisions
<1> QED BY <1>1, <1>2, DecidingStep

LEMMA RunDecidesAgainStep ==
  ASSUME IInv, NEW t \in Threads, RunDecidesAgain(t)
  PROVE  IInv'
<1> DEFINE run == [call[t] EXCEPT !.seen = "approved"]
<1>1. Places /\ call \in [Threads -> Call] /\ LockOK /\ Database /\ ThreadOK(t) /\ pc[t] = "decide"
  BY DEF IInv, RunDecidesAgain, At
<1>2. /\ UNCHANGED <<requests, newest, events>> /\ lock' = lock /\ Gate(t, run)
      /\ requests[call[t].request].status = "approved"
  BY DEF RunDecidesAgain, Keeping
<1>3. call[t] \in Call /\ call[t].request \in Ids /\ requests[call[t].request].capsule = call[t].capsule
  BY <1>1 DEF ThreadOK
<1>4. /\ run \in Call /\ run.request = call[t].request /\ run.capsule = call[t].capsule
      /\ run.seen = "approved"
  BY <1>3 DEF Call, Statuses
<1>5. Database' /\ Grown(t)
  BY <1>1, <1>2, Kept
<1> HIDE DEF run
<1>6. run.request \in Ids' /\ requests'[run.request].capsule = run.capsule
      /\ run.seen = requests'[run.request].status
  BY <1>2, <1>3, <1>4 DEF Ids
<1>7. /\ \E place \in {"idle", "running"}, with \in Call : Goto(t, place, with)
      /\ ThreadOK(t)'
  BY <1>1, <1>2, <1>4, <1>5, <1>6, GateStep
<1>8. PICK place \in {"idle", "running"}, with \in Call : Goto(t, place, with)
  BY <1>7
<1>9. LockOK'
  BY <1>1, <1>2, <1>8, LockStep DEF Goto
<1> QED BY <1>5, <1>7, <1>8, <1>9, ThreadStep

\* A run that is over, or that decide raised in.
LEMMA EndStep ==
  ASSUME IInv, NEW t \in Threads, RunRaises(t) \/ Finish(t)
  PROVE  IInv'
<1>1. Places /\ call \in [Threads -> Call] /\ LockOK /\ Database
  BY DEF IInv
<1>2. /\ UNCHANGED <<requests, newest, events>> /\ lock' = lock /\ Goto(t, "idle", Idle)
      /\ pc[t] \in {"decide", "running"}
  BY DEF RunRaises, Finish, Keeping, At
<1>3. Database' /\ Grown(t)
  BY <1>1, <1>2, Kept
<1>4. pc' = [pc EXCEPT ![t] = "idle"] /\ pc'[t] = "idle" /\ call'[t] = Idle
  BY <1>1, <1>2 DEF Goto, Places
<1>5. ThreadOK(t)'
  BY <1>4, IdleTyped DEF ThreadOK
<1>6. LockOK'
  BY <1>1, <1>2, <1>4, LockStep
<1> QED BY <1>2, <1>3, <1>5, <1>6, IdleTyped, ThreadStep

-----------------------------------------------------------------------------
(* The steps that write: each adds one event, by the thread's server.      *)

LEMMA EventTyped ==
  ASSUME Database, ApprovalAssumption, NEW t \in Threads, NEW r \in Nat, NEW type \in Types,
         NEW c \in Capsules
  PROVE  /\ Event(t, r, type, c) \in LedgerEvent
         /\ Event(t, r, type, c).request = r /\ Event(t, r, type, c).type = type
         /\ Event(t, r, type, c).capsule = c /\ Event(t, r, type, c).by = Home[t]
         /\ Event(t, r, type, c).prev = LastTraceId
         /\ Event(t, r, type, c).trace = TraceId(LastTraceId, type, c)
<1>1. events \in Seq(LedgerEvent)
  BY DEF Database
<1>2. LastTraceId \in Hashes
  <2>1. CASE events = <<>>
    BY <2>1, EmptySeq DEF LastTraceId, ZeroHash, Hashes
  <2>2. CASE events # <<>>
    <3>1. Len(events) \in Nat \ {0}
      BY <1>1, <2>2, EmptySeq, LenProperties
    <3>2. events[Len(events)] \in LedgerEvent
      BY <1>1, <3>1, ElementOfSeq
    <3> QED BY <2>2, <3>2 DEF LastTraceId, LedgerEvent
  <2> QED BY <2>1, <2>2
<1>3. <<type, c>> \in Types \X Capsules
  OBVIOUS
<1>4. TraceId(LastTraceId, type, c) \in Hashes
  BY <1>2, <1>3, AppendProperties DEF TraceId, Hashes
<1>5. Home[t] \in Processes
  BY DEF ApprovalAssumption
<1> QED BY <1>2, <1>4, <1>5 DEF Event, LedgerEvent

(* The chain goes on when an event that links to the last is added, and    *)
(* nothing else in the ledger of events changes.                           *)
LEMMA Linking ==
  ASSUME Database, ApprovalAssumption, NEW t \in Threads, NEW r \in Nat, NEW type \in Types,
         NEW c \in Capsules, events' = Append(events, Event(t, r, type, c))
  PROVE  /\ events' \in Seq(LedgerEvent)
         /\ Entries' = Entries \cup {Len(events) + 1} /\ Len(events) \in Nat
         /\ \A i \in Entries : events'[i] = events[i]
         /\ events'[Len(events) + 1].request = r /\ events'[Len(events) + 1].type = type
         /\ events'[Len(events) + 1].capsule = c /\ events'[Len(events) + 1].by = Home[t]
         /\ Linked'
<1> DEFINE e == Event(t, r, type, c)
           n == Len(events)
<1>1. /\ e \in LedgerEvent /\ e.request = r /\ e.type = type /\ e.capsule = c /\ e.by = Home[t]
      /\ e.prev = LastTraceId /\ e.trace = TraceId(LastTraceId, type, c)
  BY EventTyped
<1>2. events' = Append(events, e) /\ events \in Seq(LedgerEvent) /\ Linked
  BY DEF Database
<1> HIDE DEF e
<1>3. /\ events' \in Seq(LedgerEvent) /\ Len(events') = n + 1 /\ events'[n + 1] = e
      /\ n \in Nat /\ \A i \in 1 .. n : events'[i] = events[i]
  BY <1>1, <1>2, AppendProperties, LenProperties
<1>4. 1 .. n + 1 = (1 .. n) \cup {n + 1}
  BY <1>3
<1>5. Entries' = Entries \cup {n + 1}
  BY <1>3, <1>4 DEF Entries
<1>6. \A i \in Entries : events'[i] = events[i]
  BY <1>3 DEF Entries
<1>7. LastTraceId = IF n + 1 = 1 THEN ZeroHash ELSE events'[n].trace
  <2>1. CASE n = 0
    BY <1>2, <2>1, EmptySeq DEF LastTraceId
  <2>2. CASE n # 0
    <3>1. events # <<>> /\ n \in 1 .. n /\ n + 1 # 1
      BY <1>3, <2>2, EmptySeq
    <3> QED BY <1>3, <3>1 DEF LastTraceId
  <2> QED BY <2>1, <2>2
<1>8. ASSUME NEW i \in Entries'
      PROVE  /\ events'[i].prev = IF i = 1 THEN ZeroHash ELSE events'[i - 1].trace
             /\ events'[i].trace = TraceId(events'[i].prev, events'[i].type, events'[i].capsule)
  <2>1. CASE i \in Entries
    <3>1. i # 1 => i - 1 \in Entries
      BY <1>3, <2>1 DEF Entries
    <3> QED BY <1>2, <1>6, <2>1, <3>1 DEF Linked
  <2>2. CASE i = n + 1
    BY <1>1, <1>3, <1>7, <2>2
  <2> QED BY <1>5, <2>1, <2>2
<1>9. Linked'
  BY <1>8 DEF Linked
<1> QED BY <1>1, <1>3, <1>5, <1>6, <1>9

LEMMA InsertRequestStep ==
  ASSUME IInv, ApprovalAssumption, NEW t \in Threads, InsertRequest(t)
  PROVE  IInv'
<1> DEFINE c == call[t].capsule
           r == Len(requests) + 1
           n == Len(events) + 1
           q == [capsule |-> c, status |-> "pending", by |-> Home[t]]
           run == [call[t] EXCEPT !.request = r, !.seen = "pending"]
<1>1. /\ Places /\ call \in [Threads -> Call] /\ LockOK /\ Database /\ ThreadOK(t)
      /\ pc[t] = "insert"
  BY DEF IInv, InsertRequest, At
<1>2. /\ requests' = Append(requests, q) /\ events' = Append(events, Event(t, r, "requested", c))
      /\ Resolve(t, run) /\ lock' = lock \ {t}
      /\ \E s \in {r, newest[c]} \ {0} : newest' = [newest EXCEPT ![c] = s]
  BY DEF InsertRequest
<1>3. /\ c \in Capsules /\ call[t] \in Call
      /\ \A i \in Entries : events[i].type = "requested" /\ events[i].by = Home[t] =>
           events[i].capsule # c
  BY <1>1 DEF ThreadOK
<1>4. /\ requests \in Seq(Request) /\ EventsFit /\ Reported /\ Resolved /\ NewestFound /\ Once
      /\ events \in Seq(LedgerEvent)
  BY <1>1 DEF Database
<1>5. q \in Request /\ q.capsule = c /\ q.status = "pending"
  BY <1>3 DEF Request, Statuses, ApprovalAssumption
<1>6. r \in Nat /\ r # 0
  BY <1>4, LenProperties
<1>7. /\ run \in Call /\ run.request = r /\ run.capsule = c /\ run.seen = "pending"
  BY <1>3, <1>6 DEF Call, Statuses
<1> HIDE DEF q, run
<1>8. /\ requests' \in Seq(Request) /\ Len(requests') = r /\ requests'[r] = q
      /\ \A k \in 1 .. Len(requests) : requests'[k] = requests[k]
  BY <1>2, <1>4, <1>5, AppendProperties
<1>9. 1 .. r = (1 .. Len(requests)) \cup {r} /\ r \notin 1 .. Len(requests)
  BY <1>4, LenProperties
<1>10. Ids' = Ids \cup {r} /\ r \notin Ids /\ \A k \in Ids : requests'[k] = requests[k]
  BY <1>8, <1>9 DEF Ids
<1> HIDE DEF r, c, n
<1>11a. events' = Append(events, Event(t, r, "requested", c)) /\ c \in Capsules /\ r \in Nat
        /\ "requested" \in Types
  BY <1>2, <1>3, <1>6 DEF Types
<1> USE DEF n
<1>11. /\ events' \in Seq(LedgerEvent)
       /\ Entries' = Entries \cup {n} /\ Len(events) \in Nat /\ Linked'
       /\ \A i \in Entries : events'[i] = events[i]
       /\ events'[n].request = r /\ events'[n].type = "requested"
       /\ events'[n].capsule = c /\ events'[n].by = Home[t]
  BY ONLY <1>1, <1>11a, ApprovalAssumption, t \in Threads, Linking
<1>12. \A i \in Entries : i \in Int /\ i < n /\ ~(n < i) /\ events[i].request \in Ids
  BY <1>4, <1>11 DEF Entries, EventsFit
<1> HIDE DEF n
<1>13. EventsFit'
  <2>1. ASSUME NEW i \in Entries' PROVE
          events'[i].request \in Ids' /\ events'[i].capsule = requests'[events'[i].request].capsule
    <3>1. CASE i \in Entries
      BY <1>4, <1>10, <1>11, <3>1 DEF EventsFit
    <3>2. CASE i = n
      BY <1>5, <1>8, <1>10, <1>11, <3>2
    <3> QED BY <1>11, <3>1, <3>2
  <2> QED BY <2>1 DEF EventsFit
<1>14. Reported'
  <2>1. ASSUME NEW k \in Ids' PROVE
          \E i \in Entries' :
            /\ events'[i].request = k
            /\ \A j \in Entries' : events'[j].request = k => j <= i
            /\ requests'[k].status = IF events'[i].type = "requested" THEN "pending" ELSE events'[i].type
    <3>1. CASE k \in Ids
      <4>1. PICK i \in Entries :
              /\ events[i].request = k
              /\ \A j \in Entries : events[j].request = k => j <= i
              /\ requests[k].status = IF events[i].type = "requested" THEN "pending" ELSE events[i].type
        BY <1>4, <3>1 DEF Reported
      <4>2. events'[i] = events[i] /\ i \in Entries' /\ requests'[k] = requests[k]
        BY <1>10, <1>11, <3>1
      <4>3. \A j \in Entries' : events'[j].request = k => j <= i
        BY <1>10, <1>11, <3>1, <4>1
      <4> QED BY <4>1, <4>2, <4>3
    <3>2. CASE k = r
      <4>1. \A j \in Entries' : events'[j].request = k => j = n
        BY <1>10, <1>11, <1>12, <3>2
      <4>2. n <= n
        BY <1>11 DEF n
      <4> QED BY <1>5, <1>8, <1>11, <3>2, <4>1, <4>2
    <3> QED BY <1>10, <3>1, <3>2
  <2> QED BY <2>1 DEF Reported
<1>15. Resolved'
  BY <1>4, <1>10, <1>11, <1>12 DEF Resolved
<1>16. NewestFound'
  <2>1. PICK s \in {r, newest[c]} \ {0} : newest' = [newest EXCEPT ![c] = s]
    BY <1>2
  <2>2. newest \in [Capsules -> {0} \cup Ids]
    BY <1>4 DEF NewestFound
  <2>3. newest'[c] = s /\ \A d \in Capsules : d # c => newest'[d] = newest[d]
    BY <1>3, <2>1, <2>2
  <2>4. s \in Ids' /\ s # 0 /\ requests'[s].capsule = c
    BY <1>3, <1>4, <1>5, <1>6, <1>8, <1>10, <2>1, <2>2 DEF NewestFound
  <2>5. newest' \in [Capsules -> {0} \cup Ids']
    BY <1>10, <2>1, <2>2, <2>4
  <2>6. \A k \in Ids : requests[k].capsule \in Capsules
    <3>1. \A k \in Ids : requests[k] \in Request
      BY <1>4, ElementOfSeq DEF Ids
    <3> QED BY <3>1 DEF Request
  <2>7. \A k \in Ids' : newest'[requests'[k].capsule] # 0
    BY <1>4, <1>5, <1>8, <1>10, <2>3, <2>4, <2>6 DEF NewestFound
  <2>8. \A d \in Capsules : newest'[d] # 0 => requests'[newest'[d]].capsule = d
    BY <1>4, <1>10, <2>2, <2>3, <2>4 DEF NewestFound
  <2> QED BY <2>5, <2>7, <2>8 DEF NewestFound
<1>17. Once'
  <2>1. ASSUME NEW i \in Entries', NEW j \in Entries', i < j, events'[i].by = events'[j].by
        PROVE  /\ events'[i].type = "requested" /\ events'[j].type = "requested" =>
                    events'[i].capsule # events'[j].capsule
               /\ events'[i].type # "requested" /\ events'[j].type # "requested" =>
                    events'[i].request # events'[j].request
    <3>1. CASE i \in Entries /\ j \in Entries
      BY <1>4, <1>11, <2>1, <3>1 DEF Once
    <3>2. CASE i \in Entries /\ j = n
      BY <1>3, <1>11, <2>1, <3>2 DEF c
    <3>3. i # n
      <4>1. ~(n < n)
        BY <1>11 DEF n
      <4> QED BY <1>11, <1>12, <2>1, <4>1
    <3> QED BY <1>11, <3>1, <3>2, <3>3
  <2> QED BY <2>1 DEF Once
<1>18. Database'
  BY <1>8, <1>11, <1>13, <1>14, <1>15, <1>16, <1>17 DEF Database
<1>19. Grown(t)
  BY <1>1, <1>10, <1>11 DEF Grown, LockOK
<1>20. /\ \E place \in {"idle", "running", "decide"}, with \in Call : Goto(t, place, with)
       /\ ThreadOK(t)'
  BY <1>1, <1>2, <1>5, <1>7, <1>8, <1>10, <1>18, ResolveStep
<1>21. PICK place \in {"idle", "running", "decide"}, with \in Call : Goto(t, place, with)
  BY <1>20
<1>22. LockOK'
  BY <1>1, <1>2, <1>21, LockStep DEF Goto
<1> QED BY <1>18, <1>19, <1>20, <1>21, <1>22, ThreadStep

LEMMA CommitStep ==
  ASSUME IInv, ApprovalAssumption, NEW t \in Threads, Commit(t)
  PROVE  IInv'
<1> DEFINE r == call[t].request
           d == call[t].decision
           c == requests[r].capsule
           n == Len(events) + 1
           run == [call[t] EXCEPT !.seen = d]
<1>1. /\ Places /\ call \in [Threads -> Call] /\ LockOK /\ Database /\ ThreadOK(t)
      /\ pc[t] = "update"
  BY DEF IInv, Commit, At
<1>2. /\ requests' = [requests EXCEPT ![r].status = d]
      /\ events' = Append(events, Event(t, r, d, c))
      /\ IF call[t].capsule = "none" THEN Goto(t, "idle", Idle) ELSE Gate(t, run)
      /\ lock' = lock \ {t} /\ newest' = newest
  BY DEF Commit
<1>3. /\ call[t] \in Call /\ r \in Ids /\ d \in Decisions
      /\ call[t].capsule # "none" => c = call[t].capsule
      /\ \A i \in Entries : events[i].type # "requested" /\ events[i].by = Home[t] =>
           events[i].request # r
  BY <1>1 DEF ThreadOK
<1>4. /\ requests \in Seq(Request) /\ EventsFit /\ Reported /\ Resolved /\ NewestFound /\ Once
      /\ events \in Seq(LedgerEvent)
  BY <1>1 DEF Database
<1>5. requests[r] \in Request /\ r \in Nat /\ d \in Types /\ d \in Statuses /\ d # "requested"
      /\ d # "pending"
  BY <1>3, <1>4, ElementOfSeq, LenProperties DEF Ids, Decisions, Types, Statuses
<1>6. c \in Capsules
  BY <1>5 DEF Request
<1>7. run \in Call /\ run.request = r /\ run.capsule = call[t].capsule /\ run.seen = d
  BY <1>3, <1>5 DEF Call
<1> HIDE DEF run
<1> DEFINE q == [requests[r] EXCEPT !.status = d]
<1>8. q \in Request /\ q.capsule = c /\ q.status = d
  BY <1>5 DEF Request
<1>9. requests' = [requests EXCEPT ![r] = q]
  BY <1>2
<1> HIDE DEF q
<1>10. /\ requests' \in Seq(Request) /\ Len(requests') = Len(requests) /\ requests'[r] = q
       /\ \A k \in 1 .. Len(requests) : k # r => requests'[k] = requests[k]
  BY <1>3, <1>4, <1>8, <1>9, ExceptSeq DEF Ids
<1>11. Ids' = Ids /\ \A k \in Ids : k # r => requests'[k] = requests[k]
  BY <1>10 DEF Ids
<1>12. \A k \in Ids : requests'[k].capsule = requests[k].capsule
  BY <1>8, <1>10, <1>11
<1> HIDE DEF r, d, c, n
<1>13a. events' = Append(events, Event(t, r, d, c)) /\ c \in Capsules /\ r \in Nat /\ d \in Types
  BY <1>2, <1>5, <1>6
<1> USE DEF n
<1>13. /\ events' \in Seq(LedgerEvent)
       /\ Entries' = Entries \cup {n} /\ Len(events) \in Nat /\ Linked'
       /\ \A i \in Entries : events'[i] = events[i]
       /\ events'[n].request = r /\ events'[n].type = d
       /\ events'[n].capsule = c /\ events'[n].by = Home[t]
  BY ONLY <1>1, <1>13a, ApprovalAssumption, t \in Threads, Linking
<1> USE DEF r, d, c
<1>14. \A i \in Entries : i \in Int /\ i < n /\ ~(n < i) /\ i <= n /\ n <= n
  BY <1>13 DEF Entries
<1>15. n <= n /\ ~(n < n)
  BY <1>13
<1> HIDE DEF n
<1>16. EventsFit'
  BY <1>3, <1>4, <1>11, <1>12, <1>13 DEF EventsFit
<1>17. Reported'
  <2>1. ASSUME NEW k \in Ids' PROVE
          \E i \in Entries' :
            /\ events'[i].request = k
            /\ \A j \in Entries' : events'[j].request = k => j <= i
            /\ requests'[k].status = IF events'[i].type = "requested" THEN "pending" ELSE events'[i].type
    <3>1. CASE k # r
      <4>1. PICK i \in Entries :
              /\ events[i].request = k
              /\ \A j \in Entries : events[j].request = k => j <= i
              /\ requests[k].status = IF events[i].type = "requested" THEN "pending" ELSE events[i].type
        BY <1>4, <1>11 DEF Reported
      <4>2. events'[i] = events[i] /\ i \in Entries' /\ requests'[k] = requests[k]
        BY <1>11, <1>13, <3>1
      <4>3. \A j \in Entries' : events'[j].request = k => j <= i
        BY <1>13, <3>1, <4>1
      <4> QED BY <4>1, <4>2, <4>3
    <3>2. CASE k = r
      <4>1. \A j \in Entries' : j <= n
        BY <1>13, <1>14, <1>15
      <4> QED BY <1>5, <1>8, <1>10, <1>13, <3>2, <4>1
    <3> QED BY <3>1, <3>2
  <2> QED BY <2>1 DEF Reported
<1>18. Resolved'
  <2>1. \A i \in Entries : events[i].request \in Ids
    BY <1>4 DEF EventsFit
  <2> QED BY <1>4, <1>5, <1>8, <1>10, <1>11, <1>13, <2>1 DEF Resolved
<1>19. NewestFound'
  BY <1>2, <1>4, <1>11, <1>12 DEF NewestFound
<1>20. Once'
  <2>1. ASSUME NEW i \in Entries', NEW j \in Entries', i < j, events'[i].by = events'[j].by
        PROVE  /\ events'[i].type = "requested" /\ events'[j].type = "requested" =>
                    events'[i].capsule # events'[j].capsule
               /\ events'[i].type # "requested" /\ events'[j].type # "requested" =>
                    events'[i].request # events'[j].request
    <3>1. CASE i \in Entries /\ j \in Entries
      BY <1>4, <1>13, <2>1, <3>1 DEF Once
    <3>2. CASE i \in Entries /\ j = n
      BY <1>3, <1>5, <1>13, <2>1, <3>2
    <3>3. i # n
      BY <1>13, <1>14, <1>15, <2>1
    <3> QED BY <1>13, <3>1, <3>2, <3>3
  <2> QED BY <2>1 DEF Once
<1>21. Database'
  BY <1>10, <1>13, <1>16, <1>17, <1>18, <1>19, <1>20 DEF Database
<1>22. Grown(t)
  BY <1>1, <1>11, <1>12, <1>13 DEF Grown, LockOK
<1>23. /\ \E place \in {"idle", "running"}, with \in Call : Goto(t, place, with)
       /\ ThreadOK(t)'
  <2>1. CASE call[t].capsule = "none"
    <3>1. Goto(t, "idle", Idle)
      BY <1>2, <2>1
    <3>2. pc'[t] = "idle" /\ call'[t] = Idle
      BY <1>1, <3>1 DEF Goto, Places
    <3> QED BY <3>1, <3>2, IdleTyped DEF ThreadOK
  <2>2. CASE call[t].capsule # "none"
    <3>1. Gate(t, run) /\ run.request \in Ids' /\ requests'[run.request].capsule = run.capsule
          /\ run.seen = requests'[run.request].status /\ run.seen # "pending"
      BY <1>2, <1>3, <1>5, <1>7, <1>8, <1>10, <1>11, <2>2
    <3> QED BY <1>1, <1>7, <1>21, <3>1, GateStep
  <2> QED BY <2>1, <2>2
<1>24. PICK place \in {"idle", "running"}, with \in Call : Goto(t, place, with)
  BY <1>23
<1>25. LockOK'
  BY <1>1, <1>2, <1>24, LockStep DEF Goto
<1> QED BY <1>21, <1>22, <1>23, <1>24, <1>25, ThreadStep

-----------------------------------------------------------------------------
LEMMA NextIInv ==
  ASSUME ApprovalAssumption
  PROVE  IInv /\ [Next]_vars => IInv'
<1> SUFFICES ASSUME IInv, [Next]_vars PROVE IInv'
  OBVIOUS
<1>1. CASE UNCHANGED vars
  BY <1>1 DEF vars, IInv, Database, EventsFit, Linked, Reported, Resolved, NewestFound, Once,
     Ids, Entries, ThreadOK, Justified, Places, LockOK
<1>2. CASE Next
  <2>1. PICK t \in Threads :
          \/ \E c \in Capsules, token \in Tokens : StartRun(t, c, token) \/ StartFirstRun(t, c, token)
          \/ \E r \in DOMAIN requests : Review(t, r, "rejected", "none")
          \/ \E r \in DOMAIN requests, token \in Tokens : Review(t, r, "approved", token)
          \/ InsertRequest(t) \/ RunDecides(t) \/ RunDecidesAgain(t) \/ RunRaises(t)
          \/ Commit(t) \/ Finish(t)
    BY <1>2 DEF Next
  <2>2. CASE \E c \in Capsules, token \in Tokens : StartRun(t, c, token) \/ StartFirstRun(t, c, token)
    BY <2>2, StartRunStep, StartFirstRunStep
  <2>3. CASE \E r \in DOMAIN requests : Review(t, r, "rejected", "none")
    <3>1. "none" \in Tokens /\ "rejected" \in Decisions
      BY DEF Tokens, Decisions
    <3> QED BY <2>3, <3>1, ReviewStep
  <2>4. CASE \E r \in DOMAIN requests, token \in Tokens : Review(t, r, "approved", token)
    <3>1. "approved" \in Decisions
      BY DEF Decisions
    <3> QED BY <2>4, <3>1, ReviewStep
  <2>5. CASE InsertRequest(t)
    BY <2>5, InsertRequestStep
  <2>6. CASE RunDecides(t)
    BY <2>6, RunDecidesStep
  <2>7. CASE RunDecidesAgain(t)
    BY <2>7, RunDecidesAgainStep
  <2>8. CASE RunRaises(t) \/ Finish(t)
    BY <2>8, EndStep
  <2>9. CASE Commit(t)
    BY <2>9, CommitStep
  <2> QED BY <2>1, <2>2, <2>3, <2>4, <2>5, <2>6, <2>7, <2>8, <2>9
<1> QED BY <1>1, <1>2

\* The strengthening holds in every reachable state, for any servers.
LEMMA InvariantHolds == Spec => []IInv
<1>1. IInv /\ [Next]_vars => IInv'
  BY NextIInv, ApprovalAssumption
<1> QED BY <1>1, InitIInv, PTL DEF Spec

LEMMA Domains ==
  ASSUME Database
  PROVE  DOMAIN requests = Ids /\ DOMAIN events = Entries
BY LenProperties DEF Database, Ids, Entries

(* The types of the ledger; each server's lock has one holder, which is in *)
(* the middle of ensure_request or decide, and the status of a request     *)
(* tells what its last event tells (approval_ledger.py).                   *)
THEOREM LedgerTypeCorrect == Spec => []LedgerTypeOK
<1>1. IInv => LedgerTypeOK
  <2> SUFFICES ASSUME IInv PROVE LedgerTypeOK
    OBVIOUS
  <2>1. Database /\ LockOK /\ DOMAIN requests = Ids /\ DOMAIN events = Entries
    BY Domains DEF IInv
  <2>2. requests \in Seq([capsule : Capsules, status : Statuses, by : Processes])
    BY <2>1 DEF Database, Request
  <2>3. newest \in [Capsules -> {0} \cup DOMAIN requests]
    BY <2>1 DEF Database, NewestFound
  <2>4. \A i \in DOMAIN events : events[i].type \in Types /\ events[i].request \in DOMAIN requests
    <3>1. \A i \in Entries : events[i] \in LedgerEvent
      BY <2>1, ElementOfSeq DEF Database, Entries
    <3>2. \A i \in Entries : events[i].type \in Types
      BY <3>1 DEF LedgerEvent
    <3> QED BY <2>1, <3>2 DEF Database, EventsFit
  <2>5. \A r \in DOMAIN requests : \E i \in EventsOf(r) :
          /\ \A j \in EventsOf(r) : j <= i
          /\ requests[r].status = (IF events[i].type = "requested" THEN "pending" ELSE events[i].type)
    BY <2>1 DEF Database, Reported, EventsOf
  <2> QED BY <2>1, <2>2, <2>3, <2>4, <2>5 DEF LedgerTypeOK, LockOK
<1> QED BY <1>1, InvariantHolds, PTL

(* verify_chain() of the ledger never reports an error, however many       *)
(* servers write to the database: each event links to the one before it.   *)
THEOREM ChainNeverBreaks == Spec => []ChainVerifies
<1>1. IInv => ChainVerifies
  BY Domains DEF IInv, Database, Linked, ChainVerifies, ChainErrors
<1> QED BY <1>1, InvariantHolds, PTL

(* A server asks once for each capsule and decides each request once: the  *)
(* lock around ensure_request and decide makes their SELECT and their      *)
(* transaction one step for the threads of a server.                       *)
THEOREM ServersActOnce == Spec => []OncePerServer
<1>1. IInv => OncePerServer
  BY Domains DEF IInv, Database, Once, OncePerServer
<1> QED BY <1>1, InvariantHolds, PTL

(* A run that goes on was shown an approval of its capsule, or it brought  *)
(* the right credentials and its request had been rejected, by whichever   *)
(* server: only a pending request is decided with the credentials a run    *)
(* brings, and the gate of a run looks at the credentials alone.           *)
THEOREM RunsAreJustified == Spec => []RunJustified
<1>1. IInv => RunJustified
  <2> SUFFICES ASSUME IInv, NEW t \in Threads, At(t, "running")
               PROVE  \E i \in EventsOf(call[t].request) :
                        /\ events[i].capsule = call[t].capsule
                        /\ \/ events[i].type = "approved"
                           \/ events[i].type = "rejected" /\ call[t].token = "right"
    BY DEF RunJustified
  <2>1. Justified(t) /\ DOMAIN events = Entries
    BY Domains DEF IInv, ThreadOK, At
  <2> QED BY <2>1 DEF Justified, EventsOf
<1> QED BY <1>1, InvariantHolds, PTL

-----------------------------------------------------------------------------
(* With one server.                                                        *)

OneServer == \A p, q \in Processes : p = q

\* A row that has been decided stays as it is.
DecidedStays == \A r \in DOMAIN requests : requests[r].status # "pending" => requests'[r] = requests[r]

\* The step of one thread does not touch what was decided.
LEMMA ThreadKeepsDecided ==
  ASSUME OneServer, IInv, NEW t \in Threads,
         requests' = requests \/ InsertRequest(t) \/ Commit(t)
  PROVE  DecidedStays
<1> SUFFICES ASSUME NEW r \in DOMAIN requests, requests[r].status # "pending"
             PROVE  requests'[r] = requests[r]
  BY DEF DecidedStays
<1>1. Database /\ ThreadOK(t) /\ r \in Ids /\ requests \in Seq(Request) /\ Len(requests) \in Nat
  BY Domains, LenProperties DEF IInv, Database
<1>2. CASE requests' = requests
  BY <1>2
<1>3. CASE InsertRequest(t)
  BY <1>1, <1>3 DEF InsertRequest, Ids
<1>4. CASE Commit(t)
  <2>1. pc[t] = "update" /\ requests' = [requests EXCEPT ![call[t].request].status = call[t].decision]
    BY <1>4 DEF Commit, At
  <2>2. PICK i \in Entries :
           /\ events[i].request = r
           /\ requests[r].status = IF events[i].type = "requested" THEN "pending" ELSE events[i].type
    BY <1>1 DEF Database, Reported
  <2>3. events[i].type # "requested"
    BY <2>2
  <2>4. events[i].by = Home[t] => r # call[t].request
    BY <1>1, <2>1, <2>2, <2>3 DEF ThreadOK
  <2>5. events[i].by = Home[t]
    <3>1. events[i] \in LedgerEvent /\ Home[t] \in Processes
      BY <1>1, <2>2, ApprovalAssumption DEF Database, Entries
    <3> QED BY <3>1 DEF LedgerEvent, OneServer
  <2> QED BY <1>1, <2>1, <2>4, <2>5
<1> QED BY <1>2, <1>3, <1>4

(* With one server a decision is final: whatever its threads do, the row   *)
(* of a decided request never changes.  Only another server, whose decide  *)
(* has read the request before, can overturn it (approval_ledger.py).      *)
THEOREM OneServerDecidesForGood == ASSUME OneServer PROVE Spec => [][DecidedStays]_vars
<1>1. IInv /\ [Next]_vars => [DecidedStays]_vars
  <2> SUFFICES ASSUME IInv, Next PROVE DecidedStays
    OBVIOUS
  <2>1. PICK t \in Threads :
          \/ \E c \in Capsules, token \in Tokens : StartRun(t, c, token) \/ StartFirstRun(t, c, token)
          \/ \E r \in DOMAIN requests : Review(t, r, "rejected", "none")
          \/ \E r \in DOMAIN requests, token \in Tokens : Review(t, r, "approved", token)
          \/ InsertRequest(t) \/ RunDecides(t) \/ RunDecidesAgain(t) \/ RunRaises(t)
          \/ Commit(t) \/ Finish(t)
    BY DEF Next
  <2>2. requests' = requests \/ InsertRequest(t) \/ Commit(t)
    BY <2>1 DEF StartRun, StartFirstRun, Review, RunDecides, RunDecidesAgain, RunRaises, Finish,
                Deciding, Keeping
  <2> QED BY <2>2, ThreadKeepsDecided
<1> QED BY <1>1, InvariantHolds, PTL DEF Spec
=============================================================================
