-------------------------- MODULE CapsuleApproval --------------------------
(***************************************************************************)
(* Approval of capsules: the ledger of hlf_mcp/hlf/approval_ledger.py, the *)
(* runs of capsules that ask it (server_capsule.py) and the operators who  *)
(* decide through hlf_capsule_review_decide.  A method of the ledger holds *)
(* the lock of its process, so that the threads of one server take turns;  *)
(* servers that share the database do not: the SELECT at the beginning of  *)
(* ensure_request and decide is over before the first write opens a        *)
(* transaction, and another server may commit in between.                  *)
(***************************************************************************)
EXTENDS Integers, Sequences

CONSTANTS
  Threads,    \* threads of the servers
  Processes,  \* servers with the same database
  Home,       \* the server of each thread
  Capsules    \* capsules, each with the requirements it always has

ASSUME ApprovalAssumption == Home \in [Threads -> Processes]

VARIABLES
  requests,  \* approval_requests; the index is the id
  newest,    \* the request for each capsule with the last created_at, 0 if there is none
  events,    \* approval_events in the order of their ids
  pc,        \* where each thread is
  call,      \* what each thread was called with, and the request it has read
  lock       \* threads that hold the lock of their server

vars == <<requests, newest, events, pc, call, lock>>

Statuses == {"pending", "approved", "rejected"}
Decisions == {"approved", "rejected"}
Tokens == {"none", "wrong", "right"}
Types == {"requested", "approved", "rejected"}

(* A hash is as good as what it was computed from.  The payload of an      *)
(* event is its type and the capsule.                                      *)
ZeroHash == <<>>
TraceId(prev, type, capsule) == Append(prev, <<type, capsule>>)

LastTraceId == IF events = <<>> THEN ZeroHash ELSE events[Len(events)].trace

\* Mutation: an event links to the last event of its own request.
EventOfRequest(t, r, type, capsule) ==
  LET own == SelectSeq(events, LAMBDA e : e.request = r)
      prev == IF own = <<>> THEN ZeroHash ELSE own[Len(own)].trace IN
  [request |-> r, type |-> type, capsule |-> capsule, by |-> Home[t],
   prev |-> prev, trace |-> TraceId(prev, type, capsule)]

\* The event _append_event adds.
Event(t, r, type, capsule) ==
  [request |-> r, type |-> type, capsule |-> capsule, by |-> Home[t],
   prev |-> LastTraceId, trace |-> TraceId(LastTraceId, type, capsule)]

Idle == [capsule |-> "none", token |-> "none", decision |-> "none", request |-> 0, seen |-> "none"]

Init ==
  /\ requests = <<>> /\ newest = [c \in Capsules |-> 0]
  /\ events = <<>> /\ lock = {}
  /\ pc = [t \in Threads |-> "idle"]
  /\ call = [t \in Threads |-> Idle]

-----------------------------------------------------------------------------
LockFree(t) == \A u \in lock : Home[u] # Home[t]

At(t, place) == pc[t] = place
Goto(t, place, with) == pc' = [pc EXCEPT ![t] = place] /\ call' = [call EXCEPT ![t] = with]

Keeping == UNCHANGED <<requests, newest, events, lock>>

\* Mutation: a capsule that brings credentials is not compared with the token.
GrantedByAnyToken(run) == run.seen = "approved" \/ run.token # "none"

(* approval_granted: the credentials of an approved request are put into   *)
(* the capsule; without one those it came with are compared with the token.*)
Granted(run) == run.seen = "approved" \/ run.token = "right"

\* hlf_capsule_run executes the capsule or returns approval_required.
Gate(t, run) == IF Granted(run) THEN Goto(t, "running", run) ELSE Goto(t, "idle", Idle)

\* _resolve_approval_request: with credentials a pending request is decided.
Resolve(t, run) ==
  IF run.token # "none" /\ run.seen = "pending"
  THEN Goto(t, "decide", [run EXCEPT !.decision = "approved"])
  ELSE Gate(t, run)

(* hlf_capsule_run, with approved_by and approval_token or without them:   *)
(* ensure_request finds the newest request of the capsule,                 *)
StartRun(t, c, token) ==
  /\ At(t, "idle") /\ LockFree(t)
  /\ newest[c] # 0
  /\ Resolve(t, [Idle EXCEPT !.capsule = c, !.token = token,
                              !.request = newest[c], !.seen = requests[newest[c]].status])
  /\ Keeping

\* or none,
StartFirstRun(t, c, token) ==
  /\ At(t, "idle") /\ LockFree(t)
  /\ newest[c] = 0
  /\ Goto(t, "insert", [Idle EXCEPT !.capsule = c, !.token = token])
  /\ lock' = lock \cup {t}
  /\ UNCHANGED <<requests, newest, events>>

(* and commits a new one with its event.  created_at was read before, so a *)
(* request that another server has committed meanwhile may be newer.       *)
InsertRequest(t) ==
  /\ At(t, "insert")
  /\ LET c == call[t].capsule
         r == Len(requests) + 1 IN
     /\ requests' = Append(requests, [capsule |-> c, status |-> "pending", by |-> Home[t]])
     /\ \E s \in {r, newest[c]} \ {0} : newest' = [newest EXCEPT ![c] = s]
     /\ events' = Append(events, Event(t, r, "requested", c))
     /\ Resolve(t, [call[t] EXCEPT !.request = r, !.seen = "pending"])
  /\ lock' = lock \ {t}

\* Mutation: the status is not looked at.
DecidingAnyStatus(t, with) ==
  /\ LockFree(t)
  /\ with.decision = "approved" => with.token = "right"
  /\ Goto(t, "update", with)
  /\ lock' = lock \cup {t}
  /\ UNCHANGED <<requests, newest, events>>

\* Mutation: the lock of the server is not waited for.
DecidingUnlocked(t, with) ==
  /\ requests[with.request].status = "pending"
  /\ with.decision = "approved" => with.token = "right"
  /\ Goto(t, "update", with)
  /\ lock' = lock \cup {t}
  /\ UNCHANGED <<requests, newest, events>>

\* decide goes on to its transaction.
Deciding(t, with) ==
  /\ LockFree(t)
  /\ requests[with.request].status = "pending"
  /\ with.decision = "approved" => with.token = "right"
  /\ Goto(t, "update", with)
  /\ lock' = lock \cup {t}
  /\ UNCHANGED <<requests, newest, events>>

(* hlf_capsule_review_decide.  A call that raises, or finds the request as *)
(* it wants it, changes nothing.                                           *)
Review(t, r, decision, token) ==
  /\ At(t, "idle")
  /\ Deciding(t, [Idle EXCEPT !.request = r, !.decision = decision, !.token = token])

\* A run decides the request it was given:
RunDecides(t) == At(t, "decide") /\ Deciding(t, call[t])

\* it is approved meanwhile,
RunDecidesAgain(t) ==
  /\ At(t, "decide") /\ LockFree(t)
  /\ requests[call[t].request].status = "approved"
  /\ Gate(t, [call[t] EXCEPT !.seen = "approved"])
  /\ Keeping

\* or rejected, or the token is wrong: decide raises and ends the run.
RunRaises(t) ==
  /\ At(t, "decide") /\ LockFree(t)
  /\ LET status == requests[call[t].request].status IN
     status = "rejected" \/ (status = "pending" /\ call[t].token # "right")
  /\ Goto(t, "idle", Idle)
  /\ Keeping

\* decide commits the new status and its event; a run goes on.
Commit(t) ==
  /\ At(t, "update")
  /\ LET r == call[t].request
         d == call[t].decision IN
     /\ requests' = [requests EXCEPT ![r].status = d]
     /\ events' = Append(events, Event(t, r, d, requests[r].capsule))
     /\ IF call[t].capsule = "none" THEN Goto(t, "idle", Idle)
        ELSE Gate(t, [call[t] EXCEPT !.seen = d])
  /\ lock' = lock \ {t}
  /\ UNCHANGED newest

\* The run is over.
Finish(t) == At(t, "running") /\ Goto(t, "idle", Idle) /\ Keeping

Next == \E t \in Threads :
  \/ \E c \in Capsules, token \in Tokens : StartRun(t, c, token) \/ StartFirstRun(t, c, token)
  \/ \E r \in DOMAIN requests : Review(t, r, "rejected", "none")
  \/ \E r \in DOMAIN requests, token \in Tokens : Review(t, r, "approved", token)
  \/ InsertRequest(t) \/ RunDecides(t) \/ RunDecidesAgain(t) \/ RunRaises(t)
  \/ Commit(t) \/ Finish(t)

Spec == Init /\ [][Next]_vars

-----------------------------------------------------------------------------
EventsOf(r) == {i \in DOMAIN events : events[i].request = r}

\* The errors verify_chain() reports.
ChainErrors ==
  {i \in DOMAIN events :
     LET prev == IF i = 1 THEN ZeroHash ELSE events[i - 1].trace IN
     \/ events[i].prev # prev
     \/ events[i].trace # TraceId(prev, events[i].type, events[i].capsule)}

(* The types; a server's lock has one holder, in the middle of a method,   *)
(* and a request's status is what its last event says.                     *)
LedgerTypeOK ==
  /\ requests \in Seq([capsule : Capsules, status : Statuses, by : Processes])
  /\ newest \in [Capsules -> {0} \cup DOMAIN requests]
  /\ \A i \in DOMAIN events : events[i].type \in Types /\ events[i].request \in DOMAIN requests
  /\ lock = {t \in Threads : pc[t] \in {"insert", "update"}}
  /\ \A t, u \in lock : Home[t] = Home[u] => t = u
  /\ \A r \in DOMAIN requests : \E i \in EventsOf(r) :
       /\ \A j \in EventsOf(r) : j <= i
       /\ requests[r].status = (IF events[i].type = "requested" THEN "pending" ELSE events[i].type)

(* verify_chain() finds no error, however many servers write: the hash an  *)
(* event links to is read inside the transaction that adds the event.      *)
ChainVerifies == ChainErrors = {}

(* One server asks once for a capsule and decides a request once, and a    *)
(* request has one beginning: duplicates and overturned decisions come     *)
(* from another server that read before and wrote after.                   *)
OncePerServer ==
  \A i, j \in DOMAIN events :
    i < j /\ events[i].by = events[j].by =>
      /\ events[i].type = "requested" /\ events[j].type = "requested" =>
           events[i].capsule # events[j].capsule
      /\ events[i].type # "requested" /\ events[j].type # "requested" =>
           events[i].request # events[j].request

(* A capsule runs only when the request its run was shown was approved, or *)
(* when it brought the right credentials after that request was rejected:  *)
(* approval_granted() does not look at the request.                        *)
RunJustified ==
  \A t \in Threads : At(t, "running") =>
    \E i \in EventsOf(call[t].request) :
      /\ events[i].capsule = call[t].capsule
      /\ \/ events[i].type = "approved"
         \/ events[i].type = "rejected" /\ call[t].token = "right"
=============================================================================
