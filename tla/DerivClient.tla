----------------------------- MODULE DerivClient -----------------------------
(***************************************************************************)
(* The request/response client over Deriv's WebSocket and the adapter      *)
(* operations built on it (src/broker/src/deriv.rs).                       *)
(*                                                                         *)
(* Two tasks of the program share the map of pending requests: the caller  *)
(* (one operation of DerivAdapter at a time, as run_real_cycle awaits      *)
(* them) and the reader task that owns the socket's read half.  Deriv and  *)
(* the network are the environment: a frame may never be served, a reply   *)
(* may never arrive, replies arrive in any order, and a trade may execute  *)
(* long after the call that asked for it gave up.                          *)
(*                                                                         *)
(* Time is abstracted: REQUEST_TIMEOUT and the heartbeat may elapse at any *)
(* await they cover.  A frame is known by its req_id, which is its place   *)
(* in the sequence of requests; a reply's body by how the code reads it.   *)
(***************************************************************************)
EXTENDS Naturals, Sequences, FiniteSets

CONSTANTS
    MAX_ATTEMPTS,  \* attempts call_with_retry makes (4 in the code)
    MaxRequests,   \* bound: frames sent in one behaviour
    Bodies         \* the replies Deriv gives, by how the adapter reads them: "ok"
                   \* carries the fields it looks for, "odd" lacks one, "error" is
                   \* Deriv's {"error": ...} and "limited" that shape with a rate limit

ASSUME AttemptsAssumption == MAX_ATTEMPTS \in Nat \ {0}
ASSUME RequestsAssumption == MaxRequests \in Nat
ASSUME BodiesAssumption == Bodies \subseteq {"ok", "odd", "error", "limited"}

VARIABLES
    requests,  \* every request issued, in req_id order: its kind and its operation
    pending,   \* PendingRequests: ids whose oneshot sender is in the map
    wire,      \* ids of frames written that Deriv has not served
    replies,   \* replies on their way to the reader task
    executed,  \* ids of the buys and sells Deriv has executed
    reader,    \* the reader task: "reading", or "ended" once the stream broke
    pc,        \* where the caller is
    op,        \* the adapter operation it performs
    step,      \* which request of that operation
    attempt,   \* call_with_retry's attempt counter
    channel,   \* what the reader put in the oneshot the caller holds
    outcomes   \* how every finished operation ended

caller == <<pc, op, step, attempt, channel, outcomes>>
vars == <<requests, pending, wire, replies, executed, reader, caller>>

-----------------------------------------------------------------------------
\* Helpers

\* The requests each operation makes, in order.  A snapshot asks for two pairs
\* and list_open_positions for one contract; get_account_equity makes one
\* retried request and differs in nothing else.
AuthorizeCalls == <<"authorize">>
SnapshotCalls == <<"ticks", "ticks">>
ListCalls == <<"portfolio", "proposal_open_contract">>
OrderCalls == <<"proposal", "buy">>
CloseCalls == <<"sell">>

Calls == [authorize |-> AuthorizeCalls,
          snapshot  |-> SnapshotCalls,
          list      |-> ListCalls,
          order     |-> OrderCalls,
          close     |-> CloseCalls]

Operations == DOMAIN Calls
Trades == {"buy", "sell"}
Kinds == UNION {{Calls[o][i] : i \in DOMAIN Calls[o]} : o \in Operations}

NoReply == "none"

Failures == {"Rejected", "MalformedResponse", "Timeout", "ConnectionFailed"}

\* The requests sent through call_with_retry: the rest use plain call.
Retried(kind) == kind \notin Trades \cup {"authorize"}

IsRetryable(error) == error \in {"Timeout", "ConnectionFailed"}

OutOfAttempts == attempt + 1 >= MAX_ATTEMPTS

ReqId == Len(requests)
Kind == Calls[op][step]
Waiting == pc \in {"sending", "waiting", "removing"}
Finished == Len(outcomes)

\* The most frames an operation can send.
Budget(o) ==
    Cardinality({i \in DOMAIN Calls[o] : ~Retried(Calls[o][i])})
      + MAX_ATTEMPTS * Cardinality({i \in DOMAIN Calls[o] : Retried(Calls[o][i])})

-----------------------------------------------------------------------------
\* Init: connect succeeded, so there is a socket, a reader task and no request

Init ==
    /\ requests = <<>> /\ pending = {} /\ wire = {} /\ replies = {}
    /\ executed = {} /\ reader = "reading"
    /\ pc = "idle" /\ op = "authorize" /\ step = 1 /\ attempt = 0
    /\ channel = NoReply /\ outcomes = <<>>

-----------------------------------------------------------------------------
\* The caller

\* The operation returns to its caller with this result.
Return(result) ==
    /\ outcomes' = Append(outcomes, [op |-> op, result |-> result])
    /\ pc' = "idle" /\ op' = op /\ step' = 1 /\ attempt' = 0 /\ channel' = NoReply

\* Variant of Fail: every request is retried, whoever sent it.
Fail_AlwaysRetried(error) ==
    IF IsRetryable(error) /\ ~OutOfAttempts
    THEN /\ pc' = "backoff" /\ channel' = NoReply
         /\ UNCHANGED <<op, step, attempt, outcomes>>
    ELSE Return(error)

\* Variant of Fail: attempts are not counted.
Fail_NeverGivesUp(error) ==
    IF Retried(Kind) /\ IsRetryable(error)
    THEN /\ pc' = "backoff" /\ channel' = NoReply
         /\ UNCHANGED <<op, step, attempt, outcomes>>
    ELSE Return(error)

\* The request failed: call_with_retry sleeps before the next attempt, plain
\* call hands the error up and `?` ends the operation.
Fail(error) ==
    IF Retried(Kind) /\ IsRetryable(error) /\ ~OutOfAttempts
    THEN /\ pc' = "backoff" /\ channel' = NoReply
         /\ UNCHANGED <<op, step, attempt, outcomes>>
    ELSE Return(error)

\* The daemon starts an operation.  DerivAdapter's constructor authorizes, and
\* no adapter exists unless that succeeded.  A failed snapshot (the heartbeat)
\* ends the invocation, so nothing follows it.
Begin(o) ==
    /\ pc = "idle"
    /\ (o = "authorize") <=> (outcomes = <<>>)
    /\ \A n \in DOMAIN outcomes :
         outcomes[n].op \in {"authorize", "snapshot"} => outcomes[n].result = "Ok"
    /\ Len(requests) + Budget(o) <= MaxRequests
    /\ pc' = "issue" /\ op' = o /\ step' = 1 /\ attempt' = 0
    /\ UNCHANGED <<requests, pending, wire, replies, executed, reader, channel, outcomes>>

\* call: take the next req_id and leave a oneshot sender under it.
Issue ==
    /\ pc = "issue"
    /\ requests' = Append(requests, [kind |-> Kind, for |-> Finished + 1])
    /\ pending' = pending \cup {ReqId + 1}
    /\ pc' = "sending" /\ channel' = NoReply
    /\ UNCHANGED <<wire, replies, executed, reader, op, step, attempt, outcomes>>

\* The socket took the frame.
Sent ==
    /\ pc = "sending"
    /\ wire' = wire \cup {ReqId}
    /\ pc' = "waiting"
    /\ UNCHANGED <<requests, pending, replies, executed, reader, op, step, attempt,
                   channel, outcomes>>

\* The write failed.  Deriv may have the frame all the same: a write can fail
\* on its flush.
SendFails ==
    /\ pc = "sending"
    /\ pending' = pending \ {ReqId}
    /\ wire' \in {wire, wire \cup {ReqId}}
    /\ Fail("ConnectionFailed")
    /\ UNCHANGED <<requests, replies, executed, reader>>

\* The timeout's inner future was ready: the body decides.  authorize ignores
\* what a reply without an error holds.
Answered ==
    /\ pc = "waiting" /\ channel # NoReply
    /\ \/ /\ channel \in {"error", "limited"}
          /\ Fail("Rejected")
       \/ /\ channel = "odd" /\ Kind # "authorize"
          /\ Return("MalformedResponse")
       \/ /\ channel = "ok" \/ (channel = "odd" /\ Kind = "authorize")
          /\ IF step < Len(Calls[op])
             THEN /\ pc' = "issue" /\ step' = step + 1 /\ attempt' = 0
                  /\ channel' = NoReply
                  /\ UNCHANGED <<op, outcomes>>
             ELSE Return("Ok")
    /\ UNCHANGED <<requests, pending, wire, replies, executed, reader>>

\* Variant of Elapsed: the timeout covers reading the reply, not waiting for it.
Elapsed_Untimed ==
    /\ pc = "waiting" /\ channel # NoReply
    /\ pc' = "removing" /\ channel' = NoReply
    /\ UNCHANGED <<requests, pending, wire, replies, executed, reader, op, step,
                   attempt, outcomes>>

\* REQUEST_TIMEOUT elapses and the receiver is dropped; the reader may have
\* sent to it since the last poll, or may still find the sender in the map.
Elapsed ==
    /\ pc = "waiting"
    /\ pc' = "removing" /\ channel' = NoReply
    /\ UNCHANGED <<requests, pending, wire, replies, executed, reader, op, step,
                   attempt, outcomes>>

\* Variant of RemovePending: the timeout leaves the entry behind.
RemovePending_LeavesEntry ==
    /\ pc = "removing"
    /\ Fail("Timeout")
    /\ UNCHANGED <<requests, pending, wire, replies, executed, reader>>

\* map_err's closure takes the entry out, if the reader did not.
RemovePending ==
    /\ pc = "removing"
    /\ pending' = pending \ {ReqId}
    /\ Fail("Timeout")
    /\ UNCHANGED <<requests, wire, replies, executed, reader>>

\* The backoff delay is over.
Retry ==
    /\ pc = "backoff"
    /\ pc' = "issue" /\ attempt' = attempt + 1
    /\ UNCHANGED <<requests, pending, wire, replies, executed, reader, op, step,
                   channel, outcomes>>

\* The client is dropped: its map goes, and Drop aborts the reader task.
Drop ==
    /\ pc' = "dropped" /\ pending' = {} /\ reader' = "ended" /\ replies' = {}
    /\ step' = 1 /\ attempt' = 0 /\ channel' = NoReply
    /\ UNCHANGED <<requests, wire, executed, op, outcomes>>

\* check_broker_heartbeat's own timeout drops the snapshot's future at whichever
\* await it is at; the invocation returns, and the client with it. The request's entry
\* stays in the map until then, which nothing sees: no call follows in between.
HeartbeatElapses ==
    /\ op = "snapshot" /\ pc \in {"sending", "waiting", "backoff"}
    /\ Drop

\* The invocation ends between operations.
Dropped ==
    /\ pc = "idle" /\ outcomes # <<>>
    /\ Drop

-----------------------------------------------------------------------------
\* The reader task

\* Variant of Route: whoever waits gets the next reply, whatever its req_id.
Route_ToWhoeverWaits(reply) ==
    /\ reader = "reading"
    /\ replies' = replies \ {reply}
    /\ pending' = pending \ {ReqId}
    /\ channel' = IF ReqId \in pending /\ pc = "waiting" THEN reply.body ELSE channel
    /\ UNCHANGED <<requests, wire, executed, reader, pc, op, step, attempt, outcomes>>

\* One reply read: remove the sender under its req_id and send, or drop it.
\* Sending to a receiver already dropped does nothing.
Route(reply) ==
    /\ reader = "reading"
    /\ replies' = replies \ {reply}
    /\ pending' = pending \ {reply.id}
    /\ channel' = IF reply.id \in pending /\ reply.id = ReqId /\ pc = "waiting"
                  THEN reply.body ELSE channel
    /\ UNCHANGED <<requests, wire, executed, reader, pc, op, step, attempt, outcomes>>

\* The stream failed or closed: the task returns.  The senders stay in the map,
\* so no waiting call is told, and what the socket held is never read.
ReaderEnds ==
    /\ reader = "reading"
    /\ reader' = "ended" /\ replies' = {}
    /\ UNCHANGED <<requests, pending, wire, executed, caller>>

-----------------------------------------------------------------------------
\* Deriv

\* Deriv serves a frame.  It executes a trade it answers "ok" and refuses one it
\* answers with an error; a reply the adapter cannot read says neither.  Nobody
\* reads the answer once the reader is gone.
Serve(id, body) ==
    /\ wire' = wire \ {id}
    /\ replies' = IF reader = "ended" THEN {}
                  ELSE replies \cup {[id |-> id, body |-> body]}
    /\ \/ /\ requests[id].kind \in Trades /\ body \in {"ok", "odd"}
          /\ executed' = executed \cup {id}
       \/ /\ requests[id].kind \notin Trades \/ body # "ok"
          /\ executed' = executed
    /\ UNCHANGED <<requests, pending, reader, caller>>

-----------------------------------------------------------------------------

Next ==
    \/ \E o \in Operations : Begin(o)
    \/ Issue \/ Sent \/ SendFails \/ Answered \/ Elapsed \/ RemovePending \/ Retry
    \/ HeartbeatElapses \/ Dropped
    \/ \E reply \in replies : Route(reply)
    \/ ReaderEnds
    \/ \E id \in wire, body \in Bodies : Serve(id, body)

Spec == Init /\ [][Next]_vars

\* The caller's task is polled: it leaves every await, because a wait is timed,
\* a sleep ends and, assumed of the socket, a write returns.
CallerFairness ==
    /\ WF_vars(Issue)
    /\ WF_vars(Sent \/ SendFails)
    /\ WF_vars(Answered \/ Elapsed)
    /\ WF_vars(RemovePending)
    /\ WF_vars(Retry)

FairSpec == Spec /\ CallerFairness

-----------------------------------------------------------------------------
\* Properties

RequestIds == 1 .. Len(requests)

\* The shape of the state; the caller's step and attempt stay within the
\* operation, and only requests that were issued are anywhere.
TypeOK ==
    /\ requests \in Seq([kind : Kinds, for : Nat \ {0}])
    /\ pending \subseteq RequestIds /\ wire \subseteq RequestIds /\ executed \subseteq RequestIds
    /\ replies \subseteq [id : RequestIds, body : Bodies]
    /\ reader \in {"reading", "ended"}
    /\ pc \in {"idle", "issue", "sending", "waiting", "removing", "backoff", "dropped"}
    /\ op \in Operations /\ step \in DOMAIN Calls[op] /\ attempt \in 0 .. MAX_ATTEMPTS - 1
    /\ channel \in Bodies \cup {NoReply}
    /\ outcomes \in Seq([op : Operations, result : Failures \cup {"Ok"}])

TradesOf(n) == {id \in executed : requests[id].for = n}

\* However replies are lost or late, one submit_order buys at most once and one
\* close_position sells at most once (the promise of ADR 0003).
OncePerOperation ==
    \A i, k \in executed : requests[i].for = requests[k].for => i = k

\* What an operation reported of the account stays true: an order reported
\* filled was executed, and one reported rejected never is, not even later.
OutcomeIsHonest ==
    \A n \in DOMAIN outcomes : outcomes[n].op \in {"order", "close"} =>
        /\ outcomes[n].result = "Ok" => TradesOf(n) # {}
        /\ outcomes[n].result = "Rejected" => TradesOf(n) = {}

\* PendingRequests does not grow: the map holds the call in progress and nothing
\* else, whichever of the reader and the timeout got there first.
NothingLeftWaiting ==
    pending \subseteq (IF Waiting THEN {ReqId} ELSE {})

\* Every operation returns, though the reader task may have died under it.
OperationEnds == []<>(pc \in {"idle", "dropped"})

-----------------------------------------------------------------------------
\* The inductive invariant

\* No plain trade is under way but the one in call, and the operation's earlier
\* requests were no trades; between two requests it has made no trade at all.
CallKnown ==
    LET earlier == IF Waiting THEN 1 .. ReqId - 1 ELSE RequestIds
    IN  /\ Waiting => requests # <<>> /\ requests[ReqId] = [kind |-> Kind, for |-> Finished + 1]
        /\ pc # "dropped" =>
             \A i \in earlier : requests[i].for = Finished + 1 => requests[i].kind \notin Trades
        /\ \A i \in RequestIds : requests[i].for <= Finished + 1

OneTradePerOperation ==
    \A i, k \in RequestIds :
        /\ requests[i].kind \in Trades /\ requests[k].kind \in Trades
        /\ requests[i].for = requests[k].for
        => i = k

\* What a reply says of a trade is so and stays so: the frame has been served.
Told(id, body) ==
    /\ id \notin wire
    /\ requests[id].kind \in Trades =>
         /\ body = "ok" => id \in executed
         /\ body \in {"error", "limited"} => id \notin executed

RepliesTrue ==
    /\ \A reply \in replies : Told(reply.id, reply.body)
    /\ channel # NoReply =>
         pc = "waiting" /\ ReqId \notin pending /\ Told(ReqId, channel)
    /\ \A id \in executed : requests[id].kind \in Trades /\ id \notin wire
    /\ pc = "sending" =>
         /\ ReqId \notin wire \cup executed
         /\ \A reply \in replies : reply.id # ReqId

\* A trade of an operation reported rejected was refused, or never asked for: no
\* frame of it is left that Deriv could still execute.
RejectedIsOver ==
    \A n \in DOMAIN outcomes :
        outcomes[n].op \in {"order", "close"} /\ outcomes[n].result = "Rejected" =>
            \A i \in RequestIds :
                requests[i].for = n /\ requests[i].kind \in Trades => i \notin wire \cup executed

AttemptsLeft == pc = "backoff" => ~OutOfAttempts

IInv ==
    /\ TypeOK
    /\ AttemptsLeft
    /\ CallKnown
    /\ OneTradePerOperation
    /\ RepliesTrue
    /\ RejectedIsOver
    /\ OutcomeIsHonest
    /\ NothingLeftWaiting

=============================================================================
