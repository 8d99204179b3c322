------------------------- MODULE DerivClientProofs -------------------------
(***************************************************************************)
(* The safety invariants of DerivClient, for any number of attempts, any   *)
(* number of requests and any replies.                                     *)
(***************************************************************************)
EXTENDS DerivClient, SequenceTheorems, TLAPS

\* Every operation makes one trade at most, and as its last request.
LEMMA CallsFacts ==
  ASSUME NEW o \in Operations
  PROVE  /\ Len(Calls[o]) \in Nat \ {0} /\ DOMAIN Calls[o] = 1 .. Len(Calls[o])
         /\ \A s \in DOMAIN Calls[o] :
              /\ Calls[o][s] \in Kinds
              /\ Calls[o][s] \in Trades => s = Len(Calls[o])
         /\ o \in {"order", "close"} => Calls[o][Len(Calls[o])] \in Trades
<1>1. o \in {"authorize", "snapshot", "list", "order", "close"}
  BY DEF Operations, Calls
<1>2. \A s \in DOMAIN Calls[o] : Calls[o][s] \in Kinds
  BY DEF Kinds
<1>3. CASE o = "authorize"
  <2>1. Calls[o] = <<"authorize">>
    BY <1>3 DEF Calls, AuthorizeCalls
  <2> QED
    BY <1>2, <1>3, <2>1 DEF Trades
<1>4. CASE o = "snapshot"
  <2>1. Calls[o] = <<"ticks", "ticks">>
    BY <1>4 DEF Calls, SnapshotCalls
  <2> QED
    BY <1>2, <1>4, <2>1 DEF Trades
<1>5. CASE o = "list"
  <2>1. Calls[o] = <<"portfolio", "proposal_open_contract">>
    BY <1>5 DEF Calls, ListCalls
  <2> QED
    BY <1>2, <1>5, <2>1 DEF Trades
<1>6. CASE o = "order"
  <2>1. Calls[o] = <<"proposal", "buy">>
    BY <1>6 DEF Calls, OrderCalls
  <2> QED
    BY <1>2, <1>6, <2>1 DEF Trades
<1>7. CASE o = "close"
  <2>1. Calls[o] = <<"sell">>
    BY <1>7 DEF Calls, CloseCalls
  <2> QED
    BY <1>2, <1>7, <2>1 DEF Trades
<1> QED
  BY <1>1, <1>3, <1>4, <1>5, <1>6, <1>7

LEMMA TypedFacts ==
  ASSUME TypeOK
  PROVE  /\ ReqId \in Nat /\ DOMAIN requests = 1 .. ReqId /\ RequestIds = 1 .. ReqId
         /\ Finished \in Nat /\ DOMAIN outcomes = 1 .. Finished
         /\ Kind \in Kinds
         /\ Kind \in Trades => step = Len(Calls[op])
         /\ op \in {"order", "close"} /\ step = Len(Calls[op]) => Kind \in Trades
         /\ \A i \in RequestIds : requests[i].kind \in Kinds /\ requests[i].for \in Nat \ {0}
         /\ 1 \in DOMAIN Calls[op]
         /\ NoReply \notin Bodies
         /\ 0 \in 0 .. MAX_ATTEMPTS - 1
<1>1. requests \in Seq([kind : Kinds, for : Nat \ {0}])
      /\ outcomes \in Seq([op : Operations, result : Failures \cup {"Ok"}])
  BY DEF TypeOK
<1>2. /\ ReqId \in Nat /\ DOMAIN requests = 1 .. ReqId /\ RequestIds = 1 .. ReqId
      /\ Finished \in Nat /\ DOMAIN outcomes = 1 .. Finished
      /\ \A i \in RequestIds : requests[i].kind \in Kinds /\ requests[i].for \in Nat \ {0}
  <2>1. /\ Len(requests) \in Nat /\ DOMAIN requests = 1 .. Len(requests)
        /\ Len(outcomes) \in Nat /\ DOMAIN outcomes = 1 .. Len(outcomes)
    BY <1>1
  <2>2. \A i \in 1 .. Len(requests) : requests[i] \in [kind : Kinds, for : Nat \ {0}]
    BY <1>1, ElementOfSeq
  <2> QED
    BY <2>1, <2>2 DEF ReqId, RequestIds, Finished
<1>3. op \in Operations /\ step \in DOMAIN Calls[op]
  BY DEF TypeOK
<1>4. /\ Kind \in Kinds
      /\ Kind \in Trades => step = Len(Calls[op])
      /\ op \in {"order", "close"} /\ step = Len(Calls[op]) => Kind \in Trades
      /\ 1 \in DOMAIN Calls[op]
  BY <1>3, CallsFacts DEF Kind
<1>5. NoReply \notin Bodies
  BY BodiesAssumption DEF NoReply
<1>6. 0 \in 0 .. MAX_ATTEMPTS - 1
  BY AttemptsAssumption, SMT
<1> QED
  BY <1>2, <1>4, <1>5, <1>6

-----------------------------------------------------------------------------

LEMMA InitHolds == Init => IInv
<1> SUFFICES ASSUME Init PROVE IInv
  OBVIOUS
<1>1. requests = <<>> /\ ReqId = 0 /\ RequestIds = {} /\ outcomes = <<>> /\ DOMAIN outcomes = {}
      /\ Finished = 0
  BY DEF Init, ReqId, RequestIds, Finished
<1>2. "authorize" \in Operations
  BY DEF Operations, Calls
<1>3. TypeOK
  <2>1. 0 \in 0 .. MAX_ATTEMPTS - 1
    BY AttemptsAssumption, SMT
  <2>2. 1 \in DOMAIN Calls["authorize"]
    BY <1>2, CallsFacts
  <2> QED
    BY <1>1, <1>2, <2>1, <2>2 DEF Init, TypeOK
<1> QED
  BY <1>1, <1>3 DEF Init, IInv, AttemptsLeft, CallKnown, Waiting, OneTradePerOperation,
     RepliesTrue, RejectedIsOver, OutcomeIsHonest, NothingLeftWaiting

\* The environment's part of a step that keeps the requests: replies and executions
\* stay as they are, but the frame of the request under way may reach the wire.
KeepsFrames ==
  /\ requests' = requests /\ replies' = replies /\ executed' = executed /\ reader' = reader
  /\ pending' \subseteq pending /\ ReqId \notin pending'
  /\ wire' = wire \/ (pc = "sending" /\ wire' = wire \cup {ReqId})

\* What a step of this kind keeps of the replies.
LEMMA FramesKept ==
  ASSUME IInv, Waiting, KeepsFrames
  PROVE  /\ \A reply \in replies : Told(reply.id, reply.body)'
         /\ pending' = {}
         /\ \A i \in RequestIds : i \in wire' => i \in wire \/ requests[i].for = Finished + 1
         /\ wire' \subseteq RequestIds
<1>1. ReqId \in RequestIds /\ requests[ReqId].for = Finished + 1
  <2>1. requests # <<>> /\ requests \in Seq([kind : Kinds, for : Nat \ {0}])
    BY DEF IInv, CallKnown, TypeOK
  <2> QED
    BY <2>1 DEF IInv, CallKnown, ReqId, RequestIds
<1>2. \A reply \in replies : reply.id \in wire' => reply.id \in wire
  BY DEF KeepsFrames, IInv, RepliesTrue
<1>3. \A reply \in replies : Told(reply.id, reply.body)'
  BY <1>2 DEF KeepsFrames, IInv, RepliesTrue, Told
<1>4. pending' = {}
  BY DEF KeepsFrames, IInv, NothingLeftWaiting
<1> QED
  BY <1>1, <1>3, <1>4 DEF KeepsFrames, IInv, TypeOK


\* The operation returns from a request under way.
LEMMA ReturnPreserves ==
  ASSUME IInv, Waiting, KeepsFrames, NEW result \in Failures \cup {"Ok"}, Return(result),
         op \in {"order", "close"} /\ result = "Ok" => TradesOf(Finished + 1) # {},
         op \in {"order", "close"} /\ result = "Rejected" =>
           \A i \in RequestIds :
             requests[i].for = Finished + 1 /\ requests[i].kind \in Trades =>
               i \notin wire' \cup executed
  PROVE  IInv'
<1>1. /\ pc' = "idle" /\ op' = op /\ step' = 1 /\ attempt' = 0 /\ channel' = NoReply
      /\ outcomes' = Append(outcomes, [op |-> op, result |-> result])
  BY DEF Return
<1>2. /\ requests' = requests /\ replies' = replies /\ executed' = executed
      /\ reader' = reader /\ ReqId' = ReqId /\ RequestIds' = RequestIds
  BY DEF KeepsFrames, ReqId, RequestIds
<1>3. /\ outcomes' \in Seq([op : Operations, result : Failures \cup {"Ok"}])
      /\ Finished' = Finished + 1 /\ DOMAIN outcomes' = 1 .. Finished + 1
      /\ \A n \in DOMAIN outcomes : outcomes'[n] = outcomes[n]
      /\ outcomes'[Finished + 1] = [op |-> op, result |-> result]
      /\ DOMAIN outcomes = 1 .. Finished /\ Finished \in Nat
  <2>1. /\ outcomes \in Seq([op : Operations, result : Failures \cup {"Ok"}])
        /\ [op |-> op, result |-> result] \in [op : Operations, result : Failures \cup {"Ok"}]
    BY DEF IInv, TypeOK
  <2> QED
    BY <1>1, <2>1 DEF Finished
<1>4. /\ \A reply \in replies : Told(reply.id, reply.body)'
      /\ pending' = {}
      /\ \A i \in RequestIds : i \in wire' => i \in wire \/ requests[i].for = Finished + 1
      /\ wire' \subseteq RequestIds
  BY FramesKept
<1>5. TypeOK'
  BY <1>1, <1>2, <1>3, <1>4, TypedFacts DEF IInv, TypeOK
<1>6. CallKnown'
  <2>1. \A i \in RequestIds : requests[i].for <= Finished + 1 /\ requests[i].for \in Nat
    BY TypedFacts DEF IInv, CallKnown
  <2>2. \A i \in RequestIds : requests[i].for <= Finished + 2 /\ requests[i].for # Finished + 2
    BY <1>3, <2>1, SMT
  <2>3. Finished' + 1 = Finished + 2
    BY <1>3, SMT
  <2> QED
    BY <1>1, <1>2, <2>2, <2>3 DEF CallKnown, Waiting
<1>7. OneTradePerOperation'
  BY <1>2 DEF IInv, OneTradePerOperation
<1>8. RepliesTrue'
  BY <1>1, <1>2, <1>4 DEF IInv, RepliesTrue, KeepsFrames
<1>9. RejectedIsOver'
  <2> SUFFICES ASSUME NEW n \in DOMAIN outcomes',
                      outcomes'[n].op \in {"order", "close"}, outcomes'[n].result = "Rejected",
                      NEW i \in RequestIds, requests[i].for = n, requests[i].kind \in Trades
               PROVE  i \notin wire' \cup executed
    BY <1>2 DEF RejectedIsOver
  <2>1. CASE n = Finished + 1
    BY <1>3, <2>1
  <2>2. CASE n # Finished + 1
    <3>1. n \in DOMAIN outcomes
      BY <1>3, <2>2, SMT
    <3> QED
      BY <1>3, <1>4, <2>2, <3>1 DEF IInv, RejectedIsOver
  <2> QED
    BY <2>1, <2>2
<1>10. OutcomeIsHonest'
  <2>1. \A n : TradesOf(n)' = TradesOf(n)
    BY <1>2 DEF TradesOf
  <2>2. op \in {"order", "close"} /\ result = "Rejected" => TradesOf(Finished + 1) = {}
    BY DEF TradesOf, IInv, RepliesTrue, TypeOK
  <2> SUFFICES ASSUME NEW n \in DOMAIN outcomes', outcomes'[n].op \in {"order", "close"}
               PROVE  /\ outcomes'[n].result = "Ok" => TradesOf(n) # {}
                      /\ outcomes'[n].result = "Rejected" => TradesOf(n) = {}
    BY <2>1 DEF OutcomeIsHonest
  <2>3. CASE n = Finished + 1
    BY <1>3, <2>2, <2>3
  <2>4. CASE n # Finished + 1
    <3>1. n \in DOMAIN outcomes
      BY <1>3, <2>4, SMT
    <3> QED
      BY <1>3, <3>1 DEF IInv, OutcomeIsHonest
  <2> QED
    BY <2>3, <2>4
<1> QED
  BY <1>1, <1>4, <1>5, <1>6, <1>7, <1>8, <1>9, <1>10 DEF IInv, AttemptsLeft, NothingLeftWaiting

\* It sleeps before another attempt: only a request that is no trade does.
LEMMA BackoffPreserves ==
  ASSUME IInv, Waiting, KeepsFrames, Retried(Kind), ~OutOfAttempts,
         pc' = "backoff", channel' = NoReply, UNCHANGED <<op, step, attempt, outcomes>>
  PROVE  IInv'
<1>1. /\ requests' = requests /\ replies' = replies /\ executed' = executed
      /\ reader' = reader /\ ReqId' = ReqId /\ RequestIds' = RequestIds /\ Finished' = Finished
  BY DEF KeepsFrames, ReqId, RequestIds, Finished
<1>2. /\ \A reply \in replies : Told(reply.id, reply.body)'
      /\ pending' = {}
      /\ \A i \in RequestIds : i \in wire' => i \in wire \/ requests[i].for = Finished + 1
      /\ wire' \subseteq RequestIds
  BY FramesKept
<1>3. TypeOK'
  BY <1>1, <1>2 DEF IInv, TypeOK
<1>4. CallKnown'
  <2>1. \A i \in RequestIds : i \in 1 .. ReqId - 1 \/ i = ReqId
    BY TypedFacts, SMT DEF IInv
  <2>2. requests[ReqId].kind \notin Trades
    BY DEF IInv, CallKnown, Retried
  <2>3. \A i \in RequestIds : requests[i].for = Finished + 1 => requests[i].kind \notin Trades
    BY <2>1, <2>2 DEF IInv, CallKnown, Waiting
  <2> QED
    BY <1>1, <2>3 DEF IInv, CallKnown, Waiting
<1>5. OneTradePerOperation'
  BY <1>1 DEF IInv, OneTradePerOperation
<1>6. RepliesTrue'
  BY <1>1, <1>2 DEF IInv, RepliesTrue, KeepsFrames
<1>7. RejectedIsOver'
  <2>1. Finished + 1 \notin DOMAIN outcomes
    BY TypedFacts, SMT DEF IInv
  <2> QED
    BY <1>1, <1>2, <2>1 DEF IInv, RejectedIsOver
<1>8. OutcomeIsHonest'
  BY <1>1 DEF IInv, OutcomeIsHonest, TradesOf
<1>9. AttemptsLeft'
  BY DEF AttemptsLeft, OutOfAttempts
<1> QED
  BY <1>2, <1>3, <1>4, <1>5, <1>6, <1>7, <1>8, <1>9 DEF IInv, NothingLeftWaiting

\* A request that fails without an answer says nothing of the account.
LEMMA FailPreserves ==
  ASSUME IInv, Waiting, KeepsFrames, NEW error \in {"ConnectionFailed", "Timeout"}, Fail(error)
  PROVE  IInv'
<1>1. CASE Return(error)
  BY <1>1, ReturnPreserves DEF Failures
<1>2. CASE ~Return(error)
  <2>1. Retried(Kind) /\ ~OutOfAttempts /\ pc' = "backoff" /\ channel' = NoReply
        /\ UNCHANGED <<op, step, attempt, outcomes>>
    BY <1>2 DEF Fail
  <2> QED
    BY <2>1, BackoffPreserves
<1> QED
  BY <1>1, <1>2


-----------------------------------------------------------------------------
\* One lemma per action

LEMMA BeginPreserves ==
  ASSUME IInv, NEW o \in Operations, Begin(o)
  PROVE  IInv'
<1>1. /\ pc = "idle" /\ pc' = "issue" /\ op' = o /\ step' = 1 /\ attempt' = 0
      /\ UNCHANGED <<requests, pending, wire, replies, executed, reader, channel, outcomes>>
  BY DEF Begin
<1>2. TypeOK'
  <2>1. 1 \in DOMAIN Calls[o] /\ 0 \in 0 .. MAX_ATTEMPTS - 1
    BY CallsFacts, TypedFacts DEF IInv
  <2> QED
    BY <1>1, <2>1 DEF IInv, TypeOK, RequestIds
<1> QED
  BY <1>1, <1>2 DEF IInv, AttemptsLeft, CallKnown, Waiting, RequestIds, ReqId, Finished,
     OneTradePerOperation, RepliesTrue, Told, RejectedIsOver, OutcomeIsHonest, TradesOf,
     NothingLeftWaiting

\* The new request is the operation's only trade, if it is one: no earlier request of
\* the operation was.
LEMMA IssuePreserves ==
  ASSUME IInv, Issue
  PROVE  IInv'
<1> DEFINE request == [kind |-> Kind, for |-> Finished + 1]
<1>1. /\ pc = "issue" /\ pc' = "sending" /\ channel' = NoReply
      /\ requests' = Append(requests, request)
      /\ pending' = pending \cup {ReqId + 1}
      /\ UNCHANGED <<wire, replies, executed, reader, op, step, attempt, outcomes>>
  BY DEF Issue
<1>2. /\ requests' \in Seq([kind : Kinds, for : Nat \ {0}])
      /\ ReqId' = ReqId + 1 /\ RequestIds' = RequestIds \cup {ReqId + 1}
      /\ requests'[ReqId + 1] = request
      /\ \A i \in RequestIds : requests'[i] = requests[i]
      /\ ReqId + 1 \notin RequestIds /\ RequestIds = 1 .. ReqId /\ ReqId \in Nat
  <2>1. request \in [kind : Kinds, for : Nat \ {0}]
    BY TypedFacts DEF IInv
  <2>2. requests \in Seq([kind : Kinds, for : Nat \ {0}])
    BY DEF IInv, TypeOK
  <2>3. /\ requests' \in Seq([kind : Kinds, for : Nat \ {0}])
        /\ Len(requests') = Len(requests) + 1
        /\ requests'[Len(requests) + 1] = request
        /\ \A i \in 1 .. Len(requests) : requests'[i] = requests[i]
    <3> HIDE DEF request
    <3> QED
      BY <1>1, <2>1, <2>2, AppendProperties
  <2>4. Len(requests) \in Nat
    BY <2>2
  <2> QED
    BY <2>3, <2>4, SMT DEF ReqId, RequestIds
<1>3. Finished' = Finished /\ Kind' = Kind /\ Waiting'
  BY <1>1 DEF Finished, Kind, Waiting
<1>4. TypeOK'
  BY <1>1, <1>2 DEF IInv, TypeOK
<1>5. CallKnown'
  <2>1. \A i \in 1 .. ReqId' - 1 : i \in RequestIds
    BY <1>2, SMT
  <2>2. \A i \in RequestIds : requests[i].for = Finished + 1 => requests[i].kind \notin Trades
    BY <1>1 DEF IInv, CallKnown, Waiting
  <2>3. requests' # <<>> /\ requests'[ReqId'] = request
    BY <1>2 DEF ReqId
  <2>4. \A i \in RequestIds' : requests'[i].for <= Finished + 1
    <3>1. request.for <= Finished + 1
      BY TypedFacts, SMT DEF IInv
    <3> QED
      BY <1>2, <3>1 DEF IInv, CallKnown
  <2> QED
    BY <1>2, <1>3, <2>1, <2>2, <2>3, <2>4 DEF CallKnown
<1>6. OneTradePerOperation'
  <2>1. \A i \in RequestIds : requests[i].for = Finished + 1 => requests[i].kind \notin Trades
    BY <1>1 DEF IInv, CallKnown, Waiting
  <2> SUFFICES ASSUME NEW i \in RequestIds \cup {ReqId + 1},
                      NEW k \in RequestIds \cup {ReqId + 1},
                      requests'[i].kind \in Trades, requests'[k].kind \in Trades,
                      requests'[i].for = requests'[k].for
               PROVE  i = k
    BY <1>2 DEF OneTradePerOperation
  <2>2. CASE i \in RequestIds /\ k \in RequestIds
    BY <1>2, <2>2 DEF IInv, OneTradePerOperation
  <2>3. CASE i = ReqId + 1 /\ k \in RequestIds
    BY <1>2, <2>1, <2>3
  <2>4. CASE i \in RequestIds /\ k = ReqId + 1
    BY <1>2, <2>1, <2>4
  <2> QED
    BY <2>2, <2>3, <2>4
<1>7. RepliesTrue'
  <2>1. \A reply \in replies : reply.id \in RequestIds /\ reply.id # ReqId + 1
    BY <1>2 DEF IInv, TypeOK
  <2>2. \A id \in wire \cup executed : id \in RequestIds /\ id # ReqId + 1
    BY <1>2 DEF IInv, TypeOK
  <2> QED
    BY <1>1, <1>2, <2>1, <2>2 DEF IInv, RepliesTrue, Told
<1>8. RejectedIsOver'
  <2>1. Finished + 1 \notin DOMAIN outcomes
    BY TypedFacts, SMT DEF IInv
  <2> SUFFICES ASSUME NEW n \in DOMAIN outcomes,
                      outcomes[n].op \in {"order", "close"}, outcomes[n].result = "Rejected",
                      NEW i \in RequestIds \cup {ReqId + 1},
                      requests'[i].for = n, requests'[i].kind \in Trades
               PROVE  i \notin wire \cup executed
    BY <1>1, <1>2 DEF RejectedIsOver
  <2>2. i \in RequestIds
    BY <1>2, <2>1
  <2> QED
    BY <1>2, <2>2 DEF IInv, RejectedIsOver
<1>9. OutcomeIsHonest'
  <2>1. \A n : TradesOf(n)' = TradesOf(n)
    BY <1>1, <1>2 DEF TradesOf, IInv, TypeOK
  <2> QED
    BY <1>1, <2>1 DEF IInv, OutcomeIsHonest
<1>10. NothingLeftWaiting'
  BY <1>1, <1>2, <1>3 DEF IInv, NothingLeftWaiting, Waiting
<1> QED
  BY <1>1, <1>4, <1>5, <1>6, <1>7, <1>8, <1>9, <1>10 DEF IInv, AttemptsLeft

LEMMA SentPreserves ==
  ASSUME IInv, Sent
  PROVE  IInv'
<1>1. /\ pc = "sending" /\ pc' = "waiting" /\ wire' = wire \cup {ReqId}
      /\ UNCHANGED <<requests, pending, replies, executed, reader, op, step, attempt,
                     channel, outcomes>>
  BY DEF Sent
<1>2. /\ ReqId' = ReqId /\ RequestIds' = RequestIds /\ Finished' = Finished /\ Kind' = Kind
      /\ Waiting /\ Waiting'
  BY <1>1 DEF ReqId, RequestIds, Finished, Kind, Waiting
<1>3. ReqId \in RequestIds /\ requests[ReqId].for = Finished + 1
      /\ Finished + 1 \notin DOMAIN outcomes
  <2>1. requests # <<>> /\ requests \in Seq([kind : Kinds, for : Nat \ {0}])
    BY <1>2 DEF IInv, CallKnown, TypeOK
  <2>2. ReqId \in RequestIds
    BY <2>1 DEF ReqId, RequestIds
  <2>3. Finished + 1 \notin DOMAIN outcomes
    BY TypedFacts, SMT DEF IInv
  <2> QED
    BY <1>2, <2>2, <2>3 DEF IInv, CallKnown
<1>4. TypeOK'
  BY <1>1, <1>2, <1>3 DEF IInv, TypeOK
<1>5. CallKnown'
  BY <1>1, <1>2 DEF IInv, CallKnown
<1>6. RepliesTrue'
  BY <1>1, <1>2 DEF IInv, RepliesTrue, Told
<1>7. RejectedIsOver'
  BY <1>1, <1>2, <1>3 DEF IInv, RejectedIsOver
<1>8. OneTradePerOperation' /\ OutcomeIsHonest'
  BY <1>1, <1>2 DEF IInv, OneTradePerOperation, OutcomeIsHonest, TradesOf
<1> QED
  BY <1>1, <1>2, <1>4, <1>5, <1>6, <1>7, <1>8 DEF IInv, AttemptsLeft, NothingLeftWaiting

LEMMA SendFailsPreserves ==
  ASSUME IInv, SendFails
  PROVE  IInv'
<1>1. Waiting /\ KeepsFrames
  BY DEF SendFails, Waiting, KeepsFrames
<1> QED
  BY <1>1, FailPreserves DEF SendFails

LEMMA ElapsedPreserves ==
  ASSUME IInv, Elapsed
  PROVE  IInv'
<1>1. /\ pc = "waiting" /\ pc' = "removing" /\ channel' = NoReply
      /\ UNCHANGED <<requests, pending, wire, replies, executed, reader, op, step,
                     attempt, outcomes>>
  BY DEF Elapsed
<1>2. /\ ReqId' = ReqId /\ RequestIds' = RequestIds /\ Finished' = Finished /\ Kind' = Kind
      /\ Waiting /\ Waiting'
  BY <1>1 DEF ReqId, RequestIds, Finished, Kind, Waiting
<1>3. TypeOK'
  BY <1>1, <1>2 DEF IInv, TypeOK
<1>4. CallKnown' /\ NothingLeftWaiting'
  BY <1>1, <1>2 DEF IInv, CallKnown, NothingLeftWaiting
<1>5. RepliesTrue'
  BY <1>1, <1>2 DEF IInv, RepliesTrue, Told
<1>6. RejectedIsOver' /\ OneTradePerOperation' /\ OutcomeIsHonest'
  BY <1>1, <1>2 DEF IInv, RejectedIsOver, OneTradePerOperation, OutcomeIsHonest, TradesOf
<1> QED
  BY <1>1, <1>3, <1>4, <1>5, <1>6 DEF IInv, AttemptsLeft

LEMMA RemovePendingPreserves ==
  ASSUME IInv, RemovePending
  PROVE  IInv'
<1>1. Waiting /\ KeepsFrames
  BY DEF RemovePending, Waiting, KeepsFrames
<1> QED
  BY <1>1, FailPreserves DEF RemovePending

LEMMA RetryPreserves ==
  ASSUME IInv, Retry
  PROVE  IInv'
<1>1. /\ pc = "backoff" /\ pc' = "issue" /\ attempt' = attempt + 1
      /\ UNCHANGED <<requests, pending, wire, replies, executed, reader, op, step,
                     channel, outcomes>>
  BY DEF Retry
<1>2. attempt' \in 0 .. MAX_ATTEMPTS - 1
  <2>1. attempt \in 0 .. MAX_ATTEMPTS - 1 /\ ~(attempt + 1 >= MAX_ATTEMPTS)
    BY <1>1 DEF IInv, AttemptsLeft, OutOfAttempts, TypeOK
  <2> QED
    BY <1>1, <2>1, AttemptsAssumption, SMT
<1>3. /\ ReqId' = ReqId /\ RequestIds' = RequestIds /\ Finished' = Finished /\ Kind' = Kind
      /\ ~Waiting /\ ~Waiting'
  BY <1>1 DEF ReqId, RequestIds, Finished, Kind, Waiting
<1> QED
  BY <1>1, <1>2, <1>3 DEF IInv, TypeOK, AttemptsLeft, CallKnown, OneTradePerOperation,
     RepliesTrue, Told, RejectedIsOver, OutcomeIsHonest, TradesOf, NothingLeftWaiting

LEMMA DropPreserves ==
  ASSUME IInv, Drop
  PROVE  IInv'
<1>1. /\ pc' = "dropped" /\ pending' = {} /\ reader' = "ended" /\ replies' = {}
      /\ step' = 1 /\ attempt' = 0 /\ channel' = NoReply
      /\ UNCHANGED <<requests, wire, executed, op, outcomes>>
  BY DEF Drop
<1>2. /\ ReqId' = ReqId /\ RequestIds' = RequestIds /\ Finished' = Finished /\ ~Waiting'
  BY <1>1 DEF ReqId, RequestIds, Finished, Waiting
<1>3. TypeOK'
  BY <1>1, <1>2, TypedFacts DEF IInv, TypeOK
<1> QED
  BY <1>1, <1>2, <1>3 DEF IInv, AttemptsLeft, CallKnown, OneTradePerOperation,
     RepliesTrue, RejectedIsOver, OutcomeIsHonest, TradesOf, NothingLeftWaiting


\* The operation goes on to its next request: the one answered was no trade.
LEMMA NextRequestPreserves ==
  ASSUME IInv, Waiting, KeepsFrames, step < Len(Calls[op]),
         pc' = "issue", step' = step + 1, attempt' = 0, channel' = NoReply,
         UNCHANGED <<op, outcomes>>
  PROVE  IInv'
<1>1. /\ requests' = requests /\ replies' = replies /\ executed' = executed
      /\ reader' = reader /\ ReqId' = ReqId /\ RequestIds' = RequestIds /\ Finished' = Finished
  BY DEF KeepsFrames, ReqId, RequestIds, Finished
<1>2. /\ \A reply \in replies : Told(reply.id, reply.body)'
      /\ pending' = {}
      /\ \A i \in RequestIds : i \in wire' => i \in wire \/ requests[i].for = Finished + 1
      /\ wire' \subseteq RequestIds
  BY FramesKept
<1>3. step' \in DOMAIN Calls[op]
  <2>1. op \in Operations /\ step \in DOMAIN Calls[op]
    BY DEF IInv, TypeOK
  <2>2. DOMAIN Calls[op] = 1 .. Len(Calls[op]) /\ Len(Calls[op]) \in Nat
    BY <2>1, CallsFacts
  <2> QED
    BY <2>1, <2>2, SMT
<1>4. TypeOK'
  BY <1>1, <1>2, <1>3, TypedFacts DEF IInv, TypeOK
<1>5. CallKnown'
  <2>1. \A i \in RequestIds : i \in 1 .. ReqId - 1 \/ i = ReqId
    BY TypedFacts, SMT DEF IInv
  <2>2. requests[ReqId].kind \notin Trades
    <3>1. Kind \notin Trades
      BY TypedFacts, CallsFacts, SMT DEF IInv, TypeOK
    <3> QED
      BY <3>1 DEF IInv, CallKnown
  <2>3. \A i \in RequestIds : requests[i].for = Finished + 1 => requests[i].kind \notin Trades
    BY <2>1, <2>2 DEF IInv, CallKnown, Waiting
  <2> QED
    BY <1>1, <2>3 DEF IInv, CallKnown, Waiting
<1>6. OneTradePerOperation'
  BY <1>1 DEF IInv, OneTradePerOperation
<1>7. RepliesTrue'
  BY <1>1, <1>2 DEF IInv, RepliesTrue, KeepsFrames
<1>8. RejectedIsOver'
  <2>1. Finished + 1 \notin DOMAIN outcomes
    BY TypedFacts, SMT DEF IInv
  <2> QED
    BY <1>1, <1>2, <2>1 DEF IInv, RejectedIsOver
<1>9. OutcomeIsHonest'
  BY <1>1 DEF IInv, OutcomeIsHonest, TradesOf
<1> QED
  BY <1>2, <1>4, <1>5, <1>6, <1>7, <1>8, <1>9 DEF IInv, AttemptsLeft, NothingLeftWaiting

LEMMA AnsweredPreserves ==
  ASSUME IInv, Answered
  PROVE  IInv'
<1>1. /\ pc = "waiting" /\ channel # NoReply
      /\ UNCHANGED <<requests, pending, wire, replies, executed, reader>>
  BY DEF Answered
<1>2. /\ Waiting /\ KeepsFrames /\ ReqId \notin pending /\ Told(ReqId, channel)
  BY <1>1 DEF Waiting, KeepsFrames, IInv, RepliesTrue
<1>3. /\ ReqId \in RequestIds /\ requests[ReqId] = [kind |-> Kind, for |-> Finished + 1]
      /\ \A i \in RequestIds : requests[i].for = Finished + 1 /\ requests[i].kind \in Trades
                                 => i = ReqId
  <2>1. requests # <<>> /\ requests[ReqId] = [kind |-> Kind, for |-> Finished + 1]
    BY <1>2 DEF IInv, CallKnown
  <2>2. ReqId \in RequestIds
    BY <2>1 DEF ReqId, RequestIds, IInv, TypeOK
  <2>3. \A i \in RequestIds : i \in 1 .. ReqId - 1 \/ i = ReqId
    BY TypedFacts, SMT DEF IInv
  <2> QED
    BY <1>1, <1>2, <2>1, <2>2, <2>3 DEF IInv, CallKnown
<1>4. CASE channel \in {"error", "limited"} /\ Fail("Rejected")
  <2>1. Return("Rejected")
    BY <1>4 DEF Fail, IsRetryable
  <2>2. \A i \in RequestIds :
          requests[i].for = Finished + 1 /\ requests[i].kind \in Trades => i \notin wire \cup executed
    BY <1>2, <1>3, <1>4 DEF Told
  <2> QED
    BY <1>1, <1>2, <2>1, <2>2, ReturnPreserves DEF Failures
<1>5. CASE Return("MalformedResponse")
  BY <1>2, <1>5, ReturnPreserves DEF Failures
<1>6. CASE /\ channel = "ok" \/ (channel = "odd" /\ Kind = "authorize")
           /\ IF step < Len(Calls[op])
              THEN /\ pc' = "issue" /\ step' = step + 1 /\ attempt' = 0
                   /\ channel' = NoReply
                   /\ UNCHANGED <<op, outcomes>>
              ELSE Return("Ok")
  <2>1. CASE step < Len(Calls[op])
    BY <1>2, <1>6, <2>1, NextRequestPreserves
  <2>2. CASE ~(step < Len(Calls[op]))
    <3>1. step = Len(Calls[op])
      <4>1. op \in Operations /\ step \in DOMAIN Calls[op]
        BY DEF IInv, TypeOK
      <4>2. DOMAIN Calls[op] = 1 .. Len(Calls[op]) /\ Len(Calls[op]) \in Nat
        BY <4>1, CallsFacts
      <4> QED
        BY <2>2, <4>1, <4>2, SMT
    <3>2. op \in {"order", "close"} => TradesOf(Finished + 1) # {}
      <4> SUFFICES ASSUME op \in {"order", "close"} PROVE ReqId \in TradesOf(Finished + 1)
        OBVIOUS
      <4>1. Kind \in Trades
        BY <3>1, TypedFacts DEF IInv
      <4>2. channel = "ok"
        BY <1>6, <4>1 DEF Trades
      <4> QED
        BY <1>2, <1>3, <4>1, <4>2 DEF Told, TradesOf
    <3> QED
      BY <1>2, <1>6, <2>2, <3>2, ReturnPreserves
  <2> QED
    BY <2>1, <2>2
<1> QED
  BY <1>4, <1>5, <1>6 DEF Answered

\* A reply that finds its sender is the one the caller waits for.
LEMMA RoutePreserves ==
  ASSUME IInv, NEW reply \in replies, Route(reply)
  PROVE  IInv'
<1>1. /\ replies' = replies \ {reply} /\ pending' = pending \ {reply.id}
      /\ channel' = IF reply.id \in pending /\ reply.id = ReqId /\ pc = "waiting"
                    THEN reply.body ELSE channel
      /\ UNCHANGED <<requests, wire, executed, reader, pc, op, step, attempt, outcomes>>
  BY DEF Route
<1>2. /\ ReqId' = ReqId /\ RequestIds' = RequestIds /\ Finished' = Finished /\ Kind' = Kind
      /\ Waiting' = Waiting
  BY <1>1 DEF ReqId, RequestIds, Finished, Kind, Waiting
<1>3. TypeOK'
  BY <1>1, <1>2 DEF IInv, TypeOK
<1>4. RepliesTrue'
  <2>1. CASE reply.id \in pending /\ reply.id = ReqId /\ pc = "waiting"
    BY <1>1, <1>2, <2>1 DEF IInv, RepliesTrue, Told
  <2>2. CASE ~(reply.id \in pending /\ reply.id = ReqId /\ pc = "waiting")
    BY <1>1, <1>2, <2>2 DEF IInv, RepliesTrue, Told
  <2> QED
    BY <2>1, <2>2
<1>5. CallKnown' /\ OneTradePerOperation' /\ RejectedIsOver' /\ OutcomeIsHonest'
  BY <1>1, <1>2 DEF IInv, CallKnown, OneTradePerOperation, RejectedIsOver, OutcomeIsHonest,
     TradesOf
<1> QED
  BY <1>1, <1>2, <1>3, <1>4, <1>5 DEF IInv, AttemptsLeft, OutOfAttempts, NothingLeftWaiting

LEMMA ReaderEndsPreserves ==
  ASSUME IInv, ReaderEnds
  PROVE  IInv'
<1>1. /\ reader' = "ended" /\ replies' = {}
      /\ UNCHANGED <<requests, pending, wire, executed, pc, op, step, attempt, channel, outcomes>>
  BY DEF ReaderEnds, caller
<1>2. /\ ReqId' = ReqId /\ RequestIds' = RequestIds /\ Finished' = Finished /\ Kind' = Kind
      /\ Waiting' = Waiting
  BY <1>1 DEF ReqId, RequestIds, Finished, Kind, Waiting
<1>3. TypeOK'
  BY <1>1, <1>2 DEF IInv, TypeOK
<1> QED
  BY <1>1, <1>2, <1>3 DEF IInv, AttemptsLeft, OutOfAttempts, CallKnown, OneTradePerOperation,
     RepliesTrue, Told, RejectedIsOver, OutcomeIsHonest, TradesOf, NothingLeftWaiting

\* Deriv serves a frame once, so what it says of a trade is final.
LEMMA ServePreserves ==
  ASSUME IInv, NEW id \in wire, NEW body \in Bodies, Serve(id, body)
  PROVE  IInv'
<1>1. /\ wire' = wire \ {id}
      /\ replies' \subseteq replies \cup {[id |-> id, body |-> body]}
      /\ \/ /\ requests[id].kind \in Trades /\ body \in {"ok", "odd"}
            /\ executed' = executed \cup {id}
         \/ /\ requests[id].kind \notin Trades \/ body # "ok"
            /\ executed' = executed
      /\ UNCHANGED <<requests, pending, reader, pc, op, step, attempt, channel, outcomes>>
  BY DEF Serve, caller
<1>2. /\ ReqId' = ReqId /\ RequestIds' = RequestIds /\ Finished' = Finished /\ Kind' = Kind
      /\ Waiting' = Waiting
  BY <1>1 DEF ReqId, RequestIds, Finished, Kind, Waiting
<1>3. id \in RequestIds /\ id \notin executed
  BY DEF IInv, TypeOK, RepliesTrue
<1>4. TypeOK'
  BY <1>1, <1>2, <1>3 DEF IInv, TypeOK
<1>5. RepliesTrue'
  <2>1. \A other, b : other # id /\ Told(other, b) => Told(other, b)'
    BY <1>1 DEF Told
  <2>2. Told(id, body)'
    BY <1>1, <1>3 DEF Told
  <2>3. \A reply \in replies : reply.id # id
    BY DEF IInv, RepliesTrue, Told
  <2>4. \A reply \in replies' : Told(reply.id, reply.body)'
    BY <1>1, <2>1, <2>2, <2>3 DEF IInv, RepliesTrue
  <2>5. channel # NoReply =>
          pc = "waiting" /\ ReqId \notin pending /\ ReqId # id /\ Told(ReqId, channel)
    BY DEF IInv, RepliesTrue, Told
  <2>6. \A k \in executed' : requests[k].kind \in Trades /\ k \notin wire'
    BY <1>1 DEF IInv, RepliesTrue
  <2>7. pc = "sending" =>
          /\ ReqId \notin wire' \cup executed'
          /\ \A reply \in replies' : reply.id # ReqId
    BY <1>1 DEF IInv, RepliesTrue
  <2>8. channel' # NoReply => Told(ReqId, channel)'
    BY <1>1, <1>2, <2>5 DEF Told
  <2> QED
    BY <1>1, <1>2, <2>4, <2>5, <2>6, <2>7, <2>8 DEF RepliesTrue
<1>6. RejectedIsOver'
  BY <1>1, <1>2 DEF IInv, RejectedIsOver
<1>7. OutcomeIsHonest'
  <2> SUFFICES ASSUME NEW n \in DOMAIN outcomes, outcomes[n].op \in {"order", "close"}
               PROVE  /\ outcomes[n].result = "Ok" => TradesOf(n)' # {}
                      /\ outcomes[n].result = "Rejected" => TradesOf(n)' = {}
    BY <1>1 DEF OutcomeIsHonest
  <2>1. TradesOf(n) \subseteq TradesOf(n)'
    BY <1>1 DEF TradesOf
  <2>2. outcomes[n].result = "Rejected" => TradesOf(n)' = {}
    BY <1>1, <1>3 DEF TradesOf, IInv, RejectedIsOver, OutcomeIsHonest
  <2> QED
    BY <2>1, <2>2 DEF IInv, OutcomeIsHonest
<1>8. CallKnown' /\ OneTradePerOperation'
  BY <1>1, <1>2 DEF IInv, CallKnown, OneTradePerOperation
<1> QED
  BY <1>1, <1>2, <1>4, <1>5, <1>6, <1>7, <1>8 DEF IInv, AttemptsLeft, OutOfAttempts,
     NothingLeftWaiting

LEMMA StutterPreserves ==
  ASSUME IInv, UNCHANGED vars
  PROVE  IInv'
<1>1. UNCHANGED <<requests, pending, wire, replies, executed, reader, pc, op, step, attempt,
                  channel, outcomes>>
  BY DEF vars, caller
<1>2. /\ ReqId' = ReqId /\ RequestIds' = RequestIds /\ Finished' = Finished /\ Kind' = Kind
      /\ Waiting' = Waiting
  BY <1>1 DEF ReqId, RequestIds, Finished, Kind, Waiting
<1>3. TypeOK'
  BY <1>1, <1>2 DEF IInv, TypeOK
<1> QED
  BY <1>1, <1>2, <1>3 DEF IInv, AttemptsLeft, OutOfAttempts, CallKnown, OneTradePerOperation,
     RepliesTrue, Told, RejectedIsOver, OutcomeIsHonest, TradesOf, NothingLeftWaiting

-----------------------------------------------------------------------------

LEMMA StepHolds == IInv /\ [Next]_vars => IInv'
<1> SUFFICES ASSUME IInv, [Next]_vars PROVE IInv'
  OBVIOUS
<1>1. ASSUME NEW o \in Operations, Begin(o) PROVE IInv'
  BY <1>1, BeginPreserves
<1>2. CASE Issue            BY <1>2, IssuePreserves
<1>3. CASE Sent             BY <1>3, SentPreserves
<1>4. CASE SendFails        BY <1>4, SendFailsPreserves
<1>5. CASE Answered         BY <1>5, AnsweredPreserves
<1>6. CASE Elapsed          BY <1>6, ElapsedPreserves
<1>7. CASE RemovePending    BY <1>7, RemovePendingPreserves
<1>8. CASE Retry            BY <1>8, RetryPreserves
<1>9. CASE HeartbeatElapses \/ Dropped
  BY <1>9, DropPreserves DEF HeartbeatElapses, Dropped
<1>10. ASSUME NEW reply \in replies, Route(reply) PROVE IInv'
  BY <1>10, RoutePreserves
<1>11. CASE ReaderEnds      BY <1>11, ReaderEndsPreserves
<1>12. ASSUME NEW id \in wire, NEW body \in Bodies, Serve(id, body) PROVE IInv'
  BY <1>12, ServePreserves
<1>13. CASE UNCHANGED vars  BY <1>13, StutterPreserves
<1> QED
  BY <1>1, <1>2, <1>3, <1>4, <1>5, <1>6, <1>7, <1>8, <1>9, <1>10, <1>11, <1>12, <1>13
     DEF Next

\* What every reply, frame and outcome says of the requests behind it, for any number
\* of attempts, requests and operations.
THEOREM InductiveInvariant == Spec => []IInv
<1> QED
  BY InitHolds, StepHolds, PTL DEF Spec

\* The state keeps its shape; call_with_retry never counts past its attempts.
THEOREM TypeCorrect == Spec => []TypeOK
<1>1. IInv => TypeOK
  BY DEF IInv
<1> QED
  BY <1>1, InductiveInvariant, PTL

\* One submit_order buys at most once, one close_position sells at most once, however
\* replies are lost, late or reordered. (call_with_retry is not used for either)
THEOREM NoTradeTwice == Spec => []OncePerOperation
<1>1. IInv => OncePerOperation
  BY DEF IInv, TypeOK, OneTradePerOperation, RepliesTrue, OncePerOperation
<1> QED
  BY <1>1, InductiveInvariant, PTL

\* An order reported filled was, and one reported rejected never will be.
\* (submit_order, close_position)
THEOREM OutcomesHonest == Spec => []OutcomeIsHonest
<1>1. IInv => OutcomeIsHonest
  BY DEF IInv
<1> QED
  BY <1>1, InductiveInvariant, PTL

\* PendingRequests holds the request in progress and nothing else. (call)
THEOREM MapStaysClean == Spec => []NothingLeftWaiting
<1>1. IInv => NothingLeftWaiting
  BY DEF IInv
<1> QED
  BY <1>1, InductiveInvariant, PTL

=============================================================================
