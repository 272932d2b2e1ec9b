--------------------------- MODULE AsyncRpcProofs ---------------------------
(***************************************************************************)
(* Proofs about AsyncRpc, for any number of calls and of cancelling        *)
(* threads, any timeout and any poll interval.                             *)
(***************************************************************************)
EXTENDS AsyncRpc, TLAPS

-----------------------------------------------------------------------------
(* The inductive invariant: the parts of Inv below and TypeOK.             *)

\* A call that was not made has no session, no outcome and no request under way; one
\* that was made has its outcome, unless it is the one in progress.
CallsInOrder ==
    /\ \A n \in Calls : n > call => session[n] = "none" /\ outcome[n] = "none"
    /\ \A n \in Calls : n < call => outcome[n] # "none"
    /\ pc = "idle" /\ call > 0 => outcome[call] # "none"
    /\ pc # "idle" => outcome[call] = "none"

\* A POST that was given up belongs to a call that has ended; the session of the call
\* in progress can only be opened by its own POST.
OnePost ==
    /\ \A q \in late : q.session \in Calls /\ q.session <= call
    /\ \A q \in late : q.method = "POST" => outcome[q.session] # "none"
    /\ pc = "encoding" => session[call] = "none"
    /\ pc = "posting" /\ reply = Pending => session[call] = "none"

\* An answer that reports a final state reports the state the session still has.
AnswerIsTrue ==
    /\ pc \notin {"posting", "polling"} => reply = Pending
    /\ pc = "posting" /\ reply # Pending => session[call] # "none"
    /\ pc \in {"posting", "polling"} /\ reply.http = "ok" /\ reply.status \in EndState
         => session[call] = reply.status

\* What is polled is the session of the call in progress.
UrlIsCurrent ==
    /\ pc \in {"sleeping", "polling"} => sessionUrl = call /\ session[call] # "none"
    /\ sessionUrl <= call
    /\ sessionUrl > 0 => session[sessionUrl] # "none"

CancelIsTrue ==
    \A t \in Cancellers :
        /\ cpc[t] = "idle" => creply[t] = Pending
        /\ cpc[t] = "deleting" => target[t] <= call
        /\ creply[t].http = "ok" /\ creply[t].status = "CANCELLED"
             => session[target[t]] = "CANCELLED"
        /\ result[t] = "True" => target[t] \in Calls /\ session[target[t]] = "CANCELLED"

Inv == /\ CallsInOrder
       /\ OnePost
       /\ AnswerIsTrue
       /\ UrlIsCurrent
       /\ CancelIsTrue
       /\ OutcomeAgrees
       /\ TimedOutStaysCancellable

IInv == TypeOK /\ Inv

-----------------------------------------------------------------------------
(* What the clients make of an answer.                                     *)

\* An answer to the POST ends a call as failed only if it reports FAILED, and never
\* as returned, cancelled or timed out.
LEMMA StartOutcomes ==
    ASSUME NEW r \in Response
    PROVE  /\ StartOutcome(r) \in Outcome \ {"returned", "RpcCancelledError", "TimeoutError"}
           /\ StartOutcome(r) = "RpcExecutionError" => r.http = "ok" /\ r.status = "FAILED"
<1>1. r \in Response OBVIOUS
<1>2. ParseError(r) \in {"none", "ValueError", "HTTPError", "RestfulRemoteException", "RuntimeError"}
  BY DEF ParseError, ToException
<1>3. FailedOutcome(r) \in {"RpcExecutionError", "RuntimeError"}
  BY DEF FailedOutcome
<1>4. ParseError(r) = "none" => r.http = "ok"
  BY DEF ParseError, ToException
<1>5. QED
  BY <1>2, <1>3, <1>4 DEF StartOutcome, Outcome, Exception, Response, RpcState

\* A poll ends a call with a verdict on the operation only if it reports the state
\* that the verdict is about.
LEMMA PollOutcomes ==
    ASSUME NEW r \in Response
    PROVE  /\ PollOutcome(r) \in Outcome \ {"TimeoutError"}
           /\ PollOutcome(r) = "returned" => r.http = "ok" /\ r.status = "COMPLETED"
           /\ PollOutcome(r) = "RpcExecutionError" => r.http = "ok" /\ r.status = "FAILED"
           /\ PollOutcome(r) = "RpcCancelledError" => r.http = "ok" /\ r.status = "CANCELLED"
<1>1. ParseError(r) \in {"none", "ValueError", "HTTPError", "RestfulRemoteException", "RuntimeError"}
  BY DEF ParseError, ToException
<1>2. FailedOutcome(r) \in {"RpcExecutionError", "RuntimeError"}
  BY DEF FailedOutcome
<1>3. ParseError(r) = "none" => r.http = "ok" /\ r.status # "absent"
  BY DEF ParseError, ToException
<1>4. QED
  BY <1>1, <1>2, <1>3 DEF PollOutcome, Outcome, Exception, Response, RpcState

\* Only a message that reports RUNNING makes the call wait on.
LEMMA PollRuns ==
    ASSUME NEW r \in Response, PollOutcome(r) = "none"
    PROVE  r.http = "ok" /\ r.status = "RUNNING"
<1>1. ParseError(r) \in {"none", "ValueError", "HTTPError", "RestfulRemoteException", "RuntimeError"}
  BY DEF ParseError, ToException
<1>2. FailedOutcome(r) \in {"RpcExecutionError", "RuntimeError"}
  BY DEF FailedOutcome
<1>3. ParseError(r) = "none" => r.http = "ok"
  BY DEF ParseError, ToException
<1>4. QED
  BY <1>1, <1>2, <1>3 DEF PollOutcome

\* cancel() returns True only on an answer that reports CANCELLED.
LEMMA CancelResults ==
    ASSUME NEW r \in Response
    PROVE  /\ CancelResult(r) \in Result
           /\ CancelResult(r) = "True" => r.http = "ok" /\ r.status = "CANCELLED"
<1>1. ParseError(r) \in {"none", "ValueError", "HTTPError", "RestfulRemoteException", "RuntimeError"}
  BY DEF ParseError, ToException
<1>2. ParseError(r) = "none" => r.http = "ok"
  BY DEF ParseError, ToException
<1>3. QED
  BY <1>1, <1>2 DEF CancelResult, Result, Exception, Response, RpcState

\* The answers of the server are responses.
LEMMA Reports ==
    /\ Pending \in Response
    /\ \A state \in RpcState, shape \in ErrorShape : Report(state, shape) \in Response
    /\ \A http \in {"conflict", "notFound"} : Refusal(http) \in Response
  BY DEF Pending, Report, Refusal, Response, ErrorShape

-----------------------------------------------------------------------------
(* Type correctness.                                                       *)

LEMMA InitTypeOK == Init => TypeOK
  BY CallsAssumption, Reports DEF Init, TypeOK, Calls, Outcome, Result, NoTimeout, Requests

\* Every step of call() keeps the types.
LEMMA CallTypeOK == ASSUME TypeOK, Call PROVE TypeOK'
<1> USE CallsAssumption, TimesAssumption, Reports
    DEF TypeOK, Calls, cancelVars, serverVars, NoTimeout
<1>1. CASE BeginCall
  BY <1>1 DEF BeginCall
<1>2. ASSUME pc # "idle", NEW o \in Outcome, Leave(o), sessionUrl' \in 0 .. MaxCalls,
             UNCHANGED <<cancelVars, session, reclaimed, knowable>>, late' \subseteq Requests
      PROVE  TypeOK'
  BY <1>2 DEF Leave
<1>3. CASE EncodingFails
  BY <1>3, <1>2 DEF EncodingFails, Outcome, Exception
<1>4. CASE SendPost
  BY <1>4 DEF SendPost
<1>5. CASE ReceiveStart
  <2>1. StartOutcome(reply) \in Outcome
    BY StartOutcomes
  <2>2. CASE StartOutcome(reply) = "none"
    BY <1>5, <2>2 DEF ReceiveStart, Sleep
  <2>3. CASE StartOutcome(reply) # "none"
    BY <1>5, <2>1, <2>3, <1>2 DEF ReceiveStart
  <2>4. QED BY <2>2, <2>3
<1>6. CASE WakeTooLate
  BY <1>6, <1>2 DEF WakeTooLate, Outcome, Exception
<1>7. CASE SendPoll
  BY <1>7 DEF SendPoll
<1>8. CASE ReceivePoll
  <2>1. PollOutcome(reply) \in Outcome
    BY PollOutcomes
  <2>2. CASE PollOutcome(reply) = "none"
    BY <1>8, <2>2 DEF ReceivePoll, Sleep
  <2>3. CASE PollOutcome(reply) # "none"
    BY <1>8, <2>1, <2>3, <1>2 DEF ReceivePoll
  <2>4. QED BY <2>2, <2>3
<1>9. CASE RequestFails
  <2>1. late' \subseteq Requests
    BY <1>9 DEF RequestFails, Requests
  <2>2. QED BY <1>9, <2>1, <1>2 DEF RequestFails, Outcome, Exception
<1>10. QED
  BY <1>1, <1>3, <1>4, <1>5, <1>6, <1>7, <1>8, <1>9 DEF Call

\* Every step of cancel() keeps the types.
LEMMA CancelTypeOK == ASSUME TypeOK, NEW t \in Cancellers, Cancel(t) PROVE TypeOK'
<1> USE CallsAssumption, Reports DEF TypeOK, callVars, serverVars
<1>1. CASE BeginCancel(t)
  <2>1. CASE sessionUrl = 0
    BY <1>1, <2>1 DEF BeginCancel, Result, Exception
  <2>2. CASE sessionUrl # 0
    <3>1. sessionUrl \in Calls
      BY <2>2 DEF Calls
    <3>2. QED BY <1>1, <2>2, <3>1 DEF BeginCancel, Result
  <2>3. QED BY <2>1, <2>2
<1>2. ASSUME NEW r \in Result, EndCancel(t, r), late' \subseteq Requests PROVE TypeOK'
  BY <1>2 DEF EndCancel
<1>3. CASE ReceiveCancel(t)
  <2>1. CancelResult(creply[t]) \in Result
    BY CancelResults
  <2>2. QED BY <1>2, <1>3, <2>1 DEF ReceiveCancel
<1>4. CASE CancelRequestFails(t)
  <2>1. late' \subseteq Requests
    <3>1. target[t] \in Calls => [method |-> "DELETE", session |-> target[t]] \in Requests
      BY DEF Requests
    <3>2. QED BY <1>4, <3>1 DEF CancelRequestFails
  <2>2. QED BY <1>2, <1>4, <2>1 DEF CancelRequestFails, Result, Exception
<1>5. QED BY <1>1, <1>3, <1>4 DEF Cancel

\* EndSession keeps the type of the variable it sets.
LEMMA EndSessionType ==
    ASSUME TypeOK, NEW n \in Calls, NEW state \in RpcState, EndSession(n, state)
    PROVE  session' \in [Calls -> RpcState \cup {"none"}]
  BY DEF EndSession, TypeOK

\* Every step of the server and the network keeps the types.
LEMMA ServerTypeOK == ASSUME TypeOK, UrlIsCurrent, Server PROVE TypeOK'
<1> USE CallsAssumption, Reports DEF callVars, cancelVars, serverVars
<1>1. CASE ServePost
  <2>1. PICK state \in RpcState, shape \in ErrorShape, endpoint \in BOOLEAN :
           /\ EndSession(call, state)
           /\ reply' = [Report(state, shape) EXCEPT !.endpoint = endpoint]
    BY <1>1, ServerAssumption DEF ServePost, RpcState, ErrorShape
  <2>2. reply' \in Response
    BY <2>1 DEF Report, Response, ErrorShape
  <2>3. call \in Calls
    BY <1>1 DEF ServePost, TypeOK
  <2>4. QED BY <1>1, <2>1, <2>2, <2>3, EndSessionType DEF ServePost, TypeOK
<1>2. CASE ServePoll
  <2>1. reply' \in Response
    <3>1. CASE sessionUrl \in reclaimed
      BY <1>2, <3>1 DEF ServePoll
    <3>2. CASE sessionUrl \notin reclaimed
      <4>1. session[sessionUrl] \in RpcState
        BY <1>2 DEF ServePoll, UrlIsCurrent, TypeOK
      <4>2. QED BY <1>2, <3>2, <4>1, ServerAssumption DEF ServePoll, ErrorShape
    <3>3. QED BY <3>1, <3>2
  <2>2. QED BY <1>2, <2>1 DEF ServePoll, TypeOK
<1>3. CASE ServeLate
  <2>1. PICK req \in late :
           /\ late' = late \ {req}
           /\ \E state \in RpcState : EndSession(req.session, state)
           /\ UNCHANGED <<callVars, sessionUrl, cancelVars, reclaimed, knowable>>
    BY <1>3 DEF ServeLate, RpcState
  <2>2. req.session \in Calls
    BY <2>1 DEF TypeOK, Requests
  <2>3. QED BY <2>1, <2>2, EndSessionType DEF TypeOK
<1>4. CASE \E t \in Cancellers : ServeCancel(t)
  <2>1. PICK t \in Cancellers : ServeCancel(t)
    BY <1>4
  <2>2. target[t] \in Calls
    BY <2>1 DEF ServeCancel, TypeOK
  <2>3. creply' \in [Cancellers -> Response]
    BY <2>1 DEF ServeCancel, TypeOK, RpcState, ErrorShape
  <2>4. session' \in [Calls -> RpcState \cup {"none"}]
    <3>1. CASE EndSession(target[t], "CANCELLED")
      BY <2>2, <3>1, EndSessionType DEF RpcState
    <3>2. CASE UNCHANGED session
      BY <3>2 DEF TypeOK
    <3>3. QED BY <2>1, <3>1, <3>2 DEF ServeCancel
  <2>5. QED BY <2>1, <2>2, <2>3, <2>4 DEF ServeCancel, TypeOK
<1>5. CASE \E n \in Calls : OperationEnds(n) \/ Reclaim(n)
  <2>1. PICK n \in Calls : OperationEnds(n) \/ Reclaim(n)
    BY <1>5
  <2>2. CASE OperationEnds(n)
    BY <2>2, EndSessionType DEF OperationEnds, TypeOK, RpcState
  <2>3. CASE Reclaim(n)
    BY <2>3 DEF Reclaim, TypeOK
  <2>4. QED BY <2>1, <2>2, <2>3
<1>6. QED BY <1>1, <1>2, <1>3, <1>4, <1>5 DEF Server

LEMMA TickTypeOK == ASSUME TypeOK, Tick PROVE TypeOK'
  BY TimesAssumption DEF TypeOK, Tick, cancelVars, serverVars, NoTimeout

LEMMA NextTypeOK == ASSUME TypeOK, UrlIsCurrent, [Next]_vars PROVE TypeOK'
<1>1. CASE UNCHANGED vars
  BY <1>1 DEF TypeOK, vars, callVars, cancelVars, serverVars
<1>2. QED
  BY <1>1, CallTypeOK, CancelTypeOK, ServerTypeOK, TickTypeOK DEF Next

-----------------------------------------------------------------------------
(* The invariant.                                                          *)

LEMMA InitInv == Init => Inv
  BY CallsAssumption DEF Init, Inv, CallsInOrder, OnePost, AnswerIsTrue, UrlIsCurrent,
     CancelIsTrue, OutcomeAgrees, TimedOutStaysCancellable, Calls, Pending

\* A step of call() keeps the invariant: what it learns of the operation comes from an
\* answer about the session of its own call.
LEMMA LeaveInv ==
    ASSUME IInv, pc # "idle", NEW o \in Outcome \ {"none"}, Leave(o),
           UNCHANGED <<cancelVars, session, sessionUrl>>,
           \A q \in late' : q \in late \/ q.session = call,
           o = "returned" => session[call] = "COMPLETED",
           o = "RpcExecutionError" => session[call] = "FAILED",
           o = "RpcCancelledError" => session[call] = "CANCELLED",
           o = "TimeoutError" => sessionUrl = call
    PROVE  Inv'
<1> USE CallsAssumption DEF IInv, TypeOK, Inv, Leave, Calls, cancelVars
<1>1. call \in 1 .. MaxCalls /\ call' = call /\ pc' = "idle" /\ reply' = Pending
  OBVIOUS
<1>2. outcome' = [outcome EXCEPT ![call] = o] /\ session' = session
  OBVIOUS
<1>3. CallsInOrder'
  BY <1>1, <1>2 DEF CallsInOrder
<1>4. OnePost'
  BY <1>1, <1>2 DEF OnePost
<1>5. AnswerIsTrue'
  BY <1>1 DEF AnswerIsTrue
<1>6. UrlIsCurrent'
  BY <1>1, <1>2 DEF UrlIsCurrent
<1>7. CancelIsTrue'
  BY <1>2 DEF CancelIsTrue
<1>8. OutcomeAgrees'
  BY <1>1, <1>2 DEF OutcomeAgrees
<1>9. TimedOutStaysCancellable'
  BY <1>1, <1>2 DEF TimedOutStaysCancellable
<1>10. QED
  BY <1>3, <1>4, <1>5, <1>6, <1>7, <1>8, <1>9

LEMMA CallInv == ASSUME IInv, Call PROVE Inv'
<1> USE CallsAssumption
<1>1. TypeOK /\ Inv /\ reply \in Response
  BY DEF IInv, TypeOK
<1>2. CASE BeginCall
  <2>1. /\ call' = call + 1 /\ call' \in Calls /\ pc = "idle" /\ pc' = "encoding"
        /\ UNCHANGED <<reply, outcome, sessionUrl, session, late, cancelVars>>
    BY <1>1, <1>2 DEF BeginCall, TypeOK, Calls, serverVars
  <2>2. CallsInOrder' /\ OnePost'
    BY <1>1, <2>1 DEF Inv, CallsInOrder, OnePost, TypeOK, Calls, Requests
  <2>3. AnswerIsTrue' /\ UrlIsCurrent' /\ OutcomeAgrees' /\ CancelIsTrue'
    BY <1>1, <2>1
    DEF Inv, AnswerIsTrue, UrlIsCurrent, OutcomeAgrees, CancelIsTrue, TypeOK, cancelVars
  <2>4. TimedOutStaysCancellable'
    BY <1>1, <2>1 DEF Inv, TimedOutStaysCancellable, TypeOK
  <2>5. QED BY <2>2, <2>3, <2>4 DEF Inv
<1>3. CASE EncodingFails
  BY <1>3, LeaveInv DEF EncodingFails, Outcome, Exception, serverVars
<1>4. CASE SendPost \/ SendPoll
  <2>1. UNCHANGED <<call, reply, outcome, sessionUrl, cancelVars, session, late>>
    BY <1>4 DEF SendPost, SendPoll, serverVars
  <2>2. (pc = "encoding" /\ pc' = "posting") \/ (pc = "sleeping" /\ pc' = "polling")
    BY <1>4 DEF SendPost, SendPoll
  <2>3. QED
    BY <1>1, <2>1, <2>2
    DEF Inv, CallsInOrder, OnePost, AnswerIsTrue, UrlIsCurrent, CancelIsTrue,
        OutcomeAgrees, TimedOutStaysCancellable, cancelVars, Pending, EndState
<1>5. CASE ReceiveStart
  <2>1. CASE StartOutcome(reply) = "none"
    <3>1. /\ pc = "posting" /\ pc' = "sleeping" /\ reply' = Pending /\ sessionUrl' = call
          /\ UNCHANGED <<call, outcome, session, late, cancelVars>>
          /\ session[call] # "none" /\ call \in Calls
      BY <1>1, <1>5, <2>1 DEF ReceiveStart, Sleep, serverVars, Inv, AnswerIsTrue, TypeOK
    <3>2. CallsInOrder' /\ OnePost' /\ AnswerIsTrue' /\ UrlIsCurrent'
      BY <1>1, <3>1 DEF Inv, CallsInOrder, OnePost, AnswerIsTrue, UrlIsCurrent, TypeOK, Calls
    <3>3. OutcomeAgrees' /\ CancelIsTrue' /\ TimedOutStaysCancellable'
      BY <1>1, <3>1
      DEF Inv, OutcomeAgrees, CancelIsTrue, TimedOutStaysCancellable, cancelVars
    <3>4. QED BY <3>2, <3>3 DEF Inv
  <2>2. CASE StartOutcome(reply) # "none"
    <3>1. Leave(StartOutcome(reply)) /\ UNCHANGED <<sessionUrl, cancelVars, serverVars>>
      BY <1>5, <2>2 DEF ReceiveStart
    <3>2. /\ pc = "posting"
          /\ reply.http = "ok" /\ reply.status = "FAILED" => session[call] = "FAILED"
      BY <1>1, <1>5 DEF ReceiveStart, Inv, AnswerIsTrue, EndState, RpcState
    <3>3. QED BY <1>1, <2>2, <3>1, <3>2, StartOutcomes, LeaveInv DEF serverVars
  <2>3. QED BY <2>1, <2>2
<1>6. CASE WakeTooLate
  <2>1. sessionUrl = call
    BY <1>1, <1>6 DEF WakeTooLate, Inv, UrlIsCurrent
  <2>2. QED BY <1>6, <2>1, LeaveInv DEF WakeTooLate, Outcome, Exception, serverVars
<1>7. CASE ReceivePoll
  <2>1. CASE PollOutcome(reply) = "none"
    <3>1. /\ pc = "polling" /\ pc' = "sleeping" /\ reply' = Pending
          /\ UNCHANGED <<call, outcome, sessionUrl, session, late, cancelVars>>
      BY <1>7, <2>1 DEF ReceivePoll, Sleep, serverVars
    <3>2. QED
      BY <1>1, <3>1
      DEF Inv, CallsInOrder, OnePost, AnswerIsTrue, UrlIsCurrent, CancelIsTrue,
          OutcomeAgrees, TimedOutStaysCancellable, cancelVars
  <2>2. CASE PollOutcome(reply) # "none"
    <3>1. Leave(PollOutcome(reply)) /\ UNCHANGED <<sessionUrl, cancelVars, serverVars>>
      BY <1>7, <2>2 DEF ReceivePoll
    <3>2. /\ pc = "polling"
          /\ \A s \in EndState : reply.http = "ok" /\ reply.status = s => session[call] = s
      BY <1>1, <1>7 DEF ReceivePoll, Inv, AnswerIsTrue
    <3>3. QED
      BY <1>1, <2>2, <3>1, <3>2, PollOutcomes, LeaveInv DEF serverVars, EndState, RpcState
  <2>3. QED BY <2>1, <2>2
<1>8. CASE RequestFails
  <2>1. \A q \in late' : q \in late \/ q.session = call
    BY <1>8 DEF RequestFails
  <2>2. QED BY <1>8, <2>1, LeaveInv DEF RequestFails, Outcome, Exception
<1>9. QED
  BY <1>2, <1>3, <1>4, <1>5, <1>6, <1>7, <1>8 DEF Call

\* A step of cancel() keeps the invariant.
LEMMA CancelInv == ASSUME IInv, NEW t \in Cancellers, Cancel(t) PROVE Inv'
<1> USE CallsAssumption
<1>1. TypeOK /\ Inv /\ creply[t] \in Response
  BY DEF IInv, TypeOK
<1>2. UNCHANGED <<call, pc, reply, outcome, sessionUrl, session>>
  BY DEF Cancel, BeginCancel, ReceiveCancel, CancelRequestFails, EndCancel, callVars, serverVars
<1>3. \A q \in late' : q \in late \/ (q.method = "DELETE" /\ q.session \in Calls /\ q.session <= call)
  <2>1. cpc[t] = "deleting" => target[t] <= call /\ target[t] \in Calls
    BY <1>1 DEF TypeOK, Inv, CancelIsTrue
  <2>2. QED
    BY <2>1 DEF Cancel, BeginCancel, ReceiveCancel, CancelRequestFails, EndCancel, serverVars
<1>4. CallsInOrder' /\ AnswerIsTrue' /\ UrlIsCurrent' /\ OutcomeAgrees' /\ TimedOutStaysCancellable'
  BY <1>1, <1>2
  DEF Inv, CallsInOrder, AnswerIsTrue, UrlIsCurrent, OutcomeAgrees, TimedOutStaysCancellable
<1>5. OnePost'
  BY <1>1, <1>2, <1>3 DEF Inv, OnePost
<1>6. CancelIsTrue'
  <2>1. CASE BeginCancel(t)
    BY <1>1, <1>2, <2>1
    DEF BeginCancel, Inv, CancelIsTrue, UrlIsCurrent, TypeOK, Pending
  <2>2. ASSUME NEW r \in Result, EndCancel(t, r), cpc[t] = "deleting",
               r = "True" => session[target[t]] = "CANCELLED"
        PROVE  CancelIsTrue'
    BY <1>1, <2>2 DEF EndCancel, Inv, CancelIsTrue, TypeOK, Pending, callVars
  <2>3. CASE ReceiveCancel(t)
    BY <1>1, <2>2, <2>3, CancelResults DEF ReceiveCancel, Inv, CancelIsTrue
  <2>4. CASE CancelRequestFails(t)
    BY <2>2, <2>4 DEF CancelRequestFails, Result, Exception
  <2>5. QED BY <2>1, <2>3, <2>4 DEF Cancel
<1>7. QED BY <1>4, <1>5, <1>6 DEF Inv

\* Sessions only go forward: once open, never unopened; once ended, never changed.
SessionsGoForward ==
    \A n \in Calls : /\ session[n] # "none" => session'[n] # "none"
                     /\ session[n] \in EndState => session'[n] = session[n]

\* A step of the server that gives one session its next state, or none, keeps the parts
\* of the invariant that are not about answers under way.
LEMMA SessionStep ==
    ASSUME IInv, NEW n \in Calls, NEW state \in RpcState,
           session' # session => /\ session' = [session EXCEPT ![n] = state]
                                 /\ session[n] \notin EndState
                                 /\ n <= call,
           UNCHANGED <<call, pc, outcome, sessionUrl, cpc, target, result>>
    PROVE  /\ SessionsGoForward
           /\ CallsInOrder' /\ UrlIsCurrent' /\ OutcomeAgrees' /\ TimedOutStaysCancellable'
<1> USE CallsAssumption DEF IInv, Inv, TypeOK
<1>1. SessionsGoForward
  BY DEF SessionsGoForward, RpcState
<1>2. CallsInOrder'
  BY DEF CallsInOrder, Calls
<1>3. UrlIsCurrent'
  BY <1>1 DEF UrlIsCurrent, SessionsGoForward, Calls
<1>4. OutcomeAgrees'
  BY <1>1 DEF OutcomeAgrees, SessionsGoForward, EndState, RpcState
<1>5. TimedOutStaysCancellable'
  BY DEF TimedOutStaysCancellable
<1>6. QED BY <1>1, <1>2, <1>3, <1>4, <1>5

\* Answers under way stay true while sessions go forward.
LEMMA AnswersStay ==
    ASSUME IInv, SessionsGoForward, UNCHANGED <<call, pc, cpc, target, result>>
    PROVE  /\ UNCHANGED reply => AnswerIsTrue'
           /\ UNCHANGED creply => CancelIsTrue'
<1> USE CallsAssumption DEF IInv, Inv, TypeOK
<1>1. ASSUME UNCHANGED reply PROVE AnswerIsTrue'
  BY <1>1 DEF AnswerIsTrue, SessionsGoForward
<1>2. ASSUME UNCHANGED creply PROVE CancelIsTrue'
  <2>1. ASSUME NEW t \in Cancellers, session[target[t]] = "CANCELLED", target[t] \in Calls
        PROVE  session'[target[t]] = "CANCELLED"
    BY <2>1 DEF SessionsGoForward, EndState, RpcState
  <2>2. QED BY <1>2, <2>1 DEF CancelIsTrue, Calls, Pending
<1>3. QED BY <1>1, <1>2

\* Steps of the server keep the invariant.
LEMMA ServerInv == ASSUME IInv, Server PROVE Inv'
<1> USE CallsAssumption
<1>1. TypeOK /\ Inv
  BY DEF IInv
<1>2. CASE ServePost
  <2>1. PICK state \in RpcState, shape \in ErrorShape, endpoint \in BOOLEAN :
           /\ session' = [session EXCEPT ![call] = state]
           /\ reply' = [Report(state, shape) EXCEPT !.endpoint = endpoint]
    BY <1>2, ServerAssumption DEF ServePost, EndSession, RpcState, ErrorShape
  <2>2. /\ UNCHANGED <<call, pc, outcome, sessionUrl, cpc, target, creply, result, late>>
        /\ pc = "posting" /\ call \in Calls /\ session[call] = "none"
    BY <1>1, <1>2 DEF ServePost, cancelVars, Inv, OnePost, TypeOK
  <2>3. /\ SessionsGoForward
        /\ CallsInOrder' /\ UrlIsCurrent' /\ OutcomeAgrees' /\ TimedOutStaysCancellable'
    <3>1. session[call] \notin EndState /\ call <= call
      BY <1>1, <2>2 DEF EndState, RpcState, TypeOK
    <3>2. QED BY <2>1, <2>2, <3>1, SessionStep
  <2>4. reply'.http = "ok" /\ reply'.status = state /\ session'[call] = state
    BY <1>1, <2>1, <2>2 DEF Report, TypeOK
  <2>5. OnePost' /\ AnswerIsTrue'
    BY <1>1, <2>2, <2>4 DEF Inv, OnePost, AnswerIsTrue, Pending, RpcState
  <2>6. QED BY <2>2, <2>3, <2>5, AnswersStay DEF Inv
<1>3. CASE ServePoll
  <2>1. /\ UNCHANGED <<call, pc, outcome, sessionUrl, cpc, target, creply, result, session, late>>
        /\ pc = "polling" /\ call \in Calls
    BY <1>1, <1>3 DEF ServePoll, cancelVars, serverVars, TypeOK
  <2>2. SessionsGoForward
    BY <2>1 DEF SessionsGoForward
  <2>3. CallsInOrder' /\ OnePost' /\ UrlIsCurrent' /\ OutcomeAgrees' /\ TimedOutStaysCancellable'
    BY <1>1, <2>1
    DEF Inv, CallsInOrder, OnePost, UrlIsCurrent, OutcomeAgrees, TimedOutStaysCancellable
  <2>4. reply'.http = "ok" => reply'.status = session[call]
    BY <1>1, <1>3 DEF ServePoll, Report, Refusal, Inv, UrlIsCurrent
  <2>5. AnswerIsTrue'
    BY <2>1, <2>4 DEF AnswerIsTrue
  <2>6. QED BY <2>1, <2>2, <2>3, <2>5, AnswersStay DEF Inv
<1>4. CASE ServeLate
  <2>1. PICK q \in late :
           \/ /\ q.method = "POST" /\ session[q.session] = "none"
              /\ session' = [session EXCEPT ![q.session] = "RUNNING"]
           \/ /\ session[q.session] = "RUNNING"
              /\ session' = [session EXCEPT ![q.session] = "CANCELLED"]
    BY <1>4 DEF ServeLate, EndSession
  <2>2. /\ UNCHANGED <<call, pc, reply, outcome, sessionUrl, cpc, target, creply, result>>
        /\ late' \subseteq late
    BY <1>4 DEF ServeLate, callVars, cancelVars
  <2>3. /\ q.session \in Calls /\ q.session <= call
        /\ q.method = "POST" => outcome[q.session] # "none"
    BY <1>1 DEF Inv, OnePost
  <2>4. /\ SessionsGoForward
        /\ CallsInOrder' /\ UrlIsCurrent' /\ OutcomeAgrees' /\ TimedOutStaysCancellable'
    BY <1>1, <2>1, <2>2, <2>3, SessionStep DEF EndState, RpcState
  <2>5. OnePost'
    BY <1>1, <2>1, <2>2, <2>3 DEF Inv, OnePost, CallsInOrder, TypeOK
  <2>6. QED BY <2>2, <2>4, <2>5, AnswersStay DEF Inv
<1>5. ASSUME NEW n \in Calls, session[n] = "RUNNING", NEW state \in RpcState,
             session' = session \/ session' = [session EXCEPT ![n] = state],
             UNCHANGED <<call, pc, reply, outcome, sessionUrl, cpc, target, result, late>>
      PROVE  /\ SessionsGoForward
             /\ CallsInOrder' /\ OnePost' /\ AnswerIsTrue' /\ UrlIsCurrent'
             /\ OutcomeAgrees' /\ TimedOutStaysCancellable'
  <2>1. n <= call
    BY <1>1, <1>5 DEF Inv, CallsInOrder, TypeOK, Calls
  <2>2. /\ SessionsGoForward
        /\ CallsInOrder' /\ UrlIsCurrent' /\ OutcomeAgrees' /\ TimedOutStaysCancellable'
    BY <1>5, <2>1, SessionStep DEF EndState
  <2>3. OnePost'
    BY <1>1, <1>5 DEF Inv, OnePost, TypeOK
  <2>4. QED BY <1>5, <2>2, <2>3, AnswersStay
<1>6. CASE \E t \in Cancellers : ServeCancel(t)
  <2>1. PICK t \in Cancellers : ServeCancel(t)
    BY <1>6
  <2>2. /\ UNCHANGED <<call, pc, reply, outcome, sessionUrl, cpc, target, result, late>>
        /\ cpc[t] = "deleting" /\ target[t] \in Calls
    BY <1>1, <2>1 DEF ServeCancel, callVars, TypeOK
  <2>3. PICK r \in Response :
           /\ creply' = [creply EXCEPT ![t] = r]
           /\ \/ r.http # "ok" /\ session' = session
              \/ /\ session[target[t]] = "RUNNING"
                 /\ session' = [session EXCEPT ![target[t]] = "CANCELLED"]
    BY <2>1, Reports
    DEF ServeCancel, EndSession, Refusal, RpcState, ErrorShape
  <2>4. CASE session' = session
    <3>1. SessionsGoForward
      BY <2>4 DEF SessionsGoForward
    <3>2. CallsInOrder' /\ OnePost' /\ UrlIsCurrent' /\ OutcomeAgrees' /\ TimedOutStaysCancellable'
      BY <1>1, <2>2, <2>4
      DEF Inv, CallsInOrder, OnePost, UrlIsCurrent, OutcomeAgrees, TimedOutStaysCancellable
    <3>3. CancelIsTrue'
      BY <1>1, <2>2, <2>3, <2>4 DEF Inv, CancelIsTrue, TypeOK
    <3>4. QED BY <2>2, <3>1, <3>2, <3>3, AnswersStay DEF Inv
  <2>5. CASE session' # session
    <3>1. session' = [session EXCEPT ![target[t]] = "CANCELLED"]
             /\ session[target[t]] = "RUNNING"
      BY <2>3, <2>5
    <3>2. /\ SessionsGoForward
          /\ CallsInOrder' /\ OnePost' /\ AnswerIsTrue' /\ UrlIsCurrent'
          /\ OutcomeAgrees' /\ TimedOutStaysCancellable'
      BY <1>5, <2>2, <3>1 DEF RpcState
    <3>3. CancelIsTrue'
      <4>1. ASSUME NEW x \in Cancellers, session[target[x]] = "CANCELLED", target[x] \in Calls
            PROVE  session'[target[x]] = "CANCELLED"
        BY <3>2, <4>1 DEF SessionsGoForward, EndState, RpcState
      <4>2. session'[target[t]] = "CANCELLED"
        BY <1>1, <2>2, <3>1 DEF TypeOK
      <4>3. \A x \in Cancellers : x # t => creply'[x] = creply[x]
        BY <1>1, <2>3 DEF TypeOK
      <4>4. ASSUME NEW x \in Cancellers
            PROVE  /\ cpc[x] = "idle" => creply'[x] = Pending
                   /\ cpc[x] = "deleting" => target[x] <= call
                   /\ creply'[x].http = "ok" /\ creply'[x].status = "CANCELLED"
                        => session'[target[x]] = "CANCELLED"
                   /\ result[x] = "True"
                        => target[x] \in Calls /\ session'[target[x]] = "CANCELLED"
        <5>1. CASE x = t
          BY <1>1, <2>2, <4>2, <5>1 DEF Inv, CancelIsTrue
        <5>2. CASE x # t
          <6>1. creply[x].http = "ok" => target[x] \in Calls
            BY <1>1 DEF Inv, CancelIsTrue, TypeOK, Pending
          <6>2. creply'[x] = creply[x]
            BY <4>3, <5>2
          <6>3. QED BY <1>1, <4>1, <6>1, <6>2 DEF Inv, CancelIsTrue
        <5>3. QED BY <5>1, <5>2
      <4>5. QED BY <2>2, <4>4 DEF CancelIsTrue
    <3>4. QED BY <3>2, <3>3 DEF Inv
  <2>6. QED BY <2>4, <2>5
<1>7. CASE \E n \in Calls : OperationEnds(n) \/ Reclaim(n)
  <2>1. PICK n \in Calls : OperationEnds(n) \/ Reclaim(n)
    BY <1>7
  <2>2. CASE OperationEnds(n)
    <3>1. PICK state \in RpcState : session' = [session EXCEPT ![n] = state]
      BY <2>2 DEF OperationEnds, EndSession, RpcState
    <3>2. /\ session[n] = "RUNNING"
          /\ UNCHANGED <<call, pc, reply, outcome, sessionUrl, cpc, target, creply, result, late>>
      BY <2>2 DEF OperationEnds, callVars, cancelVars
    <3>3. QED BY <1>5, <3>1, <3>2, AnswersStay DEF Inv
  <2>3. CASE Reclaim(n)
    BY <1>1, <2>3
    DEF Reclaim, callVars, cancelVars, Inv, CallsInOrder, OnePost, AnswerIsTrue, UrlIsCurrent,
        CancelIsTrue, OutcomeAgrees, TimedOutStaysCancellable
  <2>4. QED BY <2>1, <2>2, <2>3
<1>8. QED BY <1>2, <1>3, <1>4, <1>6, <1>7 DEF Server

LEMMA NextIInv == IInv /\ [Next]_vars => IInv'
<1> SUFFICES ASSUME IInv, [Next]_vars PROVE IInv'
  OBVIOUS
<1>1. TypeOK'
  BY NextTypeOK DEF IInv, Inv
<1>2. CASE UNCHANGED vars \/ Tick
  <2>1. UNCHANGED <<call, pc, reply, outcome, sessionUrl, cancelVars, session, late>>
    BY <1>2 DEF Tick, vars, callVars, serverVars
  <2>2. Inv'
    BY <2>1
    DEF IInv, Inv, CallsInOrder, OnePost, AnswerIsTrue, UrlIsCurrent, CancelIsTrue,
        OutcomeAgrees, TimedOutStaysCancellable, cancelVars
  <2>3. QED BY <1>1, <2>2 DEF IInv
<1>3. QED
  BY <1>1, <1>2, CallInv, CancelInv, ServerInv DEF Next, IInv

\* The inductive invariant holds in every reachable state.
THEOREM Invariance == Spec => []IInv
<1>1. Init => IInv
  BY InitTypeOK, InitInv DEF IInv
<1>2. QED BY <1>1, NextIInv, PTL DEF Spec

\* The variables keep their types, whatever the constants are.
THEOREM TypeCorrect == Spec => []TypeOK
  BY Invariance, PTL DEF IInv

\* However many calls, cancels, lost requests and late deliveries there are, call()
\* reports COMPLETED, FAILED or CANCELLED only of its own operation and truly.
THEOREM OutcomesAgree == Spec => []OutcomeAgrees
  BY Invariance, PTL DEF IInv, Inv

\* A confirmed cancel is final, and its call returns no outputs.
THEOREM ConfirmedCancelIsFinal == Spec => []CancelIsFinal
<1>1. IInv => CancelIsFinal
  BY DEF IInv, Inv, CancelIsTrue, OutcomeAgrees, CancelIsFinal
<1>2. QED BY <1>1, Invariance, PTL

\* A timed-out operation stays cancellable until the next one has its session.
THEOREM TimedOutCancellable == Spec => []TimedOutStaysCancellable
  BY Invariance, PTL DEF IInv, Inv

-----------------------------------------------------------------------------
(* A poll that could know the end of the operation tells it.               *)

\* A call in progress that has polled when its operation had ended is waiting for the
\* answer to that poll, and a message it gets reports a final state.
PollKnows ==
    /\ \A n \in knowable : n <= call
    /\ pc # "idle" /\ call \in knowable =>
         /\ pc = "polling"
         /\ session[call] \in EndState
         /\ reply.http = "ok" => reply.status \in EndState

KInv == PollKnows /\ TimeoutMeansUnknown

\* The call is left, but not with TimeoutError if it is knowable.
LEMMA LeaveKnows ==
    ASSUME IInv, KInv, pc # "idle", NEW o, Leave(o), UNCHANGED knowable,
           call \in knowable => o # "TimeoutError"
    PROVE  KInv'
  BY DEF IInv, TypeOK, KInv, PollKnows, TimeoutMeansUnknown, Leave

LEMMA CallKnows == ASSUME IInv, KInv, Call PROVE KInv'
<1>1. TypeOK /\ Inv /\ reply \in Response
  BY DEF IInv, TypeOK
<1>2. pc \notin {"idle", "polling"} => call \notin knowable
  BY DEF KInv, PollKnows
<1>3. CASE BeginCall
  BY <1>1, <1>3, CallsAssumption
  DEF BeginCall, KInv, PollKnows, TimeoutMeansUnknown, TypeOK, Calls, serverVars
<1>4. CASE EncodingFails
  BY <1>4, LeaveKnows DEF EncodingFails, serverVars
<1>5. CASE SendPost
  BY <1>2, <1>5 DEF SendPost, KInv, PollKnows, TimeoutMeansUnknown, serverVars
<1>6. CASE ReceiveStart
  <2>1. pc = "posting" /\ UNCHANGED <<knowable, session>>
    BY <1>6 DEF ReceiveStart, serverVars
  <2>2. CASE StartOutcome(reply) = "none"
    BY <1>2, <1>6, <2>1, <2>2 DEF ReceiveStart, Sleep, KInv, PollKnows, TimeoutMeansUnknown
  <2>3. CASE StartOutcome(reply) # "none"
    BY <1>2, <1>6, <2>1, <2>3, LeaveKnows DEF ReceiveStart
  <2>4. QED BY <2>2, <2>3
<1>7. CASE WakeTooLate
  BY <1>2, <1>7, LeaveKnows DEF WakeTooLate, serverVars
<1>8. CASE SendPoll
  <2>1. /\ pc = "sleeping" /\ sessionUrl = call /\ call \in Calls /\ reply = Pending
        /\ outcome[call] = "none"
    BY <1>1, <1>8 DEF SendPoll, Inv, UrlIsCurrent, AnswerIsTrue, CallsInOrder, TypeOK
  <2>2. /\ UNCHANGED <<call, reply, outcome, session>>
        /\ pc' = "polling" /\ reply'.http # "ok"
    BY <1>8, <2>1 DEF SendPoll, Pending
  <2>3. CASE knowable' = knowable
    BY <1>2, <2>1, <2>2, <2>3 DEF KInv, PollKnows, TimeoutMeansUnknown
  <2>4. CASE knowable' = knowable \cup {call} /\ session[call] \in EndState
    BY <1>1, <2>1, <2>2, <2>4 DEF KInv, PollKnows, TimeoutMeansUnknown, TypeOK
  <2>5. QED BY <1>8, <2>1, <2>3, <2>4 DEF SendPoll
<1>9. CASE ReceivePoll
  <2>1. pc = "polling" /\ UNCHANGED <<knowable, session>>
    BY <1>9 DEF ReceivePoll, serverVars
  <2>2. CASE PollOutcome(reply) = "none"
    <3>1. reply.http = "ok" /\ reply.status = "RUNNING"
      BY <1>1, <2>2, PollRuns
    <3>2. call \notin knowable
      BY <2>1, <3>1 DEF KInv, PollKnows, EndState
    <3>3. QED
      BY <1>9, <2>1, <2>2, <3>2 DEF ReceivePoll, Sleep, KInv, PollKnows, TimeoutMeansUnknown
  <2>3. CASE PollOutcome(reply) # "none"
    BY <1>1, <1>9, <2>1, <2>3, PollOutcomes, LeaveKnows DEF ReceivePoll
  <2>4. QED BY <2>2, <2>3
<1>10. CASE RequestFails
  BY <1>10, LeaveKnows DEF RequestFails
<1>11. QED
  BY <1>3, <1>4, <1>5, <1>6, <1>7, <1>8, <1>9, <1>10 DEF Call

\* No step of the server takes a session back, and a poll is answered with its state.
LEMMA ServerKnows == ASSUME IInv, KInv, Server PROVE KInv'
<1>1. TypeOK /\ Inv
  BY DEF IInv
<1>2. UNCHANGED <<call, pc, outcome, knowable>>
  BY DEF Server, ServePost, ServePoll, ServeLate, ServeCancel, OperationEnds, Reclaim,
     callVars, serverVars
<1>3. ASSUME pc = "polling", call \in knowable
      PROVE  /\ session'[call] = session[call]
             /\ reply'.http = "ok" => reply'.status \in EndState
  <2>1. /\ call \in Calls /\ session[call] \in EndState /\ sessionUrl = call
        /\ reply.http = "ok" => reply.status \in EndState
    BY <1>1, <1>3 DEF KInv, PollKnows, Inv, UrlIsCurrent, TypeOK
  <2>2. CASE ServePost
    BY <1>3, <2>2 DEF ServePost
  <2>3. CASE ServePoll
    BY <2>1, <2>3 DEF ServePoll, Report, Refusal, serverVars
  <2>4. CASE ServeLate \/ (\E t \in Cancellers : ServeCancel(t))
             \/ (\E n \in Calls : OperationEnds(n) \/ Reclaim(n))
    <3>1. UNCHANGED reply
      BY <2>4 DEF ServeLate, ServeCancel, OperationEnds, Reclaim, callVars
    <3>2. \/ UNCHANGED session
          \/ \E n : /\ session[n] \in {"none", "RUNNING"}
                     /\ \E s \in RpcState : session' = [session EXCEPT ![n] = s]
      BY <2>4 DEF RpcState, ServeLate, ServeCancel, OperationEnds, Reclaim, EndSession
    <3>3. session[call] \notin {"none", "RUNNING"}
      BY <2>1 DEF EndState, RpcState
    <3>4. QED BY <1>1, <2>1, <3>1, <3>2, <3>3 DEF TypeOK
  <2>5. QED BY <2>2, <2>3, <2>4 DEF Server
<1>4. QED
  BY <1>2, <1>3 DEF KInv, PollKnows, TimeoutMeansUnknown

LEMMA NextKnows == IInv /\ KInv /\ [Next]_vars => KInv'
<1>1. ASSUME IInv, KInv,
             UNCHANGED vars \/ Tick \/ \E t \in Cancellers : Cancel(t)
      PROVE  KInv'
  <2>1. UNCHANGED <<call, pc, reply, outcome, session, knowable>>
    BY <1>1
    DEF vars, Tick, Cancel, BeginCancel, ReceiveCancel, CancelRequestFails, EndCancel,
        callVars, serverVars
  <2>2. QED BY <1>1, <2>1 DEF KInv, PollKnows, TimeoutMeansUnknown
<1>2. QED BY <1>1, CallKnows, ServerKnows DEF Next

\* A call that asked when its operation had ended does not end with TimeoutError.
THEOREM TimeoutsAreUnknown == Spec => []TimeoutMeansUnknown
<1>1. Init => KInv
  BY DEF Init, KInv, PollKnows, TimeoutMeansUnknown
<1>2. KInv => TimeoutMeansUnknown
  BY DEF KInv
<1>3. QED BY <1>1, <1>2, NextKnows, Invariance, PTL DEF Spec

-----------------------------------------------------------------------------
(* The client implements RpcPromise.                                       *)

\* The moment call() is left is the moment the promise is answered.
LEMMA LeaveAnswers ==
    ASSUME IInv, pc # "idle", NEW o \in Outcome \ {"none"}, Leave(o), UNCHANGED session,
           o = "returned" => session[call] = "COMPLETED",
           o = "RpcExecutionError" => session[call] = "FAILED",
           o = "RpcCancelledError" => session[call] = "CANCELLED"
    PROVE  Promise!Next
<1> DEFINE v == Told(o)
           answer == [n \in Calls |-> Told(outcome[n])]
<1>1. /\ call \in Calls /\ outcome \in [Calls -> Outcome]
      /\ outcome' = [outcome EXCEPT ![call] = o] /\ session' = session
  BY DEF IInv, TypeOK, Leave
<1>2. /\ v \in Promise!Final \cup {"givenUp"}
      /\ v \in Promise!Final => v = session[call]
  BY DEF Told, Promise!Final
<1>3. answer' = [answer EXCEPT ![call] = v]
  BY <1>1
<1>4. /\ Told(outcome[call]) = "none"
      /\ \A m \in Calls : m < call => Told(outcome[m]) # "none"
  BY DEF IInv, Inv, CallsInOrder, Told
<1>5. Promise!Answer(call, v)
  BY <1>1, <1>2, <1>3, <1>4 DEF Promise!Answer, Promise!Calls, Calls
<1>6. QED BY <1>1, <1>2, <1>5 DEF Promise!Next, Promise!Calls, Calls

\* A step that gives an unopened or running session its next state is one of the
\* promised operation.
LEMMA SessionAnswers ==
    ASSUME NEW n \in Calls, NEW state \in RpcState, UNCHANGED outcome,
           session[n] = "none" \/ (session[n] = "RUNNING" /\ state # "RUNNING"),
           session' = [session EXCEPT ![n] = state]
    PROVE  Promise!Next
  BY DEF Promise!Next, Promise!Start, Promise!End, Promise!Calls, Promise!Final, Calls, RpcState

LEMMA CallImplements == ASSUME IInv, Call PROVE [Promise!Next]_(Promise!vars)
<1>1. TypeOK /\ Inv /\ reply \in Response
  BY DEF IInv, TypeOK
<1>2. CASE UNCHANGED <<session, outcome>>
  BY <1>2 DEF Promise!vars
<1>3. CASE EncodingFails \/ WakeTooLate \/ RequestFails
  <2>1. /\ pc # "idle" /\ UNCHANGED session
        /\ \E o \in {"RequestException", "TimeoutError"} : Leave(o)
    BY <1>3 DEF EncodingFails, WakeTooLate, RequestFails, serverVars
  <2>2. QED BY <2>1, LeaveAnswers DEF Outcome, Exception
<1>4. CASE ReceiveStart /\ StartOutcome(reply) # "none"
  <2>1. /\ pc = "posting" /\ Leave(StartOutcome(reply)) /\ UNCHANGED session
        /\ reply.http = "ok" /\ reply.status = "FAILED" => session[call] = "FAILED"
    BY <1>1, <1>4 DEF ReceiveStart, serverVars, Inv, AnswerIsTrue, EndState, RpcState
  <2>2. QED BY <1>1, <1>4, <2>1, StartOutcomes, LeaveAnswers
<1>5. CASE ReceivePoll /\ PollOutcome(reply) # "none"
  <2>1. /\ pc = "polling" /\ Leave(PollOutcome(reply)) /\ UNCHANGED session
        /\ \A s \in EndState : reply.http = "ok" /\ reply.status = s => session[call] = s
    BY <1>1, <1>5 DEF ReceivePoll, serverVars, Inv, AnswerIsTrue
  <2>2. QED BY <1>1, <1>5, <2>1, PollOutcomes, LeaveAnswers DEF EndState, RpcState
<1>6. QED
  BY <1>2, <1>3, <1>4, <1>5
  DEF Call, BeginCall, SendPost, SendPoll, ReceiveStart, ReceivePoll, Sleep, serverVars

LEMMA ServerImplements == ASSUME IInv, Server PROVE [Promise!Next]_(Promise!vars)
<1>1. TypeOK /\ Inv
  BY DEF IInv
<1>2. UNCHANGED outcome
  BY DEF Server, ServePost, ServePoll, ServeLate, ServeCancel, OperationEnds, Reclaim, callVars
<1>3. CASE UNCHANGED session
  BY <1>2, <1>3 DEF Promise!vars
<1>4. CASE ServePost
  <2>1. /\ call \in Calls /\ session[call] = "none"
        /\ \E state \in RpcState : session' = [session EXCEPT ![call] = state]
    BY <1>1, <1>4 DEF ServePost, EndSession, Inv, OnePost, TypeOK, RpcState
  <2>2. QED BY <1>2, <2>1, SessionAnswers
<1>5. CASE ServeLate
  <2>1. PICK q \in late :
           \/ /\ session[q.session] = "none"
              /\ session' = [session EXCEPT ![q.session] = "RUNNING"]
           \/ /\ session[q.session] = "RUNNING"
              /\ session' = [session EXCEPT ![q.session] = "CANCELLED"]
    BY <1>5 DEF ServeLate, EndSession
  <2>2. q.session \in Calls
    BY <1>1 DEF Inv, OnePost
  <2>3. QED BY <1>2, <2>1, <2>2, SessionAnswers DEF RpcState
<1>6. CASE \E t \in Cancellers : ServeCancel(t)
  <2>1. \E n \in Calls : \/ UNCHANGED session
                         \/ /\ session[n] = "RUNNING"
                            /\ session' = [session EXCEPT ![n] = "CANCELLED"]
    BY <1>1, <1>6 DEF ServeCancel, EndSession, TypeOK
  <2>2. QED BY <1>2, <1>3, <2>1, SessionAnswers DEF RpcState
<1>7. CASE \E n \in Calls : OperationEnds(n) \/ Reclaim(n)
  <2>1. \E n \in Calls : \/ UNCHANGED session
                         \/ /\ session[n] = "RUNNING"
                            /\ \E state \in EndState : session' = [session EXCEPT ![n] = state]
    BY <1>7 DEF OperationEnds, Reclaim, EndSession, EndState, RpcState
  <2>2. QED BY <1>2, <1>3, <2>1, SessionAnswers DEF EndState, RpcState
<1>8. QED
  BY <1>3, <1>4, <1>5, <1>6, <1>7 DEF Server, ServePoll, serverVars

LEMMA NextImplements == IInv /\ [Next]_vars => [Promise!Next]_(Promise!vars)
<1> SUFFICES ASSUME IInv, [Next]_vars PROVE [Promise!Next]_(Promise!vars)
  OBVIOUS
<1>1. CASE UNCHANGED vars \/ Tick \/ \E t \in Cancellers : Cancel(t)
  <2>1. UNCHANGED <<session, outcome>>
    BY <1>1
    DEF vars, Tick, Cancel, BeginCancel, ReceiveCancel, CancelRequestFails, EndCancel,
        callVars, serverVars
  <2>2. QED BY <2>1 DEF Promise!vars
<1>2. QED
  BY <1>1, CallImplements, ServerImplements DEF Next

\* Every behaviour of the client and its environment is one that RpcPromise allows.
THEOREM ImplementsPromise == Spec => KeepsPromise
<1>1. Init => Promise!Init
  BY DEF Init, Promise!Init, Promise!Calls, Calls, Told
<1>2. QED
  BY <1>1, NextImplements, Invariance, PTL DEF Spec, KeepsPromise, Promise!Spec
=============================================================================
