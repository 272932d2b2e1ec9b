------------------------------ MODULE AsyncRpc ------------------------------
(***************************************************************************)
(* RESTfulAsyncRpcClient (mdtpy/rpc/restful/restful_async_rpc_client.py)   *)
(* against an operation server: one thread makes the calls of one client   *)
(* object, one after the other; other threads cancel; requests and answers *)
(* may be lost or be carried out after their sender stopped waiting.       *)
(*                                                                         *)
(* The session that the POST of the n-th call opens is named n.  Time is   *)
(* kept as what remains of the call's time limit and of its sleep, so no   *)
(* clock has to be bounded.                                                *)
(***************************************************************************)
EXTENDS Integers, RpcMessage

CONSTANTS
    MaxCalls,       \* bound: call() is made at most this often
    Cancellers,     \* the threads that call cancel()
    Timeout,        \* the client's timeout in ticks; NoTimeout when it is None
    PollInterval,   \* the client's poll_interval in ticks
    ErrorShapes,    \* the shapes of the errors that FAILED sessions carry
    OffProtocol     \* whether the POST may be answered off the protocol

NoTimeout == -1

ASSUME CallsAssumption == MaxCalls \in Nat
ASSUME TimesAssumption == /\ Timeout \in Nat \cup {NoTimeout}
                          /\ PollInterval \in Nat
ASSUME ServerAssumption == /\ ErrorShapes \subseteq {"entity", "empty"}
                           /\ OffProtocol \in BOOLEAN

VARIABLES
    \* the thread in call()
    call,        \* number of the current or last call; 0 before the first
    pc,          \* where that thread is
    left,        \* time left before `deadline'; NoTimeout without one
    nap,         \* time left to sleep
    reply,       \* the answer to the thread's request, as far as it has come
    outcome,     \* outcome[n]: how the n-th call ended; "none" until then
    \* the client object
    sessionUrl,  \* __session_url: the session it leads to, 0 for None
    \* the threads in cancel()
    cpc, target, creply, result,
    \* the operation server and the network
    session,     \* session[n]: state of the n-th call's session; "none": not opened
    reclaimed,   \* sessions whose retention period is over
    late,        \* requests given up by their sender that may yet be carried out
    knowable     \* history: calls that polled when their operation had ended

callVars   == <<call, pc, left, nap, reply, outcome>>
cancelVars == <<cpc, target, creply, result>>
serverVars == <<session, reclaimed, late, knowable>>
vars == <<callVars, sessionUrl, cancelVars, serverVars>>

Calls == 1 .. MaxCalls

Outcome == {"none", "returned"} \cup Exception

Result == {"none", "True", "False"} \cup Exception

Requests == [method : {"POST", "DELETE"}, session : Calls]

TypeOK ==
    /\ call \in 0 .. MaxCalls
    /\ pc \in {"idle", "encoding", "posting", "sleeping", "polling"}
    /\ pc # "idle" => call \in Calls
    /\ left \in Nat \cup {NoTimeout}
    /\ nap \in Nat
    /\ reply \in Response
    /\ outcome \in [Calls -> Outcome]
    /\ sessionUrl \in 0 .. MaxCalls
    /\ cpc \in [Cancellers -> {"idle", "deleting"}]
    /\ target \in [Cancellers -> 0 .. MaxCalls]
    /\ \A t \in Cancellers : cpc[t] = "deleting" => target[t] \in Calls
    /\ creply \in [Cancellers -> Response]
    /\ result \in [Cancellers -> Result]
    /\ session \in [Calls -> RpcState \cup {"none"}]
    /\ reclaimed \subseteq Calls
    /\ late \subseteq Requests
    /\ knowable \subseteq Calls

Init ==
    /\ call = 0
    /\ pc = "idle"
    /\ left = NoTimeout
    /\ nap = 0
    /\ reply = Pending
    /\ outcome = [n \in Calls |-> "none"]
    /\ sessionUrl = 0
    /\ cpc = [t \in Cancellers |-> "idle"]
    /\ target = [t \in Cancellers |-> 0]
    /\ creply = [t \in Cancellers |-> Pending]
    /\ result = [t \in Cancellers |-> "none"]
    /\ session = [n \in Calls |-> "none"]
    /\ reclaimed = {}
    /\ late = {}
    /\ knowable = {}

-----------------------------------------------------------------------------
(* The thread in call().                                                   *)

\* call() leaves with o: a return or an exception.
Leave(o) ==
    /\ outcome' = [outcome EXCEPT ![call] = o]
    /\ pc' = "idle"
    /\ left' = NoTimeout
    /\ nap' = 0
    /\ reply' = Pending
    /\ UNCHANGED call

\* Mutant: the deadline is computed anew before each poll.
MutantSleep ==
    /\ pc' = "sleeping"
    /\ nap' = PollInterval
    /\ left' = Timeout
    /\ reply' = Pending
    /\ UNCHANGED <<call, outcome>>

Sleep ==
    /\ pc' = "sleeping"
    /\ nap' = PollInterval
    /\ reply' = Pending
    /\ UNCHANGED <<call, left, outcome>>

\* The deadline is fixed before __start begins.
BeginCall ==
    /\ pc = "idle"
    /\ call < MaxCalls
    /\ call' = call + 1
    /\ pc' = "encoding"
    /\ left' = Timeout
    /\ UNCHANGED <<nap, reply, outcome, sessionUrl, cancelVars, serverVars>>

\* Encoding an ElementReference argument reads its value from its server.
EncodingFails ==
    /\ pc = "encoding"
    /\ Leave("RequestException")
    /\ UNCHANGED <<sessionUrl, cancelVars, serverVars>>

SendPost ==
    /\ pc = "encoding"
    /\ pc' = "posting"
    /\ UNCHANGED <<call, left, nap, reply, outcome, sessionUrl, cancelVars, serverVars>>

\* Mutant: the URL is only set when the client has none yet.
MutantReceiveStart ==
    /\ pc = "posting"
    /\ reply # Pending
    /\ LET o == StartOutcome(reply) IN
         IF o = "none" THEN /\ sessionUrl' = IF sessionUrl = 0 THEN call ELSE sessionUrl
                            /\ Sleep
                       ELSE UNCHANGED sessionUrl /\ Leave(o)
    /\ UNCHANGED <<cancelVars, serverVars>>

\* The end of __start: only a RUNNING answer replaces the session URL.
ReceiveStart ==
    /\ pc = "posting"
    /\ reply # Pending
    /\ LET o == StartOutcome(reply) IN
         IF o = "none" THEN sessionUrl' = call /\ Sleep
                       ELSE UNCHANGED sessionUrl /\ Leave(o)
    /\ UNCHANGED <<cancelVars, serverVars>>

Expired == left = 0

\* Mutant: giving up forgets the session.
MutantWakeTooLate ==
    /\ pc = "sleeping"
    /\ nap = 0
    /\ Expired
    /\ Leave("TimeoutError")
    /\ sessionUrl' = 0
    /\ UNCHANGED <<cancelVars, serverVars>>

\* The deadline is looked at after each sleep, and only there.
WakeTooLate ==
    /\ pc = "sleeping"
    /\ nap = 0
    /\ Expired
    /\ Leave("TimeoutError")
    /\ UNCHANGED <<sessionUrl, cancelVars, serverVars>>

SendPoll ==
    /\ pc = "sleeping"
    /\ nap = 0
    /\ ~Expired
    /\ pc' = "polling"
    /\ knowable' = IF session[sessionUrl] \in EndState THEN knowable \cup {call} ELSE knowable
    /\ UNCHANGED <<call, left, nap, reply, outcome, sessionUrl, cancelVars,
                   session, reclaimed, late>>

\* Mutant: a session that is no longer there is taken for a completed one.
MutantReceivePoll ==
    /\ pc = "polling"
    /\ reply # Pending
    /\ LET o == IF reply.http = "notFound" THEN "returned" ELSE PollOutcome(reply)
       IN  IF o = "none" THEN Sleep ELSE Leave(o)
    /\ UNCHANGED <<sessionUrl, cancelVars, serverVars>>

\* Mutant: the deadline is looked at after each poll, too.
MutantReceivePollLate ==
    /\ pc = "polling"
    /\ reply # Pending
    /\ LET o == IF Expired THEN "TimeoutError" ELSE PollOutcome(reply)
       IN  IF o = "none" THEN Sleep ELSE Leave(o)
    /\ UNCHANGED <<sessionUrl, cancelVars, serverVars>>

ReceivePoll ==
    /\ pc = "polling"
    /\ reply # Pending
    /\ LET o == PollOutcome(reply) IN IF o = "none" THEN Sleep ELSE Leave(o)
    /\ UNCHANGED <<sessionUrl, cancelVars, serverVars>>

\* A request fails: the connection breaks, or request_timeout runs out.  A POST that
\* is on its way may still open a session later.
RequestFails ==
    /\ pc \in {"posting", "polling"}
    /\ Leave("RequestException")
    /\ late' = IF pc = "posting" /\ reply = Pending
               THEN late \cup {[method |-> "POST", session |-> call]}
               ELSE late
    /\ UNCHANGED <<sessionUrl, cancelVars, session, reclaimed, knowable>>

Call == \/ BeginCall \/ EncodingFails \/ SendPost \/ ReceiveStart \/ WakeTooLate
        \/ SendPoll \/ ReceivePoll \/ RequestFails

-----------------------------------------------------------------------------
(* The threads in cancel().                                                *)

\* The URL is tested and then read again for the request; once it leads to a session
\* it never becomes None, so the moment of the second reading is the one that counts.
BeginCancel(t) ==
    /\ cpc[t] = "idle"
    /\ IF sessionUrl = 0
       THEN /\ result' = [result EXCEPT ![t] = "RuntimeError"]
            /\ UNCHANGED <<cpc, target>>
       ELSE /\ cpc' = [cpc EXCEPT ![t] = "deleting"]
            /\ target' = [target EXCEPT ![t] = sessionUrl]
            /\ result' = [result EXCEPT ![t] = "none"]
    /\ UNCHANGED <<creply, callVars, sessionUrl, serverVars>>

EndCancel(t, r) ==
    /\ cpc' = [cpc EXCEPT ![t] = "idle"]
    /\ creply' = [creply EXCEPT ![t] = Pending]
    /\ result' = [result EXCEPT ![t] = r]
    /\ UNCHANGED <<target, callVars, sessionUrl, session, reclaimed, knowable>>

ReceiveCancel(t) ==
    /\ cpc[t] = "deleting"
    /\ creply[t] # Pending
    /\ EndCancel(t, CancelResult(creply[t]))
    /\ UNCHANGED late

\* Mutant: the DELETE is sent without a request_timeout.
MutantCancelRequestFails(t) == cpc[t] = "deleting" /\ UNCHANGED vars

CancelRequestFails(t) ==
    /\ cpc[t] = "deleting"
    /\ EndCancel(t, "RequestException")
    /\ late' = IF creply[t] = Pending
               THEN late \cup {[method |-> "DELETE", session |-> target[t]]}
               ELSE late

Cancel(t) == BeginCancel(t) \/ ReceiveCancel(t) \/ CancelRequestFails(t)

-----------------------------------------------------------------------------
(* The operation server, as the protocol notes of the client describe it.  *)

\* Session n gets its next state.
EndSession(n, state) == session' = [session EXCEPT ![n] = state]

\* The POST of a call is carried out; on the protocol, the session is RUNNING or the
\* operation has FAILED without one.
ServePost ==
    /\ pc = "posting"
    /\ reply = Pending
    /\ \E state \in IF OffProtocol THEN RpcState ELSE {"RUNNING", "FAILED"},
          shape \in ErrorShapes, endpoint \in IF OffProtocol THEN BOOLEAN ELSE {TRUE} :
         /\ EndSession(call, state)
         /\ reply' = [Report(state, shape) EXCEPT !.endpoint = endpoint]
    /\ UNCHANGED <<call, pc, left, nap, outcome, sessionUrl, cancelVars,
                   reclaimed, late, knowable>>

ServePoll ==
    /\ pc = "polling"
    /\ reply = Pending
    /\ IF sessionUrl \in reclaimed
       THEN reply' = Refusal("notFound")
       ELSE \E shape \in ErrorShapes : reply' = Report(session[sessionUrl], shape)
    /\ UNCHANGED <<call, pc, left, nap, outcome, sessionUrl, cancelVars, serverVars>>

\* A DELETE is answered 404 for a reclaimed session, 409 for one that has ended or
\* whose operation refuses to be cancelled, and else cancels it.
ServeCancel(t) ==
    /\ cpc[t] = "deleting"
    /\ creply[t] = Pending
    /\ LET n == target[t]
           Answer(r) == creply' = [creply EXCEPT ![t] = r]
       IN \/ /\ n \in reclaimed
             /\ Answer(Refusal("notFound"))
             /\ UNCHANGED session
          \/ /\ n \notin reclaimed
             /\ Answer(Refusal("conflict"))
             /\ UNCHANGED session
          \/ /\ session[n] = "RUNNING"
             /\ Answer(Report("CANCELLED", "absent"))
             /\ EndSession(n, "CANCELLED")
    /\ UNCHANGED <<cpc, target, result, callVars, sessionUrl, reclaimed, late, knowable>>

\* A request whose sender no longer waits is carried out all the same.
ServeLate ==
    \E req \in late :
        /\ late' = late \ {req}
        /\ \/ /\ req.method = "POST"
              /\ session[req.session] = "none"
              /\ EndSession(req.session, "RUNNING")
           \/ /\ req.method = "DELETE"
              /\ session[req.session] = "RUNNING"
              /\ EndSession(req.session, "CANCELLED")
        /\ UNCHANGED <<callVars, sessionUrl, cancelVars, reclaimed, knowable>>

OperationEnds(n) ==
    /\ session[n] = "RUNNING"
    /\ \E state \in {"COMPLETED", "FAILED"} : EndSession(n, state)
    /\ UNCHANGED <<callVars, sessionUrl, cancelVars, reclaimed, late, knowable>>

Reclaim(n) ==
    /\ session[n] \in EndState
    /\ n \notin reclaimed
    /\ reclaimed' = reclaimed \cup {n}
    /\ UNCHANGED <<callVars, sessionUrl, cancelVars, session, late, knowable>>

Server == \/ ServePost \/ ServePoll \/ ServeLate
          \/ \E t \in Cancellers : ServeCancel(t)
          \/ \E n \in Calls : OperationEnds(n) \/ Reclaim(n)

Tick ==
    /\ pc # "idle"
    /\ left > 0 \/ nap > 0
    /\ left' = IF left > 0 THEN left - 1 ELSE left
    /\ nap' = IF nap > 0 THEN nap - 1 ELSE nap
    /\ UNCHANGED <<call, pc, reply, outcome, sessionUrl, cancelVars, serverVars>>

-----------------------------------------------------------------------------
Next == Call \/ (\E t \in Cancellers : Cancel(t)) \/ Server \/ Tick

Spec == Init /\ [][Next]_vars

\* Time passes; a thread goes on when it can; an exchange ends, by its answer or by
\* request_timeout.  Nothing makes an operation end or a caller call again.
Proceed == EncodingFails \/ SendPost \/ ReceiveStart \/ WakeTooLate \/ SendPoll
           \/ ReceivePoll \/ RequestFails

Fairness == /\ WF_vars(Tick)
            /\ WF_vars(Proceed)
            /\ \A t \in Cancellers : WF_vars(ReceiveCancel(t) \/ CancelRequestFails(t))

FairSpec == Spec /\ Fairness
-----------------------------------------------------------------------------
(* Properties.                                                             *)

\* An outcome about the operation is true of the call's own operation: call() returns
\* outputs, raises RpcExecutionError or raises RpcCancelledError only if the session
\* its own POST opened has COMPLETED, FAILED or been CANCELLED.
OutcomeAgrees ==
    \A n \in Calls :
        /\ outcome[n] = "returned" => session[n] = "COMPLETED"
        /\ outcome[n] = "RpcExecutionError" => session[n] = "FAILED"
        /\ outcome[n] = "RpcCancelledError" => session[n] = "CANCELLED"

\* cancel() returning True is final: the session it addressed stays cancelled, and the
\* call that opened it returns no outputs, whatever answers are under way.
CancelIsFinal ==
    \A t \in Cancellers :
        result[t] = "True" => /\ session[target[t]] = "CANCELLED"
                              /\ outcome[target[t]] \notin {"returned", "RpcExecutionError"}

\* The operation of a call that has its session can be cancelled while the call waits
\* for it, and still after a TimeoutError: until the next call() gets its own session,
\* the client's session URL leads to that of this one.
TimedOutStaysCancellable ==
    /\ pc \in {"sleeping", "polling"} => sessionUrl = call
    /\ pc = "idle" /\ call > 0 /\ outcome[call] = "TimeoutError" => sessionUrl = call
    /\ pc \in {"encoding", "posting"} /\ call > 1 /\ outcome[call - 1] = "TimeoutError"
         => sessionUrl = call - 1

\* What an outcome tells the caller about the operation.
Told(o) ==
    CASE o = "none" -> "none"
      [] o = "returned" -> "COMPLETED"
      [] o = "RpcExecutionError" -> "FAILED"
      [] o = "RpcCancelledError" -> "CANCELLED"
      [] OTHER -> "givenUp"

Promise == INSTANCE RpcPromise WITH
    op <- session, answer <- [n \in Calls |-> Told(outcome[n])]

\* The client does what RpcPromise says: the answers callers get are those of an
\* operation that ends once and is reported truly.
KeepsPromise == Promise!Spec

\* With a timeout every call() ends, although the operation may run for ever and
\* every request may fail.
CallEnds == (pc # "idle") ~> (pc = "idle")

\* Every cancel() ends.
CancelEnds == \A t \in Cancellers : (cpc[t] = "deleting") ~> (cpc[t] = "idle")

\* A call that asks for its session when the operation has ended does not end with
\* TimeoutError any more, although the time limit may have run out meanwhile; so
\* TimeoutError means that the operation had not ended when it was polled last.
TimeoutMeansUnknown == \A n \in knowable : outcome[n] # "TimeoutError"

\* The docstring of cancel(): it asks to cancel the operation in progress and may be
\* called while call() is; so a DELETE sent while the operation of a call runs and its
\* caller waits for it addresses that operation.
CancelTakesTheCurrent ==
    [][\A t \in Cancellers :
         /\ cpc[t] = "idle" /\ cpc'[t] = "deleting"
         /\ pc # "idle" /\ session[call] = "RUNNING"
         => target'[t] = call]_vars
=============================================================================
