----------------------------- MODULE RpcMessage -----------------------------
(***************************************************************************)
(* The messages of the RESTful RPC protocol (mdtpy.rpc.restful) and what   *)
(* the clients make of them.  A response keeps only what the clients tell  *)
(* apart: the class of its HTTP status, the `status' field of its body,    *)
(* whether a session endpoint is there, and the shape of its error part.   *)
(* The names of exceptions are the results of the operators below; "none"  *)
(* stands for "no exception: go on".                                       *)
(***************************************************************************)

\* RpcState, as it stands in the `status' field of a response body.
RpcState == {"RUNNING", "COMPLETED", "FAILED", "CANCELLED"}

EndState == RpcState \ {"RUNNING"}

\* error: "entity" has a code or a message; "empty" is an error object whose code
\* and message are both null; "absent" is no error object.
ErrorShape == {"entity", "empty", "absent"}

Response == [http     : {"pending", "ok", "conflict", "notFound"},
             status   : RpcState \cup {"absent"},
             endpoint : BOOLEAN,
             error    : ErrorShape]

\* No answer has come yet.
Pending == [http |-> "pending", status |-> "absent", endpoint |-> FALSE, error |-> "absent"]

\* A session's state as a session URL's GET or DELETE reports it; shape is that of
\* the error a FAILED session carries.
Report(state, shape) ==
    [http |-> "ok", status |-> state, endpoint |-> TRUE,
     error |-> IF state = "FAILED" THEN shape ELSE "absent"]

Refusal(http) == [http |-> http, status |-> "absent", endpoint |-> FALSE, error |-> "entity"]

\* RestfulErrorEntity.to_exception: RestfulRemoteException's constructor formats the
\* entity, and an entity with neither code nor message cannot be formatted.
ToException(shape) ==
    IF shape = "entity" THEN "RestfulRemoteException" ELSE "RuntimeError"

\* parse_response_message with RpcResponseMessage.from_json_object and __post_init__:
\* the exception it raises, "none" when it yields a message.
ParseError(r) ==
    IF r.http # "ok"
    THEN IF r.error = "absent" THEN "HTTPError" ELSE ToException(r.error)
    ELSE IF r.status = "absent" \/ (r.status = "FAILED" /\ r.error = "absent")
         THEN "ValueError"
         ELSE "none"

\* Both clients wrap the exception restored from a FAILED message.
FailedOutcome(r) ==
    IF ToException(r.error) = "RestfulRemoteException" THEN "RpcExecutionError"
                                                       ELSE "RuntimeError"

\* What RESTfulAsyncRpcClient.__start makes of the answer to its POST.
StartOutcome(r) ==
    IF ParseError(r) # "none" THEN ParseError(r)
    ELSE CASE r.status = "RUNNING" -> IF r.endpoint THEN "none" ELSE "AssertionError"
           [] r.status = "FAILED" -> FailedOutcome(r)
           [] OTHER -> "RuntimeError"

\* Mutant: a CANCELLED session is handed on to the caller instead of raised.
MutantPollOutcome(r) ==
    IF ParseError(r) # "none" THEN ParseError(r)
    ELSE CASE r.status = "RUNNING" -> "none"
           [] r.status = "COMPLETED" -> "returned"
           [] r.status = "FAILED" -> FailedOutcome(r)
           [] OTHER -> "cancelled"

\* What RESTfulAsyncRpcClient.call makes of the answer to a poll.
PollOutcome(r) ==
    IF ParseError(r) # "none" THEN ParseError(r)
    ELSE CASE r.status = "RUNNING" -> "none"
           [] r.status = "COMPLETED" -> "returned"
           [] r.status = "FAILED" -> FailedOutcome(r)
           [] OTHER -> "RpcCancelledError"

\* Mutant: a 409 is taken for a confirmed cancellation.
MutantCancelResult(r) ==
    IF r.http = "conflict" THEN "True"
    ELSE IF ParseError(r) # "none" THEN ParseError(r)
         ELSE IF r.status = "CANCELLED" THEN "True" ELSE "RuntimeError"

\* What RESTfulAsyncRpcClient.cancel makes of the answer to its DELETE.
CancelResult(r) ==
    IF r.http = "conflict" THEN "False"
    ELSE IF ParseError(r) # "none" THEN ParseError(r)
         ELSE IF r.status = "CANCELLED" THEN "True" ELSE "RuntimeError"

Exception == {"RestfulRemoteException", "RuntimeError", "HTTPError", "ValueError",
              "AssertionError", "RpcExecutionError", "RpcCancelledError",
              "TimeoutError", "RequestException"}
=============================================================================
