# mdtpy in TLA+

mdtpy is a Python client of the MDT platform: it talks HTTP to an *instance
manager* (which keeps digital-twin instances), to the FA3ST server of each running
instance (which keeps its submodels), and to *operation servers* (which run
operations remotely), and it provides task bodies for Airflow DAGs on top of these.
The library keeps little state, but what it keeps it caches: a session URL, a
descriptor, a service URL, a list of paths, operation variables, the outputs of tasks. Almost everything
that can go wrong comes from that state being older than the world it describes:
several threads, clients or workers act at once, requests fail after they took
effect, or take effect after they failed, and attempts are repeated.

This directory models that. Paths below are relative to the root of the repository;
`mdtpy/` stands for `src/src/mdtpy/` as `PROJECT.json` names it.

## Inventory

| Component | State it keeps | Operations | What is hard | What makes it correct |
|---|---|---|---|---|
| Async RPC client (`rpc/restful/restful_async_rpc_client.py`) | session URL, the deadline of the call | `call`, `cancel` (from other threads) | cancel races start, completion and reclamation; time limit; lost POST and DELETE; one object used for several calls | an outcome is that of the call's own operation; True from `cancel` is final; calls end; a timed-out operation can still be cancelled |
| RPC messages (`rpc_response_message.py`, `error.py`, `common.py`, ...) | none | parse a response, restore an exception, encode arguments | error bodies of odd shapes | every response has exactly one meaning |
| Sync RPC client (`restful_rpc_client.py`) | none | `call` | a long request | as above, without a session |
| Instance handles (`instance.py`, `descriptor.py`) | the descriptor a handle read last; the pollers' copy | `start`, `stop`, `reload_descriptor`, attributes; collection: `add`, `remove`, `[]` | other clients change the instance between PUT, reload and polls; an unbounded wait; late requests; polls that last longer than their interval | what `start`/`stop` return or raise was true after their PUT; waits end, soon after they may; polls keep their pace |
| HTTP answers (`http_client.py`, `exceptions.py`) | none | classify an answer | incomplete error bodies | a refused command has had no effect, whichever exception its body makes of it |
| DAG operators (`airflow/operator/*`) | constructor arguments | `run` | a failure between two writes, or between the writes and the outputs; values that turn out to have no JSON form; retries | nothing is written before all results are there and converted; sinks and outputs of a success agree |
| DAG contexts (`airflow/dag_context.py`, `dag_task_argument.py`) | class variable of task outputs; XComs | `get_task_output`, `set_task_outputs` | outputs that outlive an attempt or a run | inputs are those of the latest success |
| Operation services (`operation/*`) | the operation variables | `invoke` | results written one by one; variables kept from one invocation to the next, as references to elements that callers may hold too; arguments that fail half-way | a request carries what was passed, under the right names; nothing changes that no argument was given for |
| Element collections (`submodel.py`) | the set of paths | `[]`, `[]=`, `del`, `in`, `refresh` | other clients; a mutation that failed after it took effect | the cache shows the client's own changes |
| Element references (`ref/*`, `parameter.py`) | service URL, JSON form, manager, prototype | read, write, values, attachments | two-step attachments; instances that move; global manager | what returned took effect in both places; no attached file without a name |
| FA3ST requests (`fa3st.py`) | none | GET/PUT/POST/PATCH/DELETE | | |
| Values, codecs (`value/*`) | none | `get_value`, `apply_to`, `update_element_with_raw_value`; to and from two forms of JSON and Python objects | seven ways of encoding a scalar, two casts in a row, parts that fail after others were changed | a value that went round shows where it was put; an element keeps its types |
| Time series (`timeseries.py`), AAS helpers (`aas_misc.py`, `basyx/*`), utilities (`utils.py`) | none | conversions, reads of records | numeric and textual edges | round trips |
| Batch reader (`src/src/samples/sample_timeseries_reader.py`) | a cursor file | one run of the program | interruption at any point; a file that is emptied before it is written; records of the same time | no record is passed over, none is done twice without need |

How they interact: operators call the RPC clients, the operation services and element
references; references and operation services go through the global manager object
(`instance.mdt_manager`, set by `connect`) to the manager's HTTP interface, or straight
to the FA3ST server; `start` and `stop` use the pollers; contexts carry values from one
operator to the next. Nothing calls back into the library; concurrency comes from the
caller's threads (`cancel`), from other processes using the same instances, and from
Airflow's workers.

`PROJECT.json` lists every component with its status, and the hazards with their lines.

## Modules

| Module | Models |
|---|---|
| `RpcMessage` | responses of the RPC protocol and what the clients make of them |
| `AsyncRpc` | `RESTfulAsyncRpcClient` with its threads, the operation server, the network and time |
| `RpcPromise` | abstract: what an asynchronous remote operation promises its caller |
| `AsyncRpcProofs` | theorems about `AsyncRpc` |
| `HttpAnswers` | the exceptions that error bodies become, as operators |
| `InstanceLifecycle` | handles of several clients on one instance, the instance manager, the network |
| `InstanceStates` | the states of an instance, the calls on it and what the manager makes of its commands, as operators |
| `InstancePromise` | abstract: what those calls promise |
| `InstanceLifecycleProofs` | theorems about `InstanceLifecycle`, and that it implements `InstancePromise` |
| `StatusPoller` | the clock of `wait_for_done`: interval, limit, polls that take time |
| `StatusPollerProofs` | theorems about `StatusPoller` |
| `DagTask` | the operators' `run()` in both contexts, Airflow, the servers behind the sinks |
| `MCDagTask` | DAGs of two tasks for TLC |
| `TaskAttempts` | abstract: what the attempts at the tasks of a DAG promise, whatever their operators |
| `DagTaskProofs` | theorems about `DagTask`, that it implements `TaskAttempts`, and what that is enough for |
| `OperationArguments` | an operation's variables, the elements of callers, arguments and contents, as constants and operators |
| `AasOperation` | the operation variables of `AASOperationService`, alone and behind an `OperationSubmodelService` |
| `MCAasOperation` | an operation with three variables and the elements of its callers for TLC |
| `OperationVariables` | abstract: what an invocation promises of the operation variables |
| `AasOperationProofs` | theorems about `AasOperation`, that it implements `OperationVariables`, and what that is enough for |
| `ElementCollection` | `SubmodelElementCollection` of several clients, the references it makes, the servers and the network |
| `ElementStore` | abstract: what assigning, deleting and updating elements promises |
| `MCElementCollection` | the same for TLC, with clients exchangeable |
| `ElementCollectionProofs` | theorems about `ElementCollection`, and that it implements `ElementStore` |
| `FileAttachment` | the attachment methods of references with a kept URL, an instance that moves |
| `MCFileAttachment` | the same for TLC, with clients and URLs exchangeable |
| `AttachmentStore` | abstract: what putting, deleting and getting attachments promises |
| `FileAttachmentProofs` | theorems about `FileAttachment`, and that it implements `AttachmentStore` |
| `ElementValues` | the conversions of values and the changes of elements, as operators |
| `ValueTrip` | the ways of a value from element to element through those conversions |
| `MCValueTrip` | the elements and objects for TLC |
| `BatchReader` | the sample program that reads a time series in batches |
| `BatchReaderProofs` | theorems about `BatchReader` |

Three conventions hold throughout. An HTTP exchange is two or three steps: the client's
sending, the server's carrying out with its answer, the client's receiving, so that
others may act in between. A request that fails (connection, timeout) was carried out,
or never will be, or is in the set `late` and will be carried out at any later time. An
exception is named by its class; wording is left out.

Definitions named `Mutant...` stand next to the definition they are a broken variant
of; no specification uses them. They show that a property depends on the code.

### AsyncRpc

One thread makes the calls of one client object, one after the other, as the class is
written for; other threads cancel. `pc` follows `call()`: `encoding` (the arguments;
an `ElementReference` is read from its server), `posting`, `sleeping`, `polling`.
`sessionUrl` is `__session_url`; the session opened by the n-th POST is called n.
`Leave` is every way out of `call()`. `Expired` is the comparison of line 102, made in
`WakeTooLate` after each sleep and nowhere else. `StartOutcome`, `PollOutcome` and
`CancelResult` are what `__start`, `call` and `cancel` make of an answer, with
`ParseError` for `parse_response_message` and the constructor checks of
`RpcResponseMessage`. An error object without code and message makes
`RestfulRemoteException(...)` itself fail with RuntimeError (`ToException`).

The operation server is external. It does what the client's protocol notes say: a POST
is answered RUNNING with an endpoint or FAILED; a DELETE with 200 and CANCELLED, 409 or
404; ended sessions are reclaimed some time. With `OffProtocol` the POST may also be
answered with any state and without an endpoint.

Time is what is left of the limit (`left`) and of the sleep (`nap`), so nothing needs a
bounded clock. Ticks happen between any two steps, so requests take any time.

`RpcPromise` says it abstractly: an operation ends at most once; calls are answered
once, in order, with the end their own operation has reached or with the news that the
call was given up. `Promise` is the refinement mapping (`op` is `session`, `answer` is
what `outcome` tells).

### InstanceLifecycle

Each client has its own handle (`desc`, the cached status) on one instance, and calls
`start`, `stop` (with and without `nowait`), `add`, `remove`, `instances[id]` or
`reload_descriptor` ("read"), a guarded attribute (`submodel_descriptors`, with
`operations`, `submodel_services` and `timeseries` behind it) or an unguarded one
(`parameters`, standing also for `parameter_descriptors` and `operation_descriptors`).
`pc` is what the call waits for: `command` (the PUT, POST or DELETE), `reload`, `poll`,
`pause` (between two polls) or `attribute`. The first poll follows the reload at once,
as `is_done()` is asked before the first sleep; the handle gets the poller's descriptor
only after the wait. The manager is external: it has a command take effect, accepts it
without effect (the case `start()` and `stop()` check for) or refuses it; starts and
stops succeed or fail; a running instance may fail. A refusal comes with one of the
`Bodies`, and the call raises what `ToException` (`HttpAnswers`) makes of it, in
`ReceiveCommand`, `ReceiveReload`, `ReceivePoll` or `ReceiveAttribute`. So `start()` and
`stop()` raise InvalidResourceStateError in two ways: over a refused PUT whose body says
so, before the reload and whatever the handle shows, and over a status that they got to
see. `OutcomeIsTrue` tells them apart by `since`, which a refused PUT leaves empty. A body with a known code and no message raises KeyError,
an empty list of messages IndexError, although the docstring of `to_exception` says that
it returns an exception for every body. `late` counts the commands of each
kind that were given up and may yet be carried out: two lost deletions may both be. The
history `since` has the statuses the instance had since the call's PUT was accepted, or
since a mere read began.

`InstancePromise` says it without requests: a command is carried out at most once, before
its call returns, never after a refusal, and perhaps later when its request broke; a
refused call raises what the refusal says, and
what a call leaves in its handle or raises otherwise is true of a time during the call.
`InstanceStates` has the operators both speak of. `Promise` is the refinement mapping: the
`Stage` of a call follows from what it waits for and its answer.

Assumed: the GET of an instance is refused only when there is no such instance, and so
with a body that is not about its status; 2xx answers have the form the code expects.

Bounds of the abstraction: the wait between polls has no length (`StatusPoller` has it);
a handle is used by one client, as the code makes no offer of sharing one.

Observed: `parameters` (instance.py:569), `parameter_descriptors` and
`operation_descriptors` send their request whatever the status, as the model has it
(`Guarded`), though the programming guide says they raise unless the handle is RUNNING
(`src/doc/programming_guide.md:104`).

### StatusPoller

Time is counted in ticks from the beginning of the wait; it passes while `is_done()`
runs (`polling`) and in `time.sleep` (`sleeping`), and nowhere else, as the rest of the
loop takes none to speak of. `next` is `next_wakeup`, `Slack` and `MinSleep` the 0.01
and 0.001 seconds of the code. A poll tells what was true at some time since it began:
once the work had ended before, it says so (`PollSaysDone`), and else either answer may
come. `PollAgain` is the end of the loop's body with the catching-up loop (`CaughtUp`).
`timeout` is 0 for none, as the code takes both alike (`if self.timeout`).

Observed: with a `poll_interval` of 0 the catching-up loop never gets past the present;
`Intervals` leaves 0 out, and no caller in the library passes it. The clock is
`time.time()`, which may be set back or forth; the model's only goes on.

### DagTask

A plan gives each task an operator kind and its arguments. `Resolve` gets the inputs
(task outputs, references, literals) and looks up the submodel; `GetResults` is the
operation or script coming back, with the check for missing outputs
(`RestfulRpcOperator`) and the making of an ElementValue of every result, which all
operators finish before their first write; `Write` is one `update_value`; `Publish` is
`set_task_outputs`. A value is converted once more, to JSON: `update_value` does it before
it sends anything (instance.py:265), and `AirflowDagContext.set_task_outputs` does it for
all outputs before it stores them (dag_context.py:213). Some ElementValues have no JSON
form, such as a Property of `xs:date` (element_value.py:187-189). `unfit` has the results of
this sort, which operators other than the two RESTful ones may get; with one of them
`CannotWrite` or `CannotPublish` ends the attempt by ValueError, after other sinks
were written. A `LocalDagContext` keeps such a value as it is. Errors are named by their
cause: `RequestError` is a request that failed (`RequestException`) or was refused (any
class of `HttpAnswers`). `ToWrite` and `ToPublish` say which results go where for each
operator, `OperationSubmodelService.invoke`'s default references included. A value is
known by the task and the attempt that made it. `BreakOffWrite` is a write that fails or
during which the worker is killed; `PublishFails` an XCom push that does.
Airflow is external: a task starts when those before it succeeded, its XComs are cleared
when it starts again, attempts are never concurrent, a DAG may be run again. In a
`LocalDagContext` a program calls `run()` of one task after the other, goes on after
exceptions if it likes, and the class variable outlives runs.

`TaskAttempts` says what is common to the six operators and the two contexts, to whoever
reads outputs and sinks: an attempt has its inputs before it decides what it writes; it
writes that and no more, each sink once; its outputs follow all at once, when nothing is
left to write, and what it wrote is among them; one that refuses what it got has written
nothing; one that gets stuck has a result that cannot be passed on, among those it was to
write or when all was written, and never wrote such a one; one that breaks leaves at
most one write that may come later. `Attempts` is the
refinement mapping: the `Stage` of an attempt follows from where `run()` is and from the
error it ended with.

Assumed: sinks are different elements (two outputs with the same sink would only say
that the last write wins), sources outside the DAG are not tracked, and inputs are
values (a `timeseries:` reference, which yields a whole element, is not an input of
`SetElementOperator`).

Observed: the docstrings and comments of the converting operators
(`mdtpy/airflow/operator/python_script.py:52`, `:71`, `restful_async_rpc.py:33`) say that
all values are converted before any is written, so that no attempt fails with some of
its outputs recorded. That holds of the conversion into ElementValues. A script's output
without a JSON form still stops at its own write, with other sinks written
(`NoHalfWritten` says exactly when).

Also observed: `OperationSubmodelOperator` without `outputs` writes to the registered
references (mdt_operation.py:80), as `ToWrite` has it, though the notes common to all
operators say that without `outputs` nothing is written to elements
(`src/src/mdtpy/airflow/operator/README.md:86`; another paragraph does mention it).

### AasOperation

The service keeps one `OperationVariable` for each variable of the operation, and each
refers to a SubmodelElement. Elements are objects: `holds[v]` is the one variable v
refers to, `idShort` and `val` what it contains, which anybody who refers to it can see
and change (`Edit`). `Enter` is the call, `Apply` one turn of the loop of lines 74-90:
no argument (`Skip`), a value that changes the element in place (`ApplyValue`), or an
element that takes the variable's place and name (`ReplaceElement`). The argument is
looked up by the name of the element that is there (`VarId`), as in the code.
`ApplyFails` raises with the element as it was or with some members changed. What is
sent are the input variables alone (`SendRequest`). `WithDefaults` is the dictionary
that `OperationSubmodelService.invoke` makes before it calls the same method. The
operation is external; what becomes of its results is part of `DagTask`. Giving a passed
element the variable's name (line 88) always succeeds here: elements are assumed to have
no parent with another member of that name, for which BaSyx refuses the new name.

`OperationVariables` says it without the loop, the names and the service of a submodel:
an invocation takes all of its arguments in one step and sends what is then in the input
variables, or it breaks off at an argument and has taken those of the variables before.
`Variables` is the refinement mapping: while the loop runs, the variables and objects
count as they were when the call began (`HoldsSeen`, `ValSeen`). It holds as long as no
element is passed for two variables. The loop's order shows in nothing else than where a
failing call stops: values go to the elements that the variables had before the call.

`val` says where contents came from: the operation as it was read (`default`), a value
passed for all of an element (`given`) or for some of its members (`mixed`), or a
caller's own (`own`).

Observed, as the model has it: in-output variables take arguments that are never sent
(aas_misc.py:218 says why); a value for some members of a collection leaves what earlier
calls put into the others; values applied after an element was passed change that
caller's element; `id_short` of the caller's element stays changed.

### BatchReader

One program with its cursor file, run again and again. `StartAt` and `Resume` are the
two forms of its arguments; a start is given only when there is nothing to go on with,
since a user who gives one over a kept cursor asks for whatever comes. `Truncate` and
`WriteCursor` are the two halves of `write_text`. `Read` gets up to `N` records from the
cursor on, earliest first (any of those with the same time), and ends the program when
there are fewer; `Invoke` is the operation; `GoOn` moves the cursor a millisecond past
the last record. `Interrupt` is everything that ends the program before its time, at any
point, the operation's failure after it has run included. Records are added at any time
and with any time, earlier ones included; `seen` (history) has those that were there
when the batch around them was read.

Observed: records of the same millisecond as the last one of a batch are passed over, as
the docstring of `next_cursor` says; an empty file, left by a program that was killed
while it wrote, is taken for none, and the next run must be given a start.

### ElementCollection

Each client has one collection. `cache` is `__pathes_cache`; `Begin` is
`__setitem__`, `__delitem__` or `update_value`, `Look` everything that needs the list
(`in`, `len`, iteration), `Refresh` is `refresh()`. `pc` names the request that is under
way: `put` (a write through the manager: PUT of an element, PATCH of a value), `postUrl`
and `post`, `deleteUrl` and `delete`, `listUrl` and `list`. References are made for one
use, so their URL is asked for each time. `ReceivePut` is the `try ... except
ResourceNotFoundError` of `__setitem__`: only a 404 leads to the POST. `Return` drops
the list after an assignment or a deletion; a call that raises leaves it
(`Raise`). `Pathes` is what `pathes()` cuts out of the answer's text: of an empty list
it makes one path without characters, so that `len()` of an empty submodel is 1. Lists
that are not empty are cut exactly, as the code expects the server to write them: one
path to a line, indented.

`foreign` (history) says that paths came or went since the list was made other than by
a success of the collection's own client: by other clients, or by a call that raised
although the server did it. `CacheShowsOwn` says the list is exact otherwise.
`ElementStore` says abstractly what the three calls promise: one effect at most, in one
moment, before the return, and none after a refusal; only a call whose request broke
leaves its caller in the dark. `Store` is the refinement mapping (`did` the calls that
had their effect, `result` what the caller was told).

The manager and the server of the instance are external: a PUT or PATCH changes an
element that is there, a POST adds one that is not, a DELETE takes one away that is, and
any of them may be refused for other reasons without effect.

### FileAttachment

The element's value (`name`) names the attached file (`file`); both are known by the
number of the call that set them. `Start`, `ReceiveManager`, `OpenFile` and
`ReceiveServer` follow `put_attachment`, `put_attachment_with_bytes`,
`delete_attachment` and `get_attachment` from request to request: value first, then
upload; or read, delete the file, write the element back without value. `url` is the
service URL a reference keeps, and `Move` stops the instance or starts it at another
URL, so the second request of a method may meet nobody. The element and its file are
kept when the instance moves. With the file itself the server may or may not set or
clear the element's value: the properties hold both ways. A failed `put_attachment`
leaves an element that names a file that was never sent: the model shows this, and the
properties say only what the order of the two requests does guarantee.

`AttachmentStore` says that abstractly: a method has parts, each of them takes effect at
most once, in one moment and after the part ahead of it; a method returns when all of
them did, and one that raises leaves at most one behind that may still do so. `Store` is
the refinement mapping: `did` (history) has the parts that took effect, `Behind` those in
`late`.

### ElementValues and ValueTrip

`ElementValues` has one operator for each conversion of `mdtpy/value`, recursive as the
code is: `GetValue`, `MdtValue`, `ToElementValue`, `ToJsonNode` and `ParseJsonNode`,
`ToRawJsonNode` and `FromRawJsonNode`, `ToRawObject` and `FromRawObject`, `ApplyTo` and
`UpdateElement`. Where the code has a method in each class of value, the operator has a
case for each. A conversion that raises gives `Raised`; `ApplyTo` and `UpdateElement`
give the element as it is afterwards and whether all went well, as they change members
one after the other and may stop in between (`InTurn`).

A scalar is a Python class and what it says; texts are few. The types of XSD are one for
each way they are treated: `int` stands also for `long` and `short`, `float` for
`double`, `dateTime` for `duration` and `decimal` (written as a string, with a tag),
`date` for `time` (without a tag, so a Property of it cannot be written), and `integer`
is apart, as it is a plain `int` in BaSyx and has a tag but no `vtype` name. BaSyx and
Python are external: `from_xsd`, `xsd_repr`, the casts of the setters (`TrivialCast`,
which takes a bool for an int and an int for a bool but no int for a float), `int()`,
`float()`, `str()`.

`ValueTrip` puts them in the order the program does: an output of an operation (`Read`)
or of a script (`Wrap`) becomes a value, goes into an XCom (`Serialize`), comes out in
the next task (`Parse`) and is put into an input of its operation (`Apply`); or a Python
object is written to the element (`Update`). Every element meets every other, of its
own shape or not.

Observed, and left out of `UpdatedShows`: for texts in several languages `to_raw_object`
gives a list of dicts and `update_element_with_raw_value` wants one dict, so the one
cannot be given to the other. (The README of the package makes an `MLPropertyValue` from
a dict, too, line 70, which keeps its keys only; that constructor call is outside
the model.)

## Runs

| Run | Instance | Shows |
|---|---|---|
| `AsyncRpc` | 2 calls, 1 canceller, limit 2, interval 1, both error shapes, off-protocol answers; 0.4 million states | type invariant, `OutcomeAgrees`, `CancelIsFinal`, `TimedOutStaysCancellable`, `TimeoutMeansUnknown`, refinement `KeepsPromise`; every `call()` and `cancel()` ends |
| `AsyncRpcCancel` | 2 calls, 1 canceller | counterexample to the docstring of `cancel()` |
| `InstanceLifecycle` | 2 clients, 3 calls in all, refusals as text, for the status, or with a code alone; 1.3 million states | type invariant, `OutcomeIsTrue`, refinement `KeepsPromise`; every call ends |
| `StatusPoller` | intervals 3 and 4, limits none, 1, 7 and 12, polls of up to 10; 1 million states | type invariant, `NoBursts`, `EndsInTime` |
| `DagTask` | 2 tasks, 2 outputs, every operator kind in either task, 4 attempts, both contexts | type invariant, `SinksMatchOutputs`, `InputsAreLatest`, refinement `KeepsAttempts`; 1.1 million states |
| `AasOperation` | 2 input variables and 1 in-output variable, 2 of them described, 2 elements of callers, 2 calls; 0.6 million states | type invariant, `SentIsGiven`, `ServiceIsSelfContained`, refinement `KeepsVariables` |
| `AasOperationAlias` | the same, 1 element that goes with two variables, 1 call | counterexample to the docstring of `invoke()` |
| `ElementCollection` | 2 clients, 1 path, 3 calls in all, any looks and refreshes, symmetric; 1.5 million states | type invariant, `CacheShowsOwn`, `RefusalIsTrue`, refinement `KeepsStore` |
| `FileAttachment` | 2 clients, 2 URLs, 3 calls in all, symmetric; 2 million states | type invariant, `SoloTakesEffect`, refinement `KeepsStore` |
| `ValueTrip` | every kind and type, with and without values; collections of two and lists of two or none, nested once; 0.1 million states | type invariant, `ArrivesEqual`, `AppliedShows`, `UpdatedShows`, `BareTrip`, `ScriptOutputSurvives` |
| `ValueTripTypes` | the same | counterexample to the docstring of `parse_json_node` |
| `BatchReader` | batches of 2, 3 times with 2 records each, 3 interruptions; 0.2 million states | type invariant, `NothingPassedOver`, `RepeatsAreInterruptions`; every run of the program ends |

Why the bounds are enough. Two calls are what it takes for a stale session URL: the
second call meets the URL, the late POST and the late DELETE of the first; a third meets
nothing new, as the object remembers one URL. Limit 2 with interval 1 has a call expire
before, between and after polls. Three calls of two clients let one client's `start()` be crossed by a late
command of an earlier call and by a command of the other client. Four attempts at two
tasks give a failed attempt and a retry of the first task in one run, or a complete run
followed by another, or a task that succeeds, is read, and is overtaken by a late write.
One path is enough for
`ElementCollection`: the requests for different paths have nothing in common but the
list, which one call drops as a whole, and the two states of one path make it right
or wrong. Three calls are a call, its late remainder and two that it disturbs, or a
change by each of two clients with one in between. Three calls at two URLs are a `put_attachment` that
starts at one and ends at the other, with a late upload or deletion of an earlier call.
Two invocations are one that leaves something in the variables and one that meets it;
in `AasOperation` two input variables are one that is described and one that is not.
`StatusPoller` has polls shorter than an interval, longer, and longer than two, limits
less than a pause and in the middle of one; the clock stops at `MaxTime` only where
nothing has ended and nothing limits the wait. Six records are three full batches, so a
batch is done again before and after another; three interruptions end the program while
it writes, between operation and cursor, and once more when it does the batch again.
The conversions of a container are those of its members, so two members (one
to succeed and one to fail, in either order) and two levels show what any number does.
Runs that stop at their bound have `CHECK_DEADLOCK FALSE`; `DagTask` needs it not, since
another run of the DAG is always possible. A trip of `ValueTrip` ends
when it ends.

### Fairness

`AsyncRpc`: time passes; a thread that can take a step takes one; an exchange ends, by
its answer or by `request_timeout` (every request of the client is given one). The
operation server owes nothing: the operation may run for ever, polls may always fail.
With `timeout = None` calls need not end, so the runs give a limit.
`InstanceLifecycle`: a client goes on with its call (requests have `DEFAULT_TIMEOUT`),
and a start or stop of the instance ends, well or not. This last one is the platform's
and not the library's: the waits of `start()` and `stop()` have no time limit.

`BatchReader`: the program goes on while it runs; nobody needs to start it. Records come
finitely often by the bound, without which a program that never catches up need not end.

## Findings

1. `cancel()` during the start of a later `call()` deletes the earlier session and leaves
   the operation in progress alone (`AsyncRpcCancel`).
2. An element passed to `AASOperationService.invoke` for two variables renames the first
   variable, though the docstring says that variables keep their `id_short`
   (`AasOperationAlias`).
3. A Range of `xs:integer` is written with the `vtype` STRING and arrives as a Range of
   strings, though the docstring says that values describe their type themselves
   (`ValueTripTypes`).

Smaller disagreements that the modules show without a run are marked *Observed* above.
One more: `call()` looks at its deadline after the sleep and before the poll
(restful_async_rpc_client.py:102), so an operation that ended in time, during the last
sleep, is reported as timed out. `TimeoutMeansUnknown` says what does hold: no answer to
a poll had shown that it ended.

## Proofs

TLAPS proves the following for every value of the constants that satisfies the named
assumptions (`CallsAssumption`, `TimesAssumption`, `ServerAssumption`, `BodiesAssumption`; `PlansAssumption`,
`BoundAssumption`, `SizesAssumption`, `GivenForAssumption`, `DescribedAssumption`,
`TicksAssumption`, `BoundsAssumption`, `NamesAssumption`, `NoneAssumption`): they only say
that bounds are natural numbers, error bodies error bodies, an interval and the shortest sleep at least a tick, a
batch at least a record, that plans are plans and variables are variables, and that the value for "nothing" is none of the others. In
particular they hold for any number of calls, clients, tasks and attempts.

*AsyncRpc*: `TypeCorrect`, `OutcomesAgree`, `ConfirmedCancelIsFinal`,
`TimedOutCancellable`, `TimeoutsAreUnknown` and `ImplementsPromise` (the refinement).
The properties are not inductive by themselves. The invariant `IInv` adds what the code relies on tacitly: a
call that polls has its own session in the URL (`ReceiveStart` is the only step that
sets it, and only the thread in `call()` takes it); an answer that is under way to a
poll or to a DELETE agrees with the state its session had, and ended sessions stay as
they are; calls that were not made have no session, no outcome and nobody cancelling
them. From these, what a received answer says is true at the time it is received. For
`TimeoutsAreUnknown` it adds that a call whose end an answer has shown is still going to
receive that answer, or has left with it. `TimedOutCancellable` also bounds the first
finding: `cancel()` goes astray only when it reads the URL before the answer to the POST
of the call has been received.

*InstanceLifecycle*: `TypeCorrect`, `OutcomesAreTrue` and `ImplementsPromise` (the
refinement). The invariant adds that a call waits only for what its kind of call sends
(`CallFits`), and that while a call that reports a status is under way, the present status
and an answer that is under way are among those since its PUT, or since it began
(`SinceIsKept`); before the answer to a command nothing is in that history
(`NothingSeen`), so an InvalidResourceStateError of the PUT itself, whose body says so, is
told apart from one of a status that the call saw. Every way a call ends is then one that `InstancePromise` allows: the
status read is in `since`, and a command that was answered is not left behind.

*StatusPoller*: `TypeCorrect`, `PollsKeepPace`, `WaitsEndInTime`. The invariant adds that
the next wakeup is ahead of the last poll, by an interval and the shortest sleep at most,
and by more than an interval ahead of the poll before it (`Clock`), and how late a poll
or a sleep can be under way after the limit or the end of the work (`Limits`).

*AasOperation*: `TypeCorrect` without further assumption; `SendsWhatIsGiven`,
`ServicesAreSelfContained`, `OnlyGivenVariablesChange`, `NamesAreKept` (what the
docstring of `invoke()` says) and `ImplementsVariables` (the refinement) when no caller
passes one element for two variables (`OneVariableEach`, which the run `AasOperation` has and
`AasOperationAlias` shows to be needed). The invariant says that every variable then keeps
its name and that no two refer to the same object, that variables whose turn has come hold
what is expected and the others what they held when the call began, and that elements
passed for a later variable are untouched until then. The refinement adds to it that,
after any number of turns, the variables and every object are exactly what those turns
make of what was there before the call (`Applied`); `TurnTakes` shows it of one turn.
`PromiseIsEnough` says why the abstract specification is worth keeping: whoever implements
`OperationVariables` leaves the variables alone that nothing is passed for
(`LeavesOthersAlone`), a call that breaks off included. `OnlyGivenVariablesChange`
(`OnlyGivenChange`) says the same in terms of the loop, step by step; no run keeps it
besides `KeepsVariables`, and TLC found no counterexample with the bounds of the run.

*DagTask*: `TypeCorrect`, `NothingHalfWritten`, `SinksAreOutputs`, `InputsAreTheLatest`,
`NothingGoesBack`, `ImplementsAttempts` (the refinement).
The invariant says where a task is by its state (`Placed`), that nothing is written and
no result is there before the conversions (`NothingWritten`), that only operators whose
results do not come as JSON have results without a JSON form (`RestfulFit`), that what was written and not given up is in
its element (`Written`), that late writes are to elements counted as given up
(`LateIsGivenUp`), what a success left (`Left`), that a task's outputs are its own
(`OwnOutputs`), that inputs were read from named tasks (`ReadsAreNamed`), and that
attempts are numbered in the order of their start (`InOrder`). `NothingGoesBack` is an
action property, `NeverGoesBack`: no step takes a sink or an output back to an earlier
attempt's value. It adds that an attempt that runs is newer than what its sinks and
outputs show (`Newest`), and rests on a lemma about what one attempt can change (`Own`).
No run keeps it; TLC found no counterexample with the bounds of the run `DagTask`.
The refinement needs one more invariant: what a task that
writes has written and has yet to write are results with a sink, and it has nothing to
write before it has results (`Decided`). `PromiseIsEnough` says what can be read off `TaskAttempts` alone
(`AttemptsAreWhole`): a task that refused has written nothing, one that is stuck
has a result it cannot pass on and wrote none of these, and all that a success
wrote is among its outputs. `NothingHalfWritten` (`NoHalfWritten`) says the first two in
terms of `run()` and its errors; TLC checks it as part of `KeepsAttempts`.

*ElementCollection*: `TypeCorrect`, `ListsShowOwnCalls`, `RefusalsAreTrue` and
`ImplementsStore` (the refinement). The invariant says that a client that is calling is in
a call of its own that nobody else makes (`Own`); that a call had its effect exactly when
its client has been answered so, or will be, and that a request left behind is of a call
that told its caller nothing and has had no effect (`Effects`); that what a client was
answered was true of its path at some time of the call, and that the path as it is now is
among what it was (`Answers`); and that a list that is kept or on its way is right unless
somebody else changed the paths (`Lists`). Each step is then also one of `ElementStore`
or none: `Promised` carries this and what `RefusalIsTrue` says of a step through the same
case analysis.

*FileAttachment*: `TypeCorrect`, `ReturnedIsDone`, `ImplementsStore` (the refinement) and
`NamesComeFirst`, a consequence of it that needs no abstract specification to be read: a
file that was sent had been named before. The invariant adds whose call is under way
(`Own`), that nobody else writes while a call counts as alone (`Alone`), what such a call
has done at each of its requests (`Stages`), which parts of a call that is under way took
effect, by the request it waits for and its answer (`Progress`), and that a request left
behind is the one its call came to, has had no effect yet, and is the only one of that
call (`Owed`).

*BatchReader*: `TypeCorrect`, `PassesNothingOver`, `RepeatsOnlyInterruptions`, for batches
of any size. The invariant adds that the cursor file is never ahead of the program
(`Files`), that what was seen is in the batch under way or before it (`Batches`), and that
on records still ahead the operation has run for interruptions only (`Ahead`). The proofs
rest on two lemmas about batches: a full one is not empty and starts at the cursor or
later (`FullBatch`), and its last time exists (`LastTimeIsLast`).

The proofs go action by action, with a lemma for the steps that leave a part of the
invariant alone. Only model-checked, not proved: the liveness properties (`CallEnds`,
`CancelEnds`, `ReaderEnds`: fairness and ENABLED are beyond these provers) and the
counterexamples.
`ElementValues` is recursive over the structure of values, which the provers cannot
handle: `ValueTrip` stays with TLC. The type-like facts about messages (`RpcMessage`) are finite and are
proved by expansion where they are needed.

## Not modelled, and the plan

Next, in this order:

1. Pure operators against reference definitions: durations and fractions of seconds
   (`utils.py`).
2. The global manager that `connect()` rebinds under references that keep one.

Seen while reading, outside the models: `TimeSeries.timeseries()` fails with
AttributeError for an external segment (timeseries.py:242).

Left out for good: the data models (`aas_misc.py`, `basyx/*`), tables of time series,
logging, TLS, the other samples. They are pure data or pure I/O. `parameter.py` reads and
writes one reference at a time and keeps nothing.
