------------------------------ MODULE DagTask ------------------------------
(***************************************************************************)
(* The tasks of a DAG (mdtpy/airflow): each runs an Operator, whose run()  *)
(* reads its inputs, has an operation carried out, writes results to the   *)
(* elements named as sinks and leaves its outputs for the tasks after it,  *)
(* in a LocalDagContext or an AirflowDagContext.  Requests fail, workers   *)
(* are killed, tasks are tried again and the DAG is run again.             *)
(*                                                                         *)
(* A value is known by the attempt that made it.  Every sink of a task is  *)
(* an element of its own, named by the task and the output.                *)
(***************************************************************************)
EXTENDS Naturals

CONSTANTS
    Tasks,        \* the tasks of the DAG
    Args,         \* the names of outputs
    Plans,        \* the DAGs considered: an operator with its arguments for each task
    MaxAttempts   \* bound: the attempts at all tasks in all runs of the DAG

\* The operators.  Those of RESTful services get their results as JSON.
Restful == {"RestfulRpc", "RestfulAsyncRpc"}
Kind == Restful \cup {"PythonScript", "SetElement", "AASOperation", "OperationSubmodel"}

\* An operator with its constructor's arguments: reads has the task outputs that are
\* inputs, given the names of inputs; sinks the outputs with a place to be written to,
\* unsaved those declared as None; defaults the output arguments that the registration
\* of an operation submodel has a reference for.
Plan == [kind : Kind, reads : SUBSET (Tasks \X Args), given : SUBSET Args,
         sinks : SUBSET Args, unsaved : SUBSET Args, defaults : SUBSET Args]

ASSUME PlansAssumption == Plans \subseteq [Tasks -> Plan]
ASSUME BoundAssumption == MaxAttempts \in Nat

\* What an attempt at a task produces, and what was there before.
Value == [task : Tasks, attempt : 1 .. MaxAttempts]
Nothing == [task |-> "none", attempt |-> 0]

VARIABLES
    plan,      \* the DAG
    context,   \* "local" or "airflow"
    attempts,  \* number of attempts so far
    \* the tasks
    state,     \* as the scheduler, or the caller of run(), sees it
    attempt,   \* number of the last attempt at the task in this run
    pc,        \* where run() is
    reads,     \* the values it got from the outputs of other tasks
    results,   \* names of the results it has got
    unfit,     \* history: those whose value has no JSON form, such as a date
    todo,      \* those that are still to be written
    wrote,     \* history: what this attempt wrote or may have written
    \* the world
    published, \* __TASK_OUTPUT, or the XComs of this run
    element,   \* the element behind each sink
    late,      \* writes given up by their sender that may yet be carried out
    gaveUp     \* history: the elements of such writes

taskVars == <<state, attempt, pc, reads, results, unfit, todo, wrote>>
vars == <<plan, context, attempts, taskVars, published, element, late, gaveUp>>

\* Why run() ended: an output or a result is missing, a value cannot be converted or is
\* none of the kind that is wanted, the operation failed, a request failed or was
\* refused (whichever class that has, see HttpAnswers), or the worker was killed.
Errors == {"KeyError", "ValueError", "OperationError", "RequestError", "killed"}

TypeOK ==
    /\ plan \in Plans
    /\ context \in {"local", "airflow"}
    /\ attempts \in 0 .. MaxAttempts
    /\ state \in [Tasks -> {"none", "running", "success"} \cup Errors]
    /\ attempt \in [Tasks -> 0 .. MaxAttempts]
    /\ pc \in [Tasks -> {"idle", "resolve", "invoke", "write"}]
    /\ reads \in [Tasks -> SUBSET Value]
    /\ results \in [Tasks -> SUBSET Args]
    /\ unfit \in [Tasks -> SUBSET Args]
    /\ todo \in [Tasks -> SUBSET Args]
    /\ wrote \in [Tasks -> SUBSET Args]
    /\ published \in [Tasks -> [Args -> Value \cup {Nothing}]]
    /\ element \in [Tasks \X Args -> Value \cup {Nothing}]
    /\ late \subseteq (Tasks \X Args) \X Value
    /\ gaveUp \subseteq Tasks \X Args

NoOutputs == [a \in Args |-> Nothing]

Init ==
    /\ plan \in Plans
    /\ context \in {"local", "airflow"}
    /\ attempts = 0
    /\ state = [t \in Tasks |-> "none"]
    /\ attempt = [t \in Tasks |-> 0]
    /\ pc = [t \in Tasks |-> "idle"]
    /\ reads = [t \in Tasks |-> {}]
    /\ results = [t \in Tasks |-> {}]
    /\ unfit = [t \in Tasks |-> {}]
    /\ todo = [t \in Tasks |-> {}]
    /\ wrote = [t \in Tasks |-> {}]
    /\ published = [t \in Tasks |-> NoOutputs]
    /\ element = [s \in Tasks \X Args |-> Nothing]
    /\ late = {}
    /\ gaveUp = {}

\* The value that the current attempt at t produces.
Made(t) == [task |-> t, attempt |-> attempt[t]]

-----------------------------------------------------------------------------
(* The operators.                                                          *)

\* run() raises e, or its worker is killed.
Fail(t, e) ==
    /\ state' = [state EXCEPT ![t] = e]
    /\ pc' = [pc EXCEPT ![t] = "idle"]
    /\ results' = [results EXCEPT ![t] = {}]
    /\ todo' = [todo EXCEPT ![t] = {}]
    /\ UNCHANGED <<plan, context, attempts, attempt, reads, unfit, wrote>>

\* The results that are written.  OperationSubmodelService.invoke also writes to the
\* registered references, but not those whose name was given as an input value.
ToWrite(p, names) ==
    IF p.kind = "OperationSubmodel"
    THEN names \cap (p.sinks \cup (p.defaults \ p.given))
    ELSE names \cap p.sinks

\* The results that are left for other tasks.
ToPublish(p, names) ==
    IF p.kind = "RestfulRpc" THEN p.sinks \cup p.unsaved ELSE names

Outputs(t) ==
    [a \in Args |-> IF a \in ToPublish(plan[t], results[t]) THEN Made(t) ELSE Nothing]

\* As if get_task_output returned None for an output that is missing.
MutantResolve(t) ==
    /\ pc[t] = "resolve"
    /\ \/ /\ reads' = [reads EXCEPT ![t] = {published[i[1]][i[2]] : i \in plan[t].reads}]
          /\ pc' = [pc EXCEPT ![t] = "invoke"]
          /\ UNCHANGED <<plan, context, attempts, state, attempt, results, unfit, todo,
                         wrote>>
       \/ Fail(t, "RequestError")
    /\ UNCHANGED <<published, element, late, gaveUp>>

\* The inputs are got, each from a task output or from elsewhere, and converted to what
\* is asked for; the operators of AAS operations look their submodel and its operation
\* up and check what they are.
Resolve(t) ==
    /\ pc[t] = "resolve"
    /\ \/ /\ \A i \in plan[t].reads : published[i[1]][i[2]] # Nothing
          /\ reads' = [reads EXCEPT ![t] = {published[i[1]][i[2]] : i \in plan[t].reads}]
          /\ pc' = [pc EXCEPT ![t] = "invoke"]
          /\ UNCHANGED <<plan, context, attempts, state, attempt, results, unfit, todo,
                         wrote>>
       \/ /\ \E i \in plan[t].reads : published[i[1]][i[2]] = Nothing
          /\ Fail(t, "KeyError")
       \/ Fail(t, "RequestError")
       \/ Fail(t, "ValueError")
    /\ UNCHANGED <<published, element, late, gaveUp>>

\* The operation, the script or the reading of the source comes back with results.
\* Whether each is made an ElementValue, or one of them cannot be, is up to them; and so
\* is whether these values have a JSON form, which those read from JSON always have.
GetResults(t) ==
    /\ pc[t] = "invoke"
    /\ \E names \in IF plan[t].kind = "SetElement" THEN {Args \cap {"target"}} ELSE SUBSET Args :
         IF plan[t].kind = "RestfulRpc" /\ ~(plan[t].sinks \cup plan[t].unsaved \subseteq names)
         THEN Fail(t, "KeyError")
         ELSE \/ Fail(t, "ValueError")
              \/ /\ results' = [results EXCEPT ![t] = names]
                 /\ \E some \in SUBSET names :
                      /\ plan[t].kind \in Restful => some = {}
                      /\ unfit' = [unfit EXCEPT ![t] = some]
                 /\ todo' = [todo EXCEPT ![t] = ToWrite(plan[t], names)]
                 /\ pc' = [pc EXCEPT ![t] = "write"]
                 /\ UNCHANGED <<plan, context, attempts, state, attempt, reads, wrote>>
    /\ UNCHANGED <<published, element, late, gaveUp>>

OperationFails(t) ==
    /\ pc[t] = "invoke"
    /\ \E e \in {"OperationError", "RequestError"} : Fail(t, e)
    /\ UNCHANGED <<published, element, late, gaveUp>>

\* As if each result were made an ElementValue when it is its turn to be written.
MutantWrite(t) ==
    /\ pc[t] = "write"
    /\ todo[t] # {}
    /\ \/ /\ \E a \in todo[t] :
               /\ element' = [element EXCEPT ![<<t, a>>] = Made(t)]
               /\ todo' = [todo EXCEPT ![t] = @ \ {a}]
               /\ wrote' = [wrote EXCEPT ![t] = @ \cup {a}]
          /\ UNCHANGED <<plan, context, attempts, state, attempt, pc, reads, results, unfit>>
       \/ Fail(t, "ValueError") /\ UNCHANGED element
    /\ UNCHANGED <<published, late, gaveUp>>

\* The results are written one after the other.
Write(t) ==
    /\ pc[t] = "write"
    /\ \E a \in todo[t] \ unfit[t] :
         /\ element' = [element EXCEPT ![<<t, a>>] = Made(t)]
         /\ todo' = [todo EXCEPT ![t] = @ \ {a}]
         /\ wrote' = [wrote EXCEPT ![t] = @ \cup {a}]
    /\ UNCHANGED <<plan, context, attempts, state, attempt, pc, reads, results, unfit, published,
                   late, gaveUp>>

\* It is the turn of a value that has no JSON form: update_value raises ValueError before
\* it sends anything, with others written before it.
CannotWrite(t) ==
    /\ pc[t] = "write"
    /\ todo[t] \cap unfit[t] # {}
    /\ Fail(t, "ValueError")
    /\ UNCHANGED <<published, element, late, gaveUp>>

\* run() ends during a write, because that request fails or is refused or because the
\* worker is killed; the write was carried out, or never will be, or will be later.
BreakOffWrite(t, e) ==
    \E a \in todo[t] \ unfit[t] :
      /\ state' = [state EXCEPT ![t] = e]
      /\ pc' = [pc EXCEPT ![t] = "idle"]
      /\ results' = [results EXCEPT ![t] = {}]
      /\ todo' = [todo EXCEPT ![t] = {}]
      /\ wrote' = [wrote EXCEPT ![t] = @ \cup {a}]
      /\ \/ element' = [element EXCEPT ![<<t, a>>] = Made(t)] /\ UNCHANGED <<late, gaveUp>>
         \/ UNCHANGED <<element, late, gaveUp>>
         \/ /\ late' = late \cup {<<<<t, a>>, Made(t)>>}
            /\ gaveUp' = gaveUp \cup {<<t, a>>}
            /\ UNCHANGED element
      /\ UNCHANGED <<plan, context, attempts, attempt, reads, unfit, published>>

WriteFails(t) == pc[t] = "write" /\ BreakOffWrite(t, "RequestError")

\* As if the outputs were left for the other tasks before the results are written.
MutantPublishFirst(t) ==
    /\ pc[t] = "write"
    /\ published' = [published EXCEPT ![t] = Outputs(t)]
    /\ state' = [state EXCEPT ![t] = "success"]
    /\ pc' = [pc EXCEPT ![t] = "idle"]
    /\ UNCHANGED <<plan, context, attempts, attempt, reads, results, unfit, todo, wrote, element,
                   late, gaveUp>>

\* As if the outputs were added to those the task left before.
MutantPublishMore(t) ==
    /\ pc[t] = "write"
    /\ todo[t] = {}
    /\ published' = [published EXCEPT ![t] =
                       [a \in Args |-> IF a \in ToPublish(plan[t], results[t])
                                       THEN Made(t) ELSE published[t][a]]]
    /\ state' = [state EXCEPT ![t] = "success"]
    /\ pc' = [pc EXCEPT ![t] = "idle"]
    /\ UNCHANGED <<plan, context, attempts, attempt, reads, results, unfit, todo, wrote, element,
                   late, gaveUp>>

\* The outputs can be stored: an XCom holds the JSON forms of all of them.
Storable(t) == context = "airflow" => ToPublish(plan[t], results[t]) \cap unfit[t] = {}

\* set_task_outputs, the last thing run() does, replaces the outputs of the task.
Publish(t) ==
    /\ pc[t] = "write"
    /\ todo[t] = {}
    /\ Storable(t)
    /\ published' = [published EXCEPT ![t] = Outputs(t)]
    /\ state' = [state EXCEPT ![t] = "success"]
    /\ pc' = [pc EXCEPT ![t] = "idle"]
    /\ UNCHANGED <<plan, context, attempts, attempt, reads, results, unfit, todo, wrote, element,
                   late, gaveUp>>

\* All sinks are written, and an output without a JSON form keeps the outputs from being
\* stored.
CannotPublish(t) ==
    /\ pc[t] = "write"
    /\ todo[t] = {}
    /\ ~Storable(t)
    /\ Fail(t, "ValueError")
    /\ UNCHANGED <<published, element, late, gaveUp>>

\* The XCom is not stored, or is stored without an answer.
PublishFails(t, e) ==
    /\ context = "airflow"
    /\ pc[t] = "write"
    /\ todo[t] = {}
    /\ Storable(t)
    /\ Fail(t, e)
    /\ published' \in {published, [published EXCEPT ![t] = Outputs(t)]}
    /\ UNCHANGED <<element, late, gaveUp>>

Operator(t) == \/ Resolve(t) \/ GetResults(t) \/ OperationFails(t)
               \/ Write(t) \/ CannotWrite(t) \/ WriteFails(t)
               \/ Publish(t) \/ CannotPublish(t) \/ PublishFails(t, "RequestError")

-----------------------------------------------------------------------------
(* Airflow, or the program that calls run(), and the servers.              *)

Before(t) == {i[1] : i \in plan[t].reads}

\* Airflow starts a task when those before it have succeeded, and clears its XComs.
\* A local program calls run() of one task after the other, and goes on as it likes
\* when a call raises an exception.
Start(t) ==
    /\ state[t] \in {"none"} \cup Errors
    /\ attempts < MaxAttempts
    /\ \A u \in Before(t) : state[u] \in {"success"} \cup IF context = "local" THEN Errors ELSE {}
    /\ context = "local" => \A u \in Tasks : pc[u] = "idle"
    /\ attempts' = attempts + 1
    /\ attempt' = [attempt EXCEPT ![t] = attempts + 1]
    /\ state' = [state EXCEPT ![t] = "running"]
    /\ pc' = [pc EXCEPT ![t] = "resolve"]
    /\ reads' = [reads EXCEPT ![t] = {}]
    /\ results' = [results EXCEPT ![t] = {}]
    /\ unfit' = [unfit EXCEPT ![t] = {}]
    /\ todo' = [todo EXCEPT ![t] = {}]
    /\ wrote' = [wrote EXCEPT ![t] = {}]
    /\ published' = IF context = "airflow" THEN [published EXCEPT ![t] = NoOutputs]
                                           ELSE published
    /\ UNCHANGED <<plan, context, element, late, gaveUp>>

Kill(t) ==
    /\ context = "airflow"
    /\ \/ /\ pc[t] # "idle"
          /\ Fail(t, "killed")
          /\ UNCHANGED <<published, element, late, gaveUp>>
       \/ pc[t] = "write" /\ BreakOffWrite(t, "killed")
       \/ PublishFails(t, "killed")

\* Another run of the DAG: its own XComs in Airflow, the same dictionary locally.
NewRun ==
    /\ \A t \in Tasks : pc[t] = "idle"
    /\ state' = [t \in Tasks |-> "none"]
    /\ attempt' = [t \in Tasks |-> 0]
    /\ reads' = [t \in Tasks |-> {}]
    /\ results' = [t \in Tasks |-> {}]
    /\ unfit' = [t \in Tasks |-> {}]
    /\ todo' = [t \in Tasks |-> {}]
    /\ wrote' = [t \in Tasks |-> {}]
    /\ published' = IF context = "airflow" THEN [t \in Tasks |-> NoOutputs] ELSE published
    /\ UNCHANGED <<plan, context, attempts, pc, element, late, gaveUp>>

ServeLate ==
    \E w \in late :
        /\ late' = late \ {w}
        /\ element' = [element EXCEPT ![w[1]] = w[2]]
        /\ UNCHANGED <<plan, context, attempts, taskVars, published, gaveUp>>

-----------------------------------------------------------------------------
Next == \/ \E t \in Tasks : Operator(t) \/ Start(t) \/ Kill(t)
        \/ NewRun
        \/ ServeLate

Spec == Init /\ [][Next]_vars
-----------------------------------------------------------------------------
(* Properties.                                                             *)

\* How far the last attempt at a task has come, whatever its operator and its errors.
Stage(t) ==
    IF pc[t] = "idle"
    THEN CASE state[t] \in {"none", "success"} -> state[t]
           [] state[t] = "KeyError" -> "refused"
           [] state[t] = "ValueError" -> IF unfit[t] = {} THEN "refused" ELSE "stuck"
           [] OTHER -> "broken"
    ELSE CASE pc[t] = "resolve" -> "begun"
           [] pc[t] = "invoke" -> "ready"
           [] OTHER -> "writing"

Stages == [t \in Tasks |-> Stage(t)]

Attempts == INSTANCE TaskAttempts WITH stage <- Stages

\* Every operator in every context decides what it writes when it has all its inputs, writes
\* that and nothing else before its outputs, refuses only before the first write, gets stuck
\* in the middle only over a result without a JSON form, and owes at most one write when it
\* breaks.
KeepsAttempts == Attempts!Spec

\* An attempt that fails because an output or a result is missing has written nothing,
\* and no more has one that fails over a conversion, unless what it could not convert is
\* one of its own results into JSON: the operators make every result an ElementValue
\* before the first is written, but not every ElementValue has a JSON form.  Such a
\* value never gets into a sink.
NoHalfWritten ==
    \A t \in Tasks :
        /\ state[t] = "KeyError" => wrote[t] = {}
        /\ state[t] = "ValueError" => \/ wrote[t] = {}
                                      \/ unfit[t] # {} /\ plan[t].kind \notin Restful
        /\ wrote[t] \cap unfit[t] = {}

\* When a task has succeeded, its sinks hold the values of the attempt that succeeded,
\* the ones its outputs show, and no mixture of several attempts; unless a write was
\* given up earlier and could be carried out at any time.
SinksMatchOutputs ==
    \A t \in Tasks, a \in Args :
        state[t] = "success" /\ a \in ToWrite(plan[t], results[t]) /\ <<t, a>> \notin gaveUp
        => /\ element[<<t, a>>] = Made(t)
           /\ a \in ToPublish(plan[t], results[t])
           /\ published[t][a] = Made(t)

\* What a task got from the outputs of a task that had succeeded before it was started
\* is what that success left, not an output of an earlier attempt or an earlier run.
InputsAreLatest ==
    \A t \in Tasks : \A v \in reads[t] :
        state[v.task] = "success" /\ attempt[v.task] < attempt[t] => v = Made(v.task)

\* No step takes a sink or an output back to the value of an earlier attempt, in any
\* number of attempts and runs: an output is replaced by a later one or taken away, and
\* only a write that had been given up can bring an old value back to a sink.
NeverGoesBack ==
    [][\A t \in Tasks, a \in Args :
           /\ <<t, a>> \notin gaveUp
                => element'[<<t, a>>].attempt >= element[<<t, a>>].attempt
           /\ published'[t][a] # Nothing
                => published'[t][a].attempt >= published[t][a].attempt]_vars
=============================================================================
