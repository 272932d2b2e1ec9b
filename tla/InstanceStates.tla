---------------------------- MODULE InstanceStates ----------------------------
(***************************************************************************)
(* The states of an instance (MDTInstanceStatus), the calls that a handle  *)
(* and the collection of instances offer (mdtpy/instance.py), and what the *)
(* instance manager makes of the commands among them.                      *)
(***************************************************************************)
EXTENDS HttpAnswers

\* MDTInstanceStatus.
Status == {"STOPPED", "STARTING", "RUNNING", "STOPPING", "FAILED"}

\* start() and stop() and the states they lead through and to.
Transition == {"start", "stop"}
Transient(op) == IF op = "start" THEN "STARTING" ELSE "STOPPING"
Goal(op) == IF op = "start" THEN "RUNNING" ELSE "STOPPED"
Way(op) == {Transient(op), Goal(op)}

\* The attributes of a handle that read from the manager.  submodel_descriptors, and
\* operations, submodel_services and timeseries by way of it, look at the cached status
\* first; parameters, and parameter_descriptors and operation_descriptors, do not.
Guarded == {"submodel_descriptors"}
Attribute == Guarded \cup {"parameters"}

\* The calls that read the descriptor; "read" is instances[id] or reload_descriptor().
Reporting == Transition \cup {"read"}

\* Requests that change the manager's state.
Commands == Transition \cup {"add", "remove"}

Op == Reporting \cup Attribute \cup Commands

\* How a call ends.
Outcome == {"returned", "RequestException"} \cup Refusal

\* The status the instance gets when command o has its effect, and whether it has one
\* when the instance has status s.
Effect(o) ==
    CASE o = "start" -> "STARTING"
      [] o = "stop" -> "STOPPING"
      [] o = "add" -> "STOPPED"
      [] o = "remove" -> "absent"

Effective(o, s) ==
    CASE o = "start" -> s \in {"STOPPED", "FAILED"}
      [] o = "stop" -> s \in {"STARTING", "RUNNING"}
      [] o = "add" -> s = "absent"
      [] o = "remove" -> s # "absent"
===============================================================================
