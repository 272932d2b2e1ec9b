----------------------------- MODULE MCDagTask -----------------------------
(***************************************************************************)
(* DagTask for TLC: a task `make' with two outputs and a task `use' that   *)
(* reads one of them, with every operator in both places.                  *)
(***************************************************************************)
EXTENDS DagTask

MCTasks == {"make", "use"}
MCArgs == {"target", "extra"}

\* `make' by operator k: both outputs have a sink where the operator allows two.
Make(k) == [kind |-> k, reads |-> {}, given |-> {},
            sinks |-> IF k = "SetElement" THEN {"target"} ELSE MCArgs,
            unsaved |-> {}, defaults |-> MCArgs]

\* `use' by operator k: a sink for one output; the other one is declared without a
\* sink, registered by default, or not wanted.
Use(k) == [kind |-> k, reads |-> {<<"make", "target">>}, given |-> {"target"},
           sinks |-> {"target"},
           unsaved |-> IF k \in {"RestfulRpc", "PythonScript"} THEN {"extra"} ELSE {},
           defaults |-> {"extra"}]

MCPlans == {[t \in MCTasks |-> IF t = "make" THEN Make(k) ELSE Use(k)] : k \in Kind}
=============================================================================
