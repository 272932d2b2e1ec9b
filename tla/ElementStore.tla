----------------------------- MODULE ElementStore -----------------------------
(***************************************************************************)
(* What assigning, deleting and updating elements of a submodel promises,  *)
(* whatever other clients and the network do: a call has its effect at     *)
(* most once and all of it in one moment; a call that returns had its      *)
(* effect before; a call that is refused never has it.  Only a call whose  *)
(* request broke leaves its caller in the dark.                            *)
(***************************************************************************)
EXTENDS Naturals

CONSTANTS Paths, MaxCalls, None

VARIABLES store,   \* store[p]: the call that wrote element p, None if there is no such element
          task,    \* task[k]: what the k-th call is to do, None before it is made
          did,     \* the calls that had their effect
          result   \* result[k]: what the k-th call told its caller

vars == <<store, task, did, result>>

Calls == 1 .. MaxCalls
Task == [op : {"set", "del", "update"}, path : Paths]

Init == /\ store \in [Paths -> {0, None}]
        /\ task = [k \in Calls |-> None]
        /\ did = {}
        /\ result = [k \in Calls |-> "none"]

Begin(k) == /\ result[k] = "none"
            /\ \E t \in Task : task' = [task EXCEPT ![k] = t]
            /\ result' = [result EXCEPT ![k] = "open"]
            /\ UNCHANGED <<store, did>>

\* An element is assigned whether or not it was there; only one that is there is deleted
\* or updated.
Apply(k) == /\ result[k] \in {"open", "unknown"}
            /\ k \notin did
            /\ did' = did \cup {k}
            /\ task[k].op # "set" => store[task[k].path] # None
            /\ store' = [store EXCEPT ![task[k].path] =
                            IF task[k].op = "del" THEN None ELSE k]
            /\ UNCHANGED <<task, result>>

End(k, r) == /\ result[k] = "open"
             /\ r = "done" => k \in did
             /\ r = "refused" => k \notin did
             /\ result' = [result EXCEPT ![k] = r]
             /\ UNCHANGED <<store, task, did>>

Next == \E k \in Calls : \/ Begin(k)
                         \/ Apply(k)
                         \/ \E r \in {"done", "refused", "unknown"} : End(k, r)

Spec == Init /\ [][Next]_vars
===============================================================================
