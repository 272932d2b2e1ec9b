----------------------------- MODULE RpcPromise -----------------------------
(***************************************************************************)
(* What an asynchronous remote operation promises its caller, whatever the *)
(* network, the threads and the clock do: the operation of a call reaches  *)
(* at most one final state; a call is answered once, after the calls       *)
(* before it; and it is answered with the final state its own operation    *)
(* has reached, or the caller is told that the call was given up.          *)
(***************************************************************************)
EXTENDS Naturals

CONSTANT MaxCalls

VARIABLES op,      \* op[n]: what the server has made of the n-th call
          answer   \* answer[n]: what the n-th call told its caller

vars == <<op, answer>>

Calls == 1 .. MaxCalls

Final == {"COMPLETED", "FAILED", "CANCELLED"}

Init == /\ op = [n \in Calls |-> "none"]
        /\ answer = [n \in Calls |-> "none"]

\* The server starts the operation; it may end at once.
Start(n) == /\ op[n] = "none"
            /\ \E v \in Final \cup {"RUNNING"} : op' = [op EXCEPT ![n] = v]
            /\ UNCHANGED answer

End(n) == /\ op[n] = "RUNNING"
          /\ \E v \in Final : op' = [op EXCEPT ![n] = v]
          /\ UNCHANGED answer

Answer(n, v) == /\ answer[n] = "none"
                /\ \A m \in Calls : m < n => answer[m] # "none"
                /\ v \in Final => v = op[n]
                /\ answer' = [answer EXCEPT ![n] = v]
                /\ UNCHANGED op

Next == \E n \in Calls : \/ Start(n)
                         \/ End(n)
                         \/ \E v \in Final \cup {"givenUp"} : Answer(n, v)

Spec == Init /\ [][Next]_vars
=============================================================================
