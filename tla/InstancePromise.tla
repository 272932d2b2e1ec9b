--------------------------- MODULE InstancePromise ---------------------------
(***************************************************************************)
(* What the calls on an instance promise, whatever other clients, the      *)
(* network and the instance do.  A command is carried out at most once:    *)
(* before its call returns, or never once the call was refused, or perhaps *)
(* later when its request broke.  The status that a call leaves in its     *)
(* handle, and the exception it raises, are true of a time since its       *)
(* command was accepted, or, for a mere read, since it began.              *)
(***************************************************************************)
EXTENDS Naturals, InstanceStates

CONSTANT Clients

VARIABLES status,   \* of the instance, "absent" when it is not registered
          behind,   \* how many commands of each kind may still be carried out, though
                    \* their calls are over
          op,       \* the last call of each client
          nowait,   \* whether that call need not wait
          stage,    \* of that call: its command "sent", or refused with a class of Refusal;
                    \* else "open", and "none" when it is over
          since,    \* the statuses that it may report
          desc,     \* the status in the client's handle
          outcome   \* what its last call told it

vars == <<status, behind, op, nowait, stage, since, desc, outcome>>

Init == /\ status \in {"STOPPED", "absent"}
        /\ behind = [o \in Commands |-> 0]
        /\ op = [c \in Clients |-> "read"]
        /\ nowait = [c \in Clients |-> FALSE]
        /\ stage = [c \in Clients |-> "none"]
        /\ since = [c \in Clients |-> {}]
        /\ desc = [c \in Clients |-> "STOPPED"]
        /\ outcome = [c \in Clients |-> "none"]

-----------------------------------------------------------------------------
(* The calls.                                                              *)

Ask(c, o, nw) == /\ stage[c] = "none"
                 /\ op' = [op EXCEPT ![c] = o]
                 /\ nowait' = [nowait EXCEPT ![c] = nw]
                 /\ since' = [since EXCEPT ![c] = IF o = "read" THEN {status} ELSE {}]
                 /\ UNCHANGED <<status, behind, desc>>

Begin(c, o, nw) ==
    /\ Ask(c, o, nw)
    /\ stage' = [stage EXCEPT ![c] = IF o \in Commands THEN "sent" ELSE "open"]
    /\ outcome' = [outcome EXCEPT ![c] = "none"]

\* A guarded attribute of a handle that does not show a running instance.
Shut(c, a) == /\ Ask(c, a, FALSE)
              /\ desc[c] # "RUNNING"
              /\ outcome' = [outcome EXCEPT ![c] = "InvalidResourceStateError"]
              /\ UNCHANGED stage

End(c, o, s) == /\ stage' = [stage EXCEPT ![c] = "none"]
                /\ outcome' = [outcome EXCEPT ![c] = o]
                /\ desc' = [desc EXCEPT ![c] = s]
                /\ UNCHANGED <<status, op, nowait, since>>

\* Whether a call that returns may leave s in the handle.
Shows(c, s) ==
    CASE op[c] \in Transition -> /\ s \in since[c] \cap Way(op[c])
                                 /\ ~nowait[c] => s = Goal(op[c])
      [] op[c] = "read" -> s \in since[c] \ {"absent"}
      [] op[c] = "add" -> s = "STOPPED"
      [] OTHER -> s = desc[c]

Return(c) == /\ stage[c] = "open"
             /\ \E s \in Status : Shows(c, s) /\ End(c, "returned", s)
             /\ UNCHANGED behind

\* A start() that finds the instance off its way, or a stop().
RaiseState(c) ==
    /\ stage[c] = "open" /\ op[c] \in Transition
    /\ \E s \in (since[c] \cap Status) \ Way(op[c]) : End(c, "InvalidResourceStateError", s)
    /\ UNCHANGED behind

\* A refused command raises what the refusal says, whatever the handle shows; so does an
\* attribute that cannot be had.  An instance that was gone has no status to raise for.
RaiseRefusal(c) ==
    /\ \E e \in Refusal :
         /\ \/ stage[c] = e
            \/ /\ stage[c] = "open" /\ op[c] \in Reporting /\ "absent" \in since[c]
               /\ e # "InvalidResourceStateError"
            \/ stage[c] = "open" /\ op[c] \in Attribute
         /\ End(c, e, desc[c])
    /\ UNCHANGED behind

\* Only the call whose command has no answer yet leaves something behind.  It tells
\* nothing, and its history ends.
Break(c) ==
    /\ stage[c] # "none"
    /\ stage' = [stage EXCEPT ![c] = "none"]
    /\ outcome' = [outcome EXCEPT ![c] = "RequestException"]
    /\ since' = [since EXCEPT ![c] = {}]
    /\ UNCHANGED <<status, op, nowait, desc>>
    /\ behind' = IF stage[c] = "sent" THEN [behind EXCEPT ![op[c]] = @ + 1] ELSE behind

\* A call that waits leaves in the handle why it does.
Learn(c) ==
    /\ stage[c] = "open" /\ op[c] \in Transition /\ ~nowait[c]
    /\ Transient(op[c]) \in since[c]
    /\ desc' = [desc EXCEPT ![c] = Transient(op[c])]
    /\ UNCHANGED <<status, behind, op, nowait, stage, since, outcome>>

-----------------------------------------------------------------------------
(* The instance.                                                           *)

\* The instance gets status s while the calls of `more', and those that are open, look.
Becomes(s, more) ==
    /\ status' = s
    /\ since' = [c \in Clients |->
                   IF op[c] \in Reporting /\ (stage[c] = "open" \/ c \in more)
                   THEN since[c] \cup {s} ELSE since[c]]
    /\ UNCHANGED <<op, nowait, desc, outcome>>

\* A start or a stop may be accepted and change nothing.
Accept(c) ==
    /\ stage[c] = "sent"
    /\ \/ Effective(op[c], status) /\ Becomes(Effect(op[c]), {c})
       \/ op[c] \in Transition /\ status # "absent" /\ Becomes(status, {c})
    /\ stage' = [stage EXCEPT ![c] = "open"]
    /\ UNCHANGED behind

Refuse(c) ==
    /\ stage[c] = "sent"
    /\ \E e \in Refusal : stage' = [stage EXCEPT ![c] = e]
    /\ UNCHANGED <<status, behind, op, nowait, since, desc, outcome>>

CatchUp(o) ==
    /\ behind[o] > 0
    /\ behind' = [behind EXCEPT ![o] = @ - 1]
    /\ Effective(o, status) /\ Becomes(Effect(o), {})
    /\ UNCHANGED stage

\* A start or a stop ends, well or not; a running instance fails.
Settle == /\ \E o \in Transition : status = Transient(o)
                                   /\ \E s \in {Goal(o), "FAILED"} : Becomes(s, {})
          /\ UNCHANGED <<behind, stage>>

Fail == status = "RUNNING" /\ Becomes("FAILED", {}) /\ UNCHANGED <<behind, stage>>

-----------------------------------------------------------------------------
Next == \/ \E c \in Clients :
             \/ \E o \in Op, nw \in BOOLEAN : Begin(c, o, nw)
             \/ \E a \in Guarded : Shut(c, a)
             \/ Return(c) \/ RaiseState(c) \/ RaiseRefusal(c) \/ Break(c) \/ Learn(c)
             \/ Accept(c) \/ Refuse(c)
        \/ (\E o \in Commands : CatchUp(o)) \/ Settle \/ Fail

Spec == Init /\ [][Next]_vars
===============================================================================
