-------------------------- MODULE OperationVariables --------------------------
(***************************************************************************)
(* What AASOperationService promises of the operation variables it keeps.  *)
(* An invocation is one step from their point of view: it takes all of its *)
(* arguments, each for the variable of its name, and sends what is then in *)
(* the input variables; or it breaks off at an argument that cannot be     *)
(* taken, sends nothing, and has taken those of the variables before.      *)
(***************************************************************************)
EXTENDS OperationArguments

VARIABLES call,    \* number of the current or last invocation
          phase,   \* "idle", "called" (nothing is done yet) or "sent"
          args,    \* args[v]: what the invocation passes for variable v
          holds,   \* holds[v]: the object that variable v refers to
          val,     \* val[o]: what object o contains
          sent     \* the input variables in the last request

vars == <<call, phase, args, holds, val, sent>>

Init == /\ call = 0
        /\ phase = "idle"
        /\ args = [v \in Vars |-> NotGiven]
        /\ holds = [v \in Vars |-> v]
        /\ val = [o \in Objects |-> IF o \in Vars THEN Default(o) ELSE Own(o, 0)]
        /\ sent = [v \in 1 .. NIn |-> [id |-> v, val |-> Default(v)]]

-----------------------------------------------------------------------------
(* Callers.                                                                *)

\* Another service: its variables refer to their own elements, with their defaults.
New == /\ phase = "idle"
       /\ holds' = [v \in Vars |-> v]
       /\ val' = [o \in Objects |-> IF o \in Vars THEN Default(o) ELSE val[o]]
       /\ UNCHANGED <<call, phase, args, sent>>

Edit(e) == /\ phase = "idle"
           /\ val' = [val EXCEPT ![e] = Own(e, call)]
           /\ UNCHANGED <<call, phase, args, holds, sent>>

Begin(a) == /\ phase = "idle"
            /\ call < MaxCalls
            /\ Fits(a)
            /\ call' = call + 1
            /\ phase' = "called"
            /\ args' = a
            /\ UNCHANGED <<holds, val, sent>>

-----------------------------------------------------------------------------
(* Invocations.                                                            *)

GivesValue(v) == args[v] \in {Whole, Part}
GivesElement(v) == args[v] \notin {NotGiven, Whole, Part}

Passed(v) == IF args[v] = Whole THEN Given(v, call) ELSE Mixed(v, call)

\* The variables and the objects once the arguments of the variables in `taken' are taken.
HoldsAfter(taken) ==
    [v \in Vars |-> IF v \in taken /\ GivesElement(v) THEN args[v][2] ELSE holds[v]]

\* The variable that object o is the element of: no two refer to the same.
Holder(o) == CHOOSE v \in Vars : holds[v] = o

Changed(taken) == {holds[v] : v \in {w \in taken : GivesValue(w)}}

ValAfter(taken) ==
    [o \in Objects |-> IF o \in Changed(taken) THEN Passed(Holder(o)) ELSE val[o]]

Send == /\ phase = "called"
        /\ phase' = "sent"
        /\ holds' = HoldsAfter(Vars)
        /\ val' = ValAfter(Vars)
        /\ sent' = [v \in 1 .. NIn |-> [id |-> v, val |-> val'[holds'[v]]]]
        /\ UNCHANGED <<call, args>>

\* The value for variable k is not taken, or only some members of it are.
Break(k) == /\ phase = "called"
            /\ GivesValue(k)
            /\ phase' = "idle"
            /\ holds' = HoldsAfter(1 .. k - 1)
            /\ \E x \in {val[holds[k]], Mixed(k, call)} :
                 val' = [ValAfter(1 .. k - 1) EXCEPT ![holds[k]] = x]
            /\ UNCHANGED <<call, args, sent>>

Finish == phase = "sent" /\ phase' = "idle" /\ UNCHANGED <<call, args, holds, val, sent>>

-----------------------------------------------------------------------------
Next == \/ New \/ Send \/ Finish
        \/ \E e \in Elems : Edit(e)
        \/ \E a \in [Vars -> Arg] : Begin(a)
        \/ \E k \in Vars : Break(k)

Spec == Init /\ [][Next]_vars
===============================================================================
