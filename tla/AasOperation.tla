---------------------------- MODULE AasOperation ----------------------------
(***************************************************************************)
(* AASOperationService (mdtpy/operation/aas_operation.py), alone and as    *)
(* the `op' of an OperationSubmodelService: the operation variables that a *)
(* service keeps from one invoke() to the next, and what it sends.         *)
(*                                                                         *)
(* Variables hold SubmodelElements by reference.  The elements that come   *)
(* with the operation and those that callers pass as arguments are objects *)
(* here: numbers, with what they contain in `idShort' and `val'.  Writing  *)
(* the results back is part of DagTask.                                    *)
(***************************************************************************)
EXTENDS OperationArguments

CONSTANT Described  \* the variables with an input argument in the descriptor

ASSUME DescribedAssumption == Described \subseteq Vars

VARIABLES
    call,        \* number of the current or last invoke()
    pc,
    args,        \* the keyword arguments of AASOperationService.invoke()
    byService,   \* whether OperationSubmodelService.invoke() made the call
    pos,         \* the variable whose turn it is
    holds,       \* holds[v]: the object that variable v refers to
    idShort,     \* idShort[o]: the variable that object o is named for, or 0
    val,         \* val[o]: what object o contains
    sent,        \* what the last request carries for the input variables
    start        \* history: holds and val when invoke() was entered

vars == <<call, pc, args, byService, pos, holds, idShort, val, sent, start>>

Sent == [1 .. NIn -> [id : 0 .. NVars, val : Values]]

TypeOK ==
    /\ call \in 0 .. MaxCalls
    /\ pc \in {"idle", "applying", "invoking"}
    /\ args \in [Vars -> Arg]
    /\ byService \in BOOLEAN
    /\ pos \in 1 .. NVars + 1
    /\ holds \in [Vars -> Objects]
    /\ idShort \in [Objects -> 0 .. NVars]
    /\ val \in [Objects -> Values]
    /\ sent \in Sent
    /\ start \in [holds : [Vars -> Objects], val : [Objects -> Values]]

Init ==
    /\ call = 0
    /\ pc = "idle"
    /\ args = [v \in Vars |-> NotGiven]
    /\ byService = FALSE
    /\ pos = 1
    /\ holds = [v \in Vars |-> v]
    /\ idShort = [o \in Objects |-> IF o \in Vars THEN o ELSE 0]
    /\ val = [o \in Objects |-> IF o \in Vars THEN Default(o) ELSE Own(o, 0)]
    /\ sent = [v \in 1 .. NIn |-> [id |-> v, val |-> Default(v)]]
    /\ start = [holds |-> holds, val |-> val]

-----------------------------------------------------------------------------
(* Callers.                                                                *)

\* Another service object is made: its constructor reads the operation anew.
New ==
    /\ pc = "idle"
    /\ holds' = [v \in Vars |-> v]
    /\ idShort' = [o \in Objects |-> IF o \in Vars THEN o ELSE idShort[o]]
    /\ val' = [o \in Objects |-> IF o \in Vars THEN Default(o) ELSE val[o]]
    /\ UNCHANGED <<call, pc, args, byService, pos, sent, start>>

\* A caller changes an element of his own between two calls.
Edit(e) ==
    /\ pc = "idle"
    /\ val' = [val EXCEPT ![e] = Own(e, call)]
    /\ UNCHANGED <<call, pc, args, byService, pos, holds, idShort, sent, start>>

\* AASOperationService.invoke(**a) is entered.
Enter(a) ==
    /\ pc = "idle"
    /\ call < MaxCalls
    /\ call' = call + 1
    /\ pc' = "applying"
    /\ args' = a
    /\ pos' = 1
    /\ start' = [holds |-> holds, val |-> val]
    /\ UNCHANGED <<holds, idShort, val, sent>>

BeginInvoke ==
    \E a \in [Vars -> Arg] : Fits(a) /\ Enter(a) /\ byService' = FALSE

\* Mutant: only the arguments that were passed are handed on.
MutantWithDefaults(a) == [v \in Vars |-> IF v \in Described THEN a[v] ELSE NotGiven]

\* OperationSubmodelService.invoke: every input of the descriptor gets an argument, the
\* registered reference if none was passed; other names are not handed on.
WithDefaults(a) ==
    [v \in Vars |-> IF v \notin Described THEN NotGiven
                    ELSE IF a[v] = NotGiven THEN Whole ELSE a[v]]

BeginService ==
    \E a \in [Vars -> Arg] : Fits(a) /\ Enter(WithDefaults(a)) /\ byService' = TRUE

-----------------------------------------------------------------------------
(* AASOperationService.invoke.                                             *)

\* The name by which the argument of a variable is looked up: its element's.
VarId(v) == idShort[holds[v]]

Skip ==
    /\ args[VarId(pos)] = NotGiven
    /\ UNCHANGED <<holds, idShort, val>>

\* The element is changed in place, whoever else refers to it.
ApplyValue ==
    LET v == VarId(pos) IN
    /\ args[v] \in {Whole, Part}
    /\ val' = [val EXCEPT ![holds[pos]] = IF args[v] = Whole THEN Given(v, call)
                                                              ELSE Mixed(v, call)]
    /\ UNCHANGED <<holds, idShort>>

\* Mutant: the element keeps the name its caller gave it.
MutantReplaceElement ==
    \E e \in Elems : /\ args[VarId(pos)] = Element(e)
                     /\ holds' = [holds EXCEPT ![pos] = e]
                     /\ UNCHANGED <<idShort, val>>

\* The variable refers to the caller's element from now on, which takes its name.
ReplaceElement ==
    \E e \in Elems : /\ args[VarId(pos)] = Element(e)
                     /\ holds' = [holds EXCEPT ![pos] = e]
                     /\ idShort' = [idShort EXCEPT ![e] = VarId(pos)]
                     /\ UNCHANGED val

Apply ==
    /\ pc = "applying"
    /\ pos <= NVars
    /\ Skip \/ ApplyValue \/ ReplaceElement
    /\ pos' = pos + 1
    /\ UNCHANGED <<call, pc, args, byService, sent, start>>

Leave == pc' = "idle" /\ UNCHANGED <<call, args, byService, pos, holds, idShort, start>>

\* Mutant: a variable whose argument cannot be applied gets its default again.
MutantApplyFails ==
    /\ pc = "applying"
    /\ pos <= NVars
    /\ args[VarId(pos)] \in {Whole, Part}
    /\ val' = [o \in Objects |-> IF o \in Vars THEN Default(o) ELSE val[o]]
    /\ Leave
    /\ UNCHANGED sent

\* The reference cannot be read, or the value does not fit: invoke() raises before
\* anything is sent, with some members of the element changed or none.
ApplyFails ==
    LET v == VarId(pos) IN
    /\ pc = "applying"
    /\ pos <= NVars
    /\ args[v] \in {Whole, Part}
    /\ \E x \in {val[holds[pos]], Mixed(v, call)} : val' = [val EXCEPT ![holds[pos]] = x]
    /\ Leave
    /\ UNCHANGED sent

\* Mutant: the in-output variables are sent among the input variables.
MutantSendRequest ==
    /\ pc = "applying"
    /\ pos > NVars
    /\ sent' = [v \in Vars |-> [id |-> VarId(v), val |-> val[holds[v]]]]
    /\ pc' = "invoking"
    /\ UNCHANGED <<call, args, byService, pos, holds, idShort, val, start>>

\* OperationRequest.to_json: in-output variables are left out of the request.
SendRequest ==
    /\ pc = "applying"
    /\ pos > NVars
    /\ sent' = [v \in 1 .. NIn |-> [id |-> VarId(v), val |-> val[holds[v]]]]
    /\ pc' = "invoking"
    /\ UNCHANGED <<call, args, byService, pos, holds, idShort, val, start>>

\* invoke() returns the outputs or raises; the variables stay as they are.
ReceiveResult == pc = "invoking" /\ Leave /\ UNCHANGED <<val, sent>>

Next == \/ New \/ BeginInvoke \/ BeginService \/ Apply \/ ApplyFails
        \/ SendRequest \/ ReceiveResult
        \/ \E e \in Elems : Edit(e)

Spec == Init /\ [][Next]_vars
-----------------------------------------------------------------------------
(* Properties.                                                             *)

\* The arguments are applied one by one; seen from outside they are so at once, when the
\* request is sent or the call breaks off.
Phase == CASE pc = "applying" -> "called" [] pc = "invoking" -> "sent" [] OTHER -> "idle"
HoldsSeen == IF pc = "applying" THEN start.holds ELSE holds
ValSeen == IF pc = "applying" THEN start.val ELSE val

Variables ==
    INSTANCE OperationVariables WITH phase <- Phase, holds <- HoldsSeen, val <- ValSeen

\* Every invocation takes all of its arguments, each for the variable of its name, or those
\* up to one that cannot be taken, and sends what is then in the input variables.
KeepsVariables == Variables!Spec

\* What variable v is to hold after its turn: what this call passed for it, or what it
\* held when the call began.
Expected(v) ==
    IF args[v] = Whole THEN Given(v, call)
    ELSE IF args[v] = Part THEN Mixed(v, call)
    ELSE IF args[v] = NotGiven THEN start.val[start.holds[v]]
    ELSE start.val[args[v][2]]

\* The request names each input variable by its own name and carries what this call
\* passed for it; an argument left out is sent as the last call left it (or its caller,
\* who may have changed the element he passed), mixed contents included.
SentIsGiven ==
    pc = "invoking" =>
        \A v \in 1 .. NIn : sent[v] = [id |-> v, val |-> Expected(v)]

\* No step of invoke() changes a variable that it was given no argument for, the step
\* that breaks the call off included.
OnlyGivenChange ==
    [][pc # "idle" =>
         \A v \in Vars : args[v] = NotGiven =>
             /\ VarId(v)' = VarId(v)
             /\ val'[holds'[v]] = start.val[start.holds[v]]]_vars

\* OperationSubmodelService.invoke sends no described input as an earlier call left it:
\* each is read from its registered reference or passed by this call.
ServiceIsSelfContained ==
    pc = "invoking" /\ byService =>
        \A v \in Described \cap (1 .. NIn) :
            \/ sent[v].val \in {Given(v, call), Mixed(v, call)}
            \/ \E e \in Elems : args[v] = Element(e) /\ sent[v].val = start.val[e]

\* The docstring of invoke(): an element that is passed replaces a variable's element,
\* whose idShort is kept; so every variable keeps its name.
IdsKept == \A v \in Vars : VarId(v) = v
=============================================================================
