-------------------------- MODULE OperationArguments --------------------------
(***************************************************************************)
(* The variables of an operation, the SubmodelElements they may refer to,  *)
(* the arguments that callers may pass for them, and what elements contain *)
(* (mdtpy/operation/aas_operation.py, OperationVariable of aas_misc.py).   *)
(***************************************************************************)
EXTENDS Integers

CONSTANTS
    NIn,        \* number of input variables
    NInOut,     \* number of in-output variables
    NElems,     \* number of SubmodelElements callers have
    GivenFor,   \* GivenFor[e]: the variables that element e is passed for
    MaxCalls    \* bound: invoke() is made at most this often

ASSUME SizesAssumption == {NIn, NInOut, NElems, MaxCalls} \subseteq Nat

NVars == NIn + NInOut

\* Variable v is called v.
Vars == 1 .. NVars

\* Object v is the element that came with variable v; the others are the callers'.
Elems == (NVars + 1) .. (NVars + NElems)
Objects == 1 .. NVars + NElems

ASSUME GivenForAssumption == GivenFor \in [Elems -> SUBSET Vars]

\* What is passed for a variable: a value for all of its element (a raw value, an
\* ElementValue, or what an ElementReference shows when it is read), a value for some of
\* its members only, or an element.
NotGiven == <<"notGiven", 0>>
Whole    == <<"whole", 0>>
Part     == <<"part", 0>>
Element(e) == <<"element", e>>
Arg == {NotGiven, Whole, Part} \cup {Element(e) : e \in Elems}

Fits(a) == \A v \in Vars, e \in Elems : a[v] = Element(e) => v \in GivenFor[e]

\* What an element contains: where it came from, and in which call.
Values == {"default", "given", "mixed", "own"} \X Objects \X (0 .. MaxCalls)
Default(v)  == <<"default", v, 0>>
Given(v, k) == <<"given", v, k>>
Mixed(v, k) == <<"mixed", v, k>>
Own(e, k)   == <<"own", e, k>>
===============================================================================
