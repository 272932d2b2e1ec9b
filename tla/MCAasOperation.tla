--------------------------- MODULE MCAasOperation ---------------------------
(***************************************************************************)
(* AasOperation for TLC: two input variables and one in-output variable    *)
(* (1, 2 and 3), of which the descriptor has 1 and 3, and two elements.    *)
(***************************************************************************)
EXTENDS AasOperation

MCDescribed == {1, 3}

\* Every element is passed for one variable only.
MCOneVariableEach == [e \in Elems |-> IF e = NVars + 1 THEN {1} ELSE {2}]

\* The first element may be passed for both input variables.
MCShared == [e \in Elems |-> IF e = NVars + 1 THEN {1, 2} ELSE {}]
=============================================================================
