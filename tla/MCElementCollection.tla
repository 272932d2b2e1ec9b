------------------------- MODULE MCElementCollection -------------------------
(* ElementCollection for TLC: clients may be exchanged, and so may paths.   *)
EXTENDS ElementCollection, TLC

Symmetry == Permutations(Clients) \cup Permutations(Paths)
=============================================================================
