-------------------------- MODULE MCFileAttachment --------------------------
(* FileAttachment for TLC: clients may be exchanged, and so may URLs.      *)
EXTENDS FileAttachment, TLC

Symmetry == Permutations(Clients) \cup Permutations(Urls)
=============================================================================
