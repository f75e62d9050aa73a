--------------------------- MODULE MCLoginServer ---------------------------
(* LoginServer for TLC: model values for users and instances, which are    *)
(* interchangeable as long as only safety is checked.                      *)
EXTENDS LoginServer

Symmetry == Permutations(Users) \cup Permutations(Instances)
=============================================================================
