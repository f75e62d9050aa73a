--------------------------- MODULE MCSocialServer ---------------------------
(* SocialServer for TLC: users and groups are interchangeable.             *)
EXTENDS SocialServer, TLC

Symmetry == Permutations(Users) \cup Permutations(Groups)
=============================================================================
