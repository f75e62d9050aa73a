----------------------------- MODULE SocialGraph -----------------------------
(***************************************************************************)
(* What the social servers promise of two users: either nothing is between *)
(* them, or one of them has invited the other, or they are friends.  A     *)
(* friendship comes only out of an invitation, and everything can end.     *)
(***************************************************************************)
CONSTANT Users
VARIABLE tie   \* tie[a][b]: "none", "invited" (a invited b) or "friends"

Pairs == Users \X Users

Init == tie = [a \in Users |-> [b \in Users |-> "none"]]

Ask(a, b) ==
  /\ a # b /\ tie[a][b] = "none" /\ tie[b][a] = "none"
  /\ tie' = [tie EXCEPT ![a][b] = "invited"]

Agree(a, b) ==
  /\ tie[a][b] = "invited"
  /\ tie' = [tie EXCEPT ![a][b] = "friends"]

\* Ties end: an account is deleted, or an acceptance fails half-way.
Drop(S) ==
  tie' = [a \in Users |-> [b \in Users |->
            IF <<a, b>> \in S THEN "none" ELSE tie[a][b]]]

Next == \/ \E a, b \in Users : Ask(a, b) \/ Agree(a, b)
        \/ \E S \in SUBSET Pairs : Drop(S)
Spec == Init /\ [][Next]_tie
=============================================================================
