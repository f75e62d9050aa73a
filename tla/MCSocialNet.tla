----------------------------- MODULE MCSocialNet -----------------------------
(***************************************************************************)
(* SocialNet for TLC.  Each behaviour has one of four workloads: two      *)
(* servers and the relations between users, two servers and the groups     *)
(* with a delete, one server and messages between friends, or to a group,  *)
(* with a delete.                                                          *)
(***************************************************************************)
EXTENDS SocialNet, TLC

MCWorkloads ==
  {[servers |-> Servers, maxTasks |-> 0, commands |-> {"invite", "accept-invite"}],
   [servers |-> Servers, maxTasks |-> 0,
    commands |-> {"create-group", "join-group", "delete"}]}
  \cup
  [servers : {{s} : s \in Servers}, maxTasks : {2},
   commands : {{"invite", "accept-invite", "send", "delete", "terminate"},
               {"post", "create-group", "send-group", "delete",
                "terminate"}}]

Symmetry == Permutations(Users) \cup Permutations(Servers)
=============================================================================
