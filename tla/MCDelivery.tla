------------------------------ MODULE MCDelivery ------------------------------
(***************************************************************************)
(* Delivery for TLC.  Each behaviour has one of three workloads: direct    *)
(* messages over one server, with two logouts, exits or kills; the same    *)
(* over two servers; a group.  ann uses one client, bob two.               *)
(***************************************************************************)
EXTENDS Delivery

CONSTANTS ann, bob, c1, c2, s1

Workload(servers, writers, limit, commands) ==
  [seats |-> {<<c1, ann>>, <<c1, bob>>, <<c2, bob>>}, servers |-> servers,
   writers |-> writers, sends |-> 2, ends |-> limit, commands |-> commands]
MCWorkloads ==
  {Workload({s1}, {ann}, 2, {"login", "logout", "exit", "send"}),
   Workload(Servers, {ann}, 1, {"login", "logout", "send", "terminate"}),
   Workload({s1}, Users, 2, {"login", "logout", "join-group", "send-group"})}
=============================================================================
