------------------------------- MODULE MCClient -------------------------------
(***************************************************************************)
(* Client for TLC.  Each behaviour has one of four workloads: a group and  *)
(* its messages; direct messages, with one of them late; direct messages   *)
(* and a group to which others write; both kinds of messages with no       *)
(* trouble from outside.                                                   *)
(***************************************************************************)
EXTENDS Client

MCWorkloads ==
  {[commands |-> {"login", "logout", "join-group", "send-group"},
    trouble |-> 1, waiting |-> 0],
   [commands |-> {"login", "logout", "delete", "exit", "send", "other", "empty"},
    trouble |-> 1, waiting |-> 1],
   [commands |-> {"login", "logout", "join-group", "send"},
    trouble |-> 1, waiting |-> 0],
   [commands |-> {"login", "join-group", "send", "send-group"},
    trouble |-> 0, waiting |-> 0]}
=============================================================================
