---------------------------- MODULE SessionPool ----------------------------
(***************************************************************************)
(* What the login server promises about the application instances, with no *)
(* handlers, threads, stacks or acks: each user holds at most one seat, an *)
(* instance has MaxUsers seats, a new one is opened only when every seat   *)
(* is taken, one is closed only when nobody sits on it, and an instance    *)
(* that was opened once is never opened again.                             *)
(***************************************************************************)
EXTENDS Naturals, FiniteSets

CONSTANTS Users, Instances, NoInstance, MaxUsers

VARIABLES open,    \* instances in service
          opened,  \* instances ever opened
          seat     \* the instance each user sits on, or NoInstance

vars == <<open, opened, seat>>

Seated(i) == {u \in Users : seat[u] = i}
Full(i) == Cardinality(Seated(i)) >= MaxUsers

Init ==
  /\ open = {} /\ opened = {}
  /\ seat = [u \in Users |-> NoInstance]

Open(i) ==
  /\ i \notin opened
  /\ \A j \in open : Full(j)
  /\ open' = open \cup {i} /\ opened' = opened \cup {i}
  /\ UNCHANGED seat

Sit(u, i) ==
  /\ seat[u] = NoInstance
  /\ i \in open /\ ~Full(i)
  /\ seat' = [seat EXCEPT ![u] = i]
  /\ UNCHANGED <<open, opened>>

Leave(u) ==
  /\ seat[u] # NoInstance
  /\ seat' = [seat EXCEPT ![u] = NoInstance]
  /\ UNCHANGED <<open, opened>>

Close(i) ==
  /\ i \in open /\ Seated(i) = {}
  /\ open' = open \ {i}
  /\ UNCHANGED <<opened, seat>>

\* The server stops: it no longer knows its instances nor its users' seats.
Forget ==
  /\ open' = {} /\ seat' = [u \in Users |-> NoInstance]
  /\ UNCHANGED opened

Next == \/ Forget
        \/ \E i \in Instances : Open(i) \/ Close(i)
        \/ \E u \in Users : Leave(u) \/ \E i \in Instances : Sit(u, i)

Spec == Init /\ [][Next]_vars
=============================================================================
