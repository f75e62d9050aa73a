---------------------------- MODULE ClawMachine ----------------------------
(***************************************************************************)
(* Project_1, hw1_0416005_advance.cpp: players share claw machines.  A     *)
(* master thread drives time slots: it wakes every player thread, waits    *)
(* for all of them, then hands freed machines to the waiting queue.  The   *)
(* semaphore msg_order is meant to let finish lines out before any start   *)
(* or wait line of the same slot.                                          *)
(*                                                                         *)
(* The master's loops over the start and done semaphores are one step      *)
(* each: a player sees only its own pair.  What a player does under one    *)
(* mutex is one step; the mutexes themselves are left out.                 *)
(***************************************************************************)
EXTENDS Integers, FiniteSets, SequencesExt

CONSTANTS Players, NoPlayer,  \* NoPlayer: the id 0
          Machines,           \* 1..NUMBER_OF_CLAW_MACHINE
          Inputs              \* the input files: guarantee and player rows

NoMachine == 0                \* the code's claw_machine_id -1

Row == [arrive : Nat, once : Nat \ {0}, rest : Nat, total : Nat \ {0}]
ASSUME ClawAssumption ==
  /\ IsFiniteSet(Players) /\ Players # {} /\ NoPlayer \notin Players
  /\ Machines \subseteq Nat \ {NoMachine} /\ IsFiniteSet(Machines)
  /\ \A in \in Inputs : in.guarantee \in Nat \ {0} /\ in.player \in [Players -> Row]

VARIABLES
  input,       \* the file read by main
  mpc,         \* master: "release", "collect", "drain", "final", "last", "complete"
  timer,       \* global_timer
  finished,    \* number_of_finished_players
  guarantee,   \* guarantee_number_counter
  prevFinished,\* someone_finished_previous_timeslot
  detach,      \* can_detach
  queue,       \* global_waiting_queue
  owner,       \* claw_machine_player_id
  playing,     \* claw_machine_is_playing
  done,        \* current_player_done
  msgOrder,    \* value of msg_order_sem
  startSem, doneSem,   \* player_start_sem_array, player_done_sem_array
  ppc,         \* player: "asleep", "gate", "seat", "enqueue", "play", "report", "gone"
  me,          \* the locals of each player thread
  talked       \* a start or wait line has been printed in this slot

master == <<mpc, timer, prevFinished, detach>>
hall   == <<queue, owner, playing>>
count  == <<finished, guarantee>>
sems   == <<msgOrder, startSem, doneSem>>
vars == <<input, master, count, hall, done, sems, ppc, me, talked>>

\* lineUp = already_line_up, leave = leave_or_rest, prize = get_prize,
\* machine = claw_machine_id, once/total = rest_continuous/total_rounds.
Locals == [lineUp : BOOLEAN, leave : BOOLEAN, prize : BOOLEAN,
           machine : Machines \cup {NoMachine}, arrive : Nat,
           once : Nat, total : Nat]

TypeOK ==
  /\ input \in Inputs
  /\ mpc \in {"release", "collect", "drain", "final", "last", "complete"}
  /\ timer \in Nat /\ prevFinished \in BOOLEAN /\ detach \in BOOLEAN
  /\ finished \in 0..Cardinality(Players)
  /\ guarantee \in 1..input.guarantee
  /\ queue \in Seq(Players)
  /\ owner \in [Machines -> Players \cup {NoPlayer}]
  /\ playing \in [Machines -> BOOLEAN] /\ done \in [Machines -> BOOLEAN]
  /\ msgOrder \in Nat
  /\ startSem \in [Players -> 0..1] /\ doneSem \in [Players -> 0..1]
  /\ ppc \in [Players -> {"asleep", "gate", "seat", "enqueue", "play", "report", "gone"}]
  /\ me \in [Players -> Locals]
  /\ talked \in BOOLEAN

\* gate: the value msg_order_sem has when the first slot begins.
InitWith(gate) ==
  /\ input \in Inputs
  /\ mpc = "release" /\ prevFinished = FALSE /\ detach = FALSE
  /\ timer = Min({input.player[p].arrive : p \in Players})
  /\ finished = 0 /\ guarantee = input.guarantee
  /\ queue = <<>>
  /\ owner = [m \in Machines |-> NoPlayer]
  /\ playing = [m \in Machines |-> FALSE] /\ done = [m \in Machines |-> FALSE]
  /\ msgOrder = gate
  /\ startSem = [p \in Players |-> 0] /\ doneSem = [p \in Players |-> 0]
  /\ ppc = [p \in Players |-> "asleep"]
  /\ me = [p \in Players |-> LET row == input.player[p] IN
             [lineUp |-> FALSE, leave |-> FALSE, prize |-> FALSE,
              machine |-> NoMachine, arrive |-> row.arrive,
              once |-> row.once, total |-> row.total]]
  /\ talked = FALSE

Init == InitWith(0)

----------------------------------------------------------------------------
(* The master thread *)

\* Wake all players; without a finisher in the previous slot, open msg_order.
Release ==
  /\ mpc = "release"
  /\ startSem' = [p \in Players |-> startSem[p] + 1]
  /\ msgOrder' = IF prevFinished THEN msgOrder ELSE msgOrder + 1
  /\ mpc' = "collect"
  /\ UNCHANGED <<input, timer, prevFinished, detach, count, hall, done, doneSem,
                 ppc, me, talked>>

\* Mutant: one player's post is enough.
CollectAny(from, to) ==
  /\ mpc = from /\ \E p \in Players : doneSem[p] > 0
  /\ doneSem' = [p \in Players |-> 0]
  /\ mpc' = to
  /\ UNCHANGED <<input, timer, prevFinished, detach, count, hall, done, msgOrder,
                 startSem, ppc, me, talked>>
CollectAll(from, to) ==
  /\ mpc = from /\ \A p \in Players : doneSem[p] > 0
  /\ doneSem' = [p \in Players |-> doneSem[p] - 1]
  /\ mpc' = to
  /\ UNCHANGED <<input, timer, prevFinished, detach, count, hall, done, msgOrder,
                 startSem, ppc, me, talked>>
Collect == CollectAll("collect", "drain")

\* The queue's front goes to the finished machines, lowest machine first.
Freed == {m \in Machines : done[m]}
Rank(m) == Cardinality({k \in Freed : k <= m})
\* Mutant: machines go to the queue's back.
HandOverFromBack ==
  /\ owner' = [m \in Machines |->
                 IF m \notin Freed THEN owner[m]
                 ELSE IF Rank(m) <= Len(queue) THEN queue[Len(queue) + 1 - Rank(m)]
                 ELSE NoPlayer]
  /\ queue' = SubSeq(queue, 1, Len(queue) - Cardinality(Freed))
  /\ playing' = [m \in Machines |-> playing[m] /\ m \notin Freed]
  /\ done' = [m \in Machines |-> FALSE]
HandOver ==
  /\ owner' = [m \in Machines |->
                 IF m \notin Freed THEN owner[m]
                 ELSE IF Rank(m) <= Len(queue) THEN queue[Rank(m)] ELSE NoPlayer]
  /\ queue' = SubSeq(queue, Cardinality(Freed) + 1, Len(queue))
  /\ playing' = [m \in Machines |-> playing[m] /\ m \notin Freed]
  /\ done' = [m \in Machines |-> FALSE]

\* The end of a slot, up to the next test of the loop condition.
EndSlot ==
  /\ guarantee' = IF \E m \in Machines : playing[m] THEN guarantee ELSE input.guarantee
  /\ HandOver
  /\ prevFinished' = (Freed # {})
  /\ timer' = timer + 1
  /\ mpc' = IF finished < Cardinality(Players) THEN "release" ELSE "final"
  /\ talked' = FALSE
  /\ UNCHANGED <<input, detach, finished, startSem, doneSem, ppc, me>>

Drain ==
  /\ mpc = "drain" /\ msgOrder > 0
  /\ msgOrder' = msgOrder - 1
  /\ EndSlot

\* All prizes are out: one more round so that the last finish line is printed.
Final ==
  /\ mpc = "final"
  /\ detach' = TRUE
  /\ startSem' = [p \in Players |-> startSem[p] + 1]
  /\ mpc' = "last"
  /\ UNCHANGED <<input, timer, prevFinished, count, hall, done, msgOrder,
                 doneSem, ppc, me, talked>>
CollectLast == CollectAll("last", "complete")

----------------------------------------------------------------------------
(* A player thread, one time slot *)

Goto(p, place) == ppc' = [ppc EXCEPT ![p] = place]
\* Mutant: the done semaphore is posted twice.
FinishTurnTwice(p, place) ==
  /\ Goto(p, place)
  /\ doneSem' = [doneSem EXCEPT ![p] = @ + 2]
\* sem_post on the player's done semaphore, and back to the start semaphore.
FinishTurn(p, place) ==
  /\ Goto(p, place)
  /\ doneSem' = [doneSem EXCEPT ![p] = @ + 1]

Wake(p) ==
  /\ ppc[p] = "asleep" /\ startSem[p] > 0
  /\ startSem' = [startSem EXCEPT ![p] = @ - 1]
  /\ Goto(p, "gate")
  /\ UNCHANGED <<input, master, count, hall, done, msgOrder, doneSem, me, talked>>

\* What follows the gate: leave for good, sit the slot out, or act.
AfterGate(p) ==
  \/ /\ detach /\ FinishTurn(p, "gone")
  \/ /\ ~detach /\ me[p].prize /\ FinishTurn(p, "asleep")
  \/ /\ ~detach /\ ~me[p].prize /\ Goto(p, "seat") /\ UNCHANGED doneSem

\* Mutant: claw_machine_id is not reset.
AnnounceKeepingMachine(p) ==
  /\ ppc[p] = "gate" /\ me[p].leave
  /\ me' = [me EXCEPT ![p].leave = FALSE]
  /\ msgOrder' = msgOrder + 1
  /\ AfterGate(p)
  /\ UNCHANGED <<input, master, count, hall, done, startSem, talked>>
\* The player finished in the previous slot: print it, then open the gate.
Announce(p) ==
  /\ ppc[p] = "gate" /\ me[p].leave
  /\ me' = [me EXCEPT ![p].leave = FALSE, ![p].machine = NoMachine]
  /\ msgOrder' = msgOrder + 1
  /\ AfterGate(p)
  /\ UNCHANGED <<input, master, count, hall, done, startSem, talked>>

\* Everybody else passes the gate one by one (sem_wait, sem_post).
PassGate(p) ==
  /\ ppc[p] = "gate" /\ ~me[p].leave /\ msgOrder > 0
  /\ AfterGate(p)
  /\ UNCHANGED <<input, master, count, hall, done, msgOrder, startSem, me, talked>>

\* Mutant: a machine is free when nobody plays it.
FreeIfNotPlaying == {m \in Machines : ~playing[m]}
Free == {m \in Machines : owner[m] = NoPlayer}
Arrives(p) == timer = me[p].arrive
Waits(p)   == timer > me[p].arrive /\ me[p].machine = NoMachine
Given(p)   == {m \in Machines : owner[m] = p}

Sit(p, m) ==
  /\ me' = [me EXCEPT ![p].machine = m, ![p].lineUp = TRUE]
  /\ owner' = [owner EXCEPT ![m] = p]
  /\ playing' = [playing EXCEPT ![m] = TRUE]
  /\ talked' = TRUE
  /\ Goto(p, "play")
  /\ UNCHANGED <<input, master, count, queue, done, sems>>

\* The player arrives and takes the lowest free machine.
TakeFree(p) ==
  /\ ppc[p] = "seat" /\ Arrives(p) /\ ~me[p].lineUp /\ Free # {}
  /\ Sit(p, Min(Free))

\* Mutant: the player lines up whatever machines are free.
AlwaysQueue(p) ==
  /\ ppc[p] = "seat" /\ Arrives(p) /\ ~me[p].lineUp
  /\ Goto(p, "enqueue")
  /\ UNCHANGED <<input, master, count, hall, done, sems, me, talked>>
\* The player arrives and finds no free machine.
FindAllTaken(p) ==
  /\ ppc[p] = "seat" /\ Arrives(p) /\ ~me[p].lineUp /\ Free = {}
  /\ Goto(p, "enqueue")
  /\ UNCHANGED <<input, master, count, hall, done, sems, me, talked>>

\* A waiting player finds the machine the master has handed over.
TakeGiven(p) ==
  /\ ppc[p] = "seat" /\ Waits(p)
  /\ \E m \in Given(p) : Sit(p, m)

\* Already playing.
StayOn(p) ==
  /\ ppc[p] = "seat" /\ me[p].machine # NoMachine
  /\ Arrives(p) => me[p].lineUp
  /\ Goto(p, "play")
  /\ UNCHANGED <<input, master, count, hall, done, sems, me, talked>>

\* Still resting, or still in the queue.
SitOut(p) ==
  /\ ppc[p] = "seat" /\ me[p].machine = NoMachine
  /\ Waits(p) => Given(p) = {}
  /\ Arrives(p) => me[p].lineUp
  /\ FinishTurn(p, "asleep")
  /\ UNCHANGED <<input, master, count, hall, done, msgOrder, startSem, me, talked>>

JoinQueue(p) ==
  /\ ppc[p] = "enqueue"
  /\ queue' = Append(queue, p)
  /\ me' = [me EXCEPT ![p].lineUp = TRUE]
  /\ talked' = TRUE
  /\ FinishTurn(p, "asleep")
  /\ UNCHANGED <<input, master, count, owner, playing, done, msgOrder, startSem>>

\* One round; the guarantee counter is read and reset under its mutex.
Play(p) ==
  /\ ppc[p] = "play"
  /\ LET left == me[p].total - 1
         won  == guarantee - 1 = 0 \/ left = 0 IN
       /\ guarantee' = IF won THEN input.guarantee ELSE guarantee - 1
       /\ me' = [me EXCEPT ![p].once = @ - 1, ![p].total = left, ![p].prize = won]
  /\ Goto(p, "report")
  /\ UNCHANGED <<input, master, finished, hall, done, sems, talked>>

Ended(p) == me[p].prize \/ me[p].once = 0
\* Mutant: each player that leaves the machine is counted.
CountTurn(p) == IF Ended(p) THEN finished + 1 ELSE finished
CountPrize(p) == IF me[p].prize THEN finished + 1 ELSE finished

\* Tell the master, count a prize, and plan the next arrival.
Report(p) ==
  /\ ppc[p] = "report"
  /\ LET row == input.player[p] IN
       /\ done' = [done EXCEPT ![me[p].machine] = Ended(p)]
       /\ finished' = CountPrize(p)
       /\ me' = IF Ended(p)
                THEN [me EXCEPT ![p].leave = TRUE, ![p].lineUp = FALSE,
                        ![p].arrive = IF me[p].prize THEN timer
                                                     ELSE timer + 1 + row.rest,
                        ![p].once = row.once]
                ELSE [me EXCEPT ![p].leave = FALSE, ![p].lineUp = TRUE]
  /\ FinishTurn(p, "asleep")
  /\ UNCHANGED <<input, master, guarantee, hall, msgOrder, startSem, talked>>

----------------------------------------------------------------------------
Master == Release \/ Collect \/ Drain \/ Final \/ CollectLast
Seat(p) == TakeFree(p) \/ FindAllTaken(p) \/ TakeGiven(p) \/ StayOn(p) \/ SitOut(p)
Player(p) == \/ Wake(p) \/ Announce(p) \/ PassGate(p) \/ Seat(p)
             \/ JoinQueue(p) \/ Play(p) \/ Report(p)

\* main returns once the master is complete: the program stops on purpose.
Exit == mpc = "complete" /\ UNCHANGED vars

Next == Master \/ (\E p \in Players : Player(p)) \/ Exit
Spec == Init /\ [][Next]_vars
\* Every thread is scheduled: none of the semaphores is waited for with a
\* timeout, and the operating system runs every runnable thread.
FairSpec == Spec /\ WF_vars(Master) /\ \A p \in Players : WF_vars(Player(p))

----------------------------------------------------------------------------
(* Properties *)

Waiting(p) == me[p].lineUp /\ me[p].machine = NoMachine
BetweenSlots == mpc \in {"release", "final"}

\* Between slots every player that lined up and does not play is in exactly
\* one place: once in the queue, or owner of exactly one machine it has been
\* handed; and nobody else is in the queue (lines 277-302, 197-214).
NobodyLost ==
  BetweenSlots => \A p \in Players :
    LET inQueue == {k \in DOMAIN queue : queue[k] = p} IN
      Cardinality(inQueue) + Cardinality(Given(p))
        = IF me[p].lineUp THEN 1 ELSE 0

\* A machine is played by one player at a time, and a player that is playing
\* owns the machine and no other (lines 278-289 and 308-317).
OnePlayerPerMachine ==
  \A p \in Players : me[p].machine # NoMachine /\ ~me[p].leave =>
    /\ Given(p) = {me[p].machine}
    /\ playing[me[p].machine]

\* Nobody waits beside a free machine, and so nobody who arrives overtakes the
\* queue.
NoFreeMachineBesideQueue == queue # <<>> => Free = {}

\* The slots are a barrier: the clock only moves when each player has finished
\* its turn, and each player takes one turn per slot.
SlotsDoNotOverlap ==
  [][timer' # timer => \A p \in Players :
        ppc[p] \in {"asleep", "gone"} /\ startSem[p] = 0 /\ doneSem[p] = 0]_vars

\* Nobody overtakes in the queue: a player leaves it only to own a machine, and
\* only together with everybody ahead (lines 203-206).
Ahead(p, q) == \E j, k \in DOMAIN queue : j < k /\ queue[j] = p /\ queue[k] = q
NobodyOvertakes ==
  [][\A p, q \in Players :
        Ahead(p, q) /\ q \notin ToSet(queue') =>
          p \notin ToSet(queue') /\ \E m \in Machines : owner'[m] = p]_vars

\* Every prize is counted exactly once, and nobody is out of rounds without
\* one: the master's loop ends when the last prize is out, not before or never.
PrizesCounted ==
  /\ finished = Cardinality({p \in Players : me[p].prize /\ ppc[p] # "report"})
  /\ \A p \in Players : me[p].total = 0 => me[p].prize

\* Everybody gets a prize and the program ends.
AllComplete == <>(mpc = "complete" /\ \A p \in Players : me[p].prize)

\* The comments at lines 73-75, 171-173 and 265-266: the finish lines of a slot
\* are printed before any start or wait line of that slot.
FinishLinesFirst ==
  [][\A p \in Players : ppc[p] = "gate" /\ me[p].leave /\ ppc'[p] # "gate" => ~talked]_vars
=============================================================================
