-------------------------- MODULE ClawMachineBasic --------------------------
(***************************************************************************)
(* Project_1, hw1_0416005_basic.cpp: one claw machine.  The players are    *)
(* those of the advanced program (ClawMachine with one machine: player_id, *)
(* is_claw_machine_playing and current_player_done are its owner, playing  *)
(* and done), except for the place where already_line_up is cleared.  The  *)
(* master keeps the gate msg_order open across slots, and closes it after  *)
(* a slot in which the player finished.                                    *)
(***************************************************************************)
EXTENDS ClawMachine

ASSUME OneMachine == Cardinality(Machines) = 1

\* The master posts msg_order once, before the first slot.
BasicInit == InitWith(1)

BasicRelease ==
  /\ mpc = "release"
  /\ startSem' = [p \in Players |-> startSem[p] + 1]
  /\ mpc' = "collect"
  /\ UNCHANGED <<input, timer, prevFinished, detach, count, hall, done, doneSem,
                 msgOrder, ppc, me, talked>>

\* Mutants: the gate is always left open, or always closed.
DrainLeavingOpen == mpc = "drain" /\ msgOrder > 0 /\ msgOrder' = msgOrder /\ EndSlot
DrainClosing == mpc = "drain" /\ msgOrder > 0 /\ msgOrder' = msgOrder - 1 /\ EndSlot
\* The gate is taken, and put back unless the player finished in this slot.
BasicDrain ==
  /\ mpc = "drain" /\ msgOrder > 0
  /\ msgOrder' = IF Freed = {} THEN msgOrder ELSE msgOrder - 1
  /\ EndSlot

BasicMaster == BasicRelease \/ Collect \/ BasicDrain \/ Final \/ CollectLast

\* already_line_up is cleared with the finish line, not at the end of the round.
BasicAnnounce(p) ==
  /\ ppc[p] = "gate" /\ me[p].leave
  /\ me' = [me EXCEPT ![p].leave = FALSE, ![p].machine = NoMachine,
                      ![p].lineUp = FALSE]
  /\ msgOrder' = msgOrder + 1
  /\ AfterGate(p)
  /\ UNCHANGED <<input, master, count, hall, done, startSem, talked>>

BasicReport(p) ==
  /\ ppc[p] = "report"
  /\ LET row == input.player[p] IN
       /\ done' = [done EXCEPT ![me[p].machine] = Ended(p)]
       /\ finished' = CountPrize(p)
       /\ me' = IF Ended(p)
                THEN [me EXCEPT ![p].leave = TRUE,
                        ![p].arrive = IF me[p].prize THEN timer
                                                     ELSE timer + 1 + row.rest,
                        ![p].once = row.once]
                ELSE [me EXCEPT ![p].leave = FALSE]
  /\ FinishTurn(p, "asleep")
  /\ UNCHANGED <<input, master, guarantee, hall, msgOrder, startSem, talked>>

BasicPlayer(p) == \/ Wake(p) \/ BasicAnnounce(p) \/ PassGate(p) \/ Seat(p)
                  \/ JoinQueue(p) \/ Play(p) \/ BasicReport(p)

BasicNext == BasicMaster \/ (\E p \in Players : BasicPlayer(p)) \/ Exit
BasicSpec == BasicInit /\ [][BasicNext]_vars
BasicFairSpec ==
  BasicSpec /\ WF_vars(BasicMaster) /\ \A p \in Players : WF_vars(BasicPlayer(p))

----------------------------------------------------------------------------
\* The gate never leaks: when a slot begins it is open exactly if nobody has a
\* finish line to print, and at most one player has (lines 148-151 and 173-175,
\* the posts of 218-234).
GateMatchesFinisher ==
  LET finishers == {p \in Players : me[p].leave} IN
    mpc = "release" => msgOrder + Cardinality(finishers) = 1
=============================================================================
