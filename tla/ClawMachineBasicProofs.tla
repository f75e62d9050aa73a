----------------------- MODULE ClawMachineBasicProofs -----------------------
(***************************************************************************)
(* Proofs about ClawMachineBasic, for every number of players and every    *)
(* input file: the hall invariants of ClawMachine hold here too, since     *)
(* every step is a step of AnyStep; the gate msg_order closes for exactly  *)
(* the one player with a finish line to print; and so the finish lines of  *)
(* a slot come before its start and wait lines, which the advanced program *)
(* only promises.                                                          *)
(***************************************************************************)
EXTENDS ClawMachineBasic, ClawMachineProofs

\* Who finished in the previous slot and has not yet printed the line.
Finishers == {p \in Players : me[p].leave /\ ~SlotOver(p)}

\* The gate is open exactly if there is no finish line to come; nobody has come
\* past it or talked as long as there is one; and who has finished in this slot
\* still owns the machine, which is how the master will find out.
GateInv ==
  /\ IsFiniteSet(Finishers)
  /\ msgOrder + Cardinality(Finishers) = 1
  /\ talked => Finishers = {}
  /\ \A p \in Players : ppc[p] \in {"seat", "enqueue", "play", "report"} => Finishers = {}
  /\ \A p \in Players : me[p].leave /\ SlotOver(p) =>
       me[p].machine \in Machines /\ owner[me[p].machine] = p

BasicInv == ClawInv /\ GateInv

LEMMA BasicMasterIsStep ==
  ASSUME BasicMaster
  PROVE  MasterStep
BY DEF BasicMaster, MasterStep, BasicRelease, ReleaseStep, BasicDrain, DrainStep

LEMMA BasicReportIsStep ==
  ASSUME ClawInv, NEW p \in Players, BasicReport(p)
  PROVE  ReportStep(p)
<1> DEFINE row == input.player[p]
<1>0. TypeOK
  BY DEF ClawInv
<1>1. row.once \in Nat \ {0} /\ row.rest \in Nat
  BY <1>0, ClawAssumption DEF TypeOK, Row
<1>2. Ended(p) \in BOOLEAN /\ timer + 1 + row.rest \in Nat /\ timer \in Nat
  BY <1>0, <1>1 DEF TypeOK, Ended, Locals
<1>3. me[p].lineUp
  BY DEF BasicReport, ClawInv, PlaceInv
<1>4. /\ Others(p) /\ me'[p].machine = me[p].machine
      /\ (me'[p].leave <=> Ended(p)) /\ (me'[p].lineUp \/ Ended(p))
      /\ me'[p].prize = me[p].prize /\ me'[p].total = me[p].total /\ me'[p].once # 0
  <2> USE DEF Others
  <2>1. CASE Ended(p)
    <3>1. PICK a \in Nat : me' = [me EXCEPT ![p].leave = TRUE, ![p].arrive = a,
                                            ![p].once = row.once]
      <4>1. \E a \in Nat : me' = [me EXCEPT ![p].leave = TRUE, ![p].arrive = a,
                                            ![p].once = row.once]
        BY <1>2, <2>1 DEF BasicReport
      <4> QED BY <4>1
    <3> HIDE DEF row
    <3> DEFINE now == [me[p] EXCEPT !.leave = TRUE, !.arrive = a, !.once = row.once]
    <3>2. me' = [me EXCEPT ![p] = now] /\ me[p] \in Locals
      BY <1>0, <3>1 DEF TypeOK
    <3>3. /\ now \in Locals /\ now.machine = me[p].machine /\ now.leave
          /\ now.prize = me[p].prize /\ now.total = me[p].total /\ now.once = row.once
      BY <3>2, <1>1 DEF Locals
    <3> HIDE DEF now
    <3>4. /\ me' \in [Players -> Locals] /\ \A q \in Players : q # p => me'[q] = me[q]
          /\ me'[p] = now
      BY <1>0, <3>2, <3>3 DEF TypeOK
    <3> QED BY <3>3, <3>4, <1>1, <2>1
  <2>2. CASE ~Ended(p)
    <3>1. me' = [me EXCEPT ![p].leave = FALSE]
      BY <2>2 DEF BasicReport
    <3>2. me[p].once # 0
      BY <2>2 DEF Ended
    <3>3. /\ me' \in [Players -> Locals] /\ \A q \in Players : q # p => me'[q] = me[q]
          /\ me'[p].machine = me[p].machine /\ ~me'[p].leave
          /\ me'[p].lineUp = me[p].lineUp
          /\ me'[p].prize = me[p].prize /\ me'[p].total = me[p].total
          /\ me'[p].once = me[p].once
      BY <1>0, <3>1 DEF TypeOK, Locals
    <3> QED BY <1>3, <3>2, <3>3, <2>2
  <2> QED BY <2>1, <2>2
<1> QED BY <1>4 DEF BasicReport, ReportStep

LEMMA BasicAnnounceIsStep ==
  ASSUME TypeOK, NEW p \in Players, BasicAnnounce(p)
  PROVE  AnnounceStep(p)
<1> DEFINE now == [me[p] EXCEPT !.leave = FALSE, !.machine = NoMachine, !.lineUp = FALSE]
<1>1. me' = [me EXCEPT ![p] = now] /\ me[p] \in Locals
  BY DEF TypeOK, BasicAnnounce
<1>2. /\ now \in Locals /\ ~now.leave /\ now.machine = NoMachine /\ ~now.lineUp
      /\ now.prize = me[p].prize /\ now.once = me[p].once /\ now.total = me[p].total
  BY <1>1 DEF Locals
<1> HIDE DEF now
<1>3. Others(p) /\ me'[p] = now
  BY <1>1, <1>2 DEF TypeOK, Others
<1> QED BY <1>2, <1>3 DEF BasicAnnounce, AnnounceStep

\* Every step of the basic program is one of the common steps.
LEMMA BasicPlayerIsStep ==
  ASSUME ClawInv, NEW p \in Players, BasicPlayer(p)
  PROVE  PlayerStep(p)
<1>1. CASE BasicAnnounce(p)
  BY <1>1, BasicAnnounceIsStep DEF ClawInv, PlayerStep
<1>2. CASE BasicReport(p)
  BY <1>2, BasicReportIsStep DEF PlayerStep
<1> QED BY <1>1, <1>2 DEF BasicPlayer, PlayerStep

\* With one machine there is at most one finisher, and the hand-over finds it:
\* the gate is closed for its line, or stays open when there is none.
LEMMA GateDrain ==
  ASSUME BasicInv, BasicDrain
  PROVE  GateInv'
<1> USE DEF BasicInv, ClawInv
<1>1. /\ mpc = "drain" /\ mpc' \in {"release", "final"} /\ me' = me /\ ppc' = ppc
      /\ msgOrder' = (IF Freed = {} THEN msgOrder ELSE msgOrder - 1) /\ talked' = FALSE
  BY DEF BasicDrain, EndSlot
<1>2. \A p \in Players : SlotOver(p) /\ ~SlotOver(p)'
  BY <1>1 DEF SlotOver
<1>3. Finishers = {} /\ Finishers' = {p \in Players : me[p].leave}
  BY <1>1, <1>2 DEF Finishers
<1>4. msgOrder = 1
  <2>1. msgOrder \in Nat /\ Cardinality(Finishers) = 0
    BY <1>3, FS_EmptySet DEF TypeOK
  <2> QED BY <2>1 DEF GateInv
<1>5. \A p \in Players : ppc'[p] \notin {"seat", "enqueue", "play", "report"}
  BY <1>1 DEF TurnInv, Rested
<1>6. PICK m \in Machines : Machines = {m}
  <2>1. \E x : Machines = {x}
    BY OneMachine, ClawAssumption, FS_Singleton
  <2> QED BY <2>1
<1>7. \A p \in Players : me[p].leave => owner[m] = p /\ done[m]
  <2> SUFFICES ASSUME NEW p \in Players, me[p].leave PROVE owner[m] = p /\ done[m]
    OBVIOUS
  <2>1. me[p].machine = m /\ owner[m] = p
    BY <1>2, <1>6 DEF GateInv
  <2>2. ~Waiting(p)
    BY DEF PlaceInv
  <2>3. done[m] = me[p].leave
    BY <2>1, <2>2 DEF OwnerInv
  <2> QED BY <2>1, <2>3
<1>8. CASE Freed = {}
  <2>1. ~done[m]
    BY <1>8 DEF Freed
  <2>2. Finishers' = {}
    BY <1>3, <1>7, <2>1
  <2>3. IsFiniteSet(Finishers') /\ Cardinality(Finishers') = 0
    BY <2>2, FS_EmptySet
  <2>4. \A p \in Players : ~SlotOver(p)'
    BY <1>2
  <2> QED BY <1>1, <1>4, <1>5, <1>8, <2>2, <2>3, <2>4 DEF GateInv
<1>9. CASE Freed # {}
  <2>1. done[m]
    BY <1>6, <1>9 DEF Freed
  <2>2. owner[m] \in Players
    BY <2>1 DEF OwnerInv, TypeOK
  <2>3. me[owner[m]].leave
    BY <2>1, <2>2 DEF OwnerInv
  <2>4. Finishers' = {owner[m]}
    BY <1>3, <1>7, <2>2, <2>3
  <2>5. IsFiniteSet(Finishers') /\ Cardinality(Finishers') = 1
    BY <2>4, FS_Singleton
  <2>6. msgOrder' + Cardinality(Finishers') = 1
    BY <1>1, <1>4, <1>9, <2>5
  <2>7. \A p \in Players : ~SlotOver(p)'
    BY <1>2
  <2> QED BY <1>1, <1>5, <2>5, <2>6, <2>7 DEF GateInv
<1> QED BY <1>8, <1>9

\* The master's other steps neither move the gate nor make or miss a finisher.
LEMMA GateMaster ==
  ASSUME BasicInv, BasicMaster, ~BasicDrain
  PROVE  GateInv'
<1> USE DEF BasicInv, ClawInv
<1>1. UNCHANGED <<me, ppc, msgOrder, talked, owner>>
  BY DEF BasicMaster, BasicRelease, Collect, CollectAll, Final, CollectLast, hall
<1>2. \A p \in Players : SlotOver(p)' <=> SlotOver(p)
  <2>1. CASE BasicRelease
    BY <2>1 DEF BasicRelease, SlotOver, TurnInv, Rested
  <2>2. CASE Collect
    <3>1. \A p \in Players : doneSem[p] = 1
      BY <2>2 DEF Collect, CollectAll, TypeOK
    <3> QED BY <2>2, <3>1 DEF Collect, CollectAll, SlotOver
  <2>3. CASE Final \/ CollectLast
    BY <2>3 DEF Final, CollectLast, CollectAll, SlotOver
  <2> QED BY <2>1, <2>2, <2>3 DEF BasicMaster
<1>3. Finishers' = Finishers
  BY <1>1, <1>2 DEF Finishers
<1> QED BY <1>1, <1>2, <1>3 DEF GateInv

\* A player that prints its finish line opens the gate it was closed for.
LEMMA GateAnnounce ==
  ASSUME BasicInv, NEW p \in Players, BasicAnnounce(p)
  PROVE  GateInv'
<1> USE DEF BasicInv, ClawInv
<1>1. PlayerStep(p) /\ AnnounceStep(p)
  <2>1. PlayerStep(p) /\ ppc[p] = "gate"
    BY BasicPlayerIsStep DEF BasicPlayer, BasicAnnounce
  <2>2. AnnounceStep(p)
    BY BasicAnnounceIsStep
  <2> QED BY <2>1, <2>2
<1>2. p \in Finishers
  BY <1>1, FreshTurn DEF Finishers, AnnounceStep
<1>3. Finishers = {p} /\ msgOrder = 0
  <2>1. msgOrder \in Nat /\ Cardinality(Finishers) \in Nat /\ Cardinality(Finishers) # 0
    BY <1>2, FS_CardinalityType, FS_EmptySet DEF GateInv, TypeOK
  <2>2. Cardinality(Finishers) = 1 /\ msgOrder = 0
    BY <2>1 DEF GateInv
  <2>3. \E x : Finishers = {x}
    BY <2>2, FS_Singleton DEF GateInv
  <2> QED BY <1>2, <2>2, <2>3
<1>4. /\ \A q \in Players : q # p => me'[q] = me[q] /\ (SlotOver(q)' <=> SlotOver(q))
      /\ ~me'[p].leave /\ msgOrder' = msgOrder + 1 /\ owner' = owner
  BY <1>1, FreshTurn DEF AnnounceStep, Others, hall
<1>5. Finishers' = {}
  BY <1>3, <1>4 DEF Finishers
<1>6. IsFiniteSet(Finishers') /\ msgOrder' + Cardinality(Finishers') = 1
  <2>1. IsFiniteSet(Finishers') /\ Cardinality(Finishers') = 0
    BY <1>5, FS_EmptySet
  <2> QED BY <1>3, <1>4, <2>1
<1>7. \A q \in Players : me'[q].leave /\ SlotOver(q)' =>
        me'[q].machine \in Machines /\ owner'[me'[q].machine] = q
  BY <1>4 DEF GateInv
<1> QED BY <1>5, <1>6, <1>7 DEF GateInv

\* Nobody else touches the gate; nobody comes past it, talks or finishes while it
\* is closed.
LEMMA GatePlayer ==
  ASSUME BasicInv, NEW p \in Players, BasicPlayer(p), ~BasicAnnounce(p)
  PROVE  GateInv'
<1> USE DEF BasicInv, ClawInv
<1>1. PlayerStep(p)
  BY BasicPlayerIsStep
<1>2. /\ \A q \in Players : q # p => /\ me'[q] = me[q] /\ ppc'[q] = ppc[q]
                                     /\ (SlotOver(q)' <=> SlotOver(q))
      /\ ~SlotOver(p)
  BY <1>1, LocalsStep, FreshTurn, OnlyInSlot
<1>3. msgOrder' = msgOrder
  BY DEF BasicPlayer, Wake, PassGate, Seat, TakeFree, TakeGiven, Sit, FindAllTaken, StayOn,
         SitOut, JoinQueue, Play, BasicReport, sems
<1>4. \A m \in Machines : owner[m] \in Players => owner'[m] = owner[m]
  <2>1. ASSUME TakeFree(p) \/ TakeGiven(p)
        PROVE  \A m \in Machines : owner[m] \in Players => owner'[m] = owner[m]
    <3>1. PICK n \in Machines : /\ owner' = [owner EXCEPT ![n] = p]
                                /\ owner[n] = NoPlayer \/ owner[n] = p
      BY <2>1, SitsDown DEF Sit
    <3> QED BY <3>1, ClawAssumption DEF TypeOK
  <2>2. ~(TakeFree(p) \/ TakeGiven(p)) => owner' = owner
    BY DEF BasicPlayer, Wake, PassGate, Seat, FindAllTaken, StayOn, SitOut, JoinQueue, Play,
           BasicReport, hall
  <2> QED BY <2>1, <2>2
<1> DEFINE Past == talked \/ \E q \in Players : ppc[q] \in {"seat", "enqueue", "play", "report"}
           Fine == /\ (p \in Finishers)' <=> p \in Finishers
                   /\ talked' => Past \/ Finishers = {}
                   /\ ppc'[p] \in {"seat", "enqueue", "play", "report"} =>
                        Past \/ Finishers = {}
                   /\ (me[p].leave /\ SlotOver(p))' =>
                        me'[p].machine \in Machines /\ owner'[me'[p].machine] = p
<1>5. Past => Finishers = {}
  BY DEF GateInv
<1>6. Fine
  <2> HIDE DEF Past
  <2>1. CASE Wake(p)
    <3>1. ppc'[p] = "gate" /\ UNCHANGED <<me, talked, doneSem, mpc>>
      BY <2>1 DEF Wake, Goto, TypeOK, master
    <3>2. ~SlotOver(p)'
      BY <1>2, <3>1 DEF SlotOver
    <3> QED BY <1>2, <3>1, <3>2 DEF Finishers, Past
  <2>2. CASE PassGate(p)
    <3>1. ~me[p].leave /\ UNCHANGED <<me, talked>> /\ msgOrder > 0
      BY <2>2 DEF PassGate
    <3>2. Finishers = {}
      <4>1. msgOrder \in Nat /\ Cardinality(Finishers) \in Nat /\ IsFiniteSet(Finishers)
        BY FS_CardinalityType DEF GateInv, TypeOK
      <4>2. Cardinality(Finishers) = 0
        BY <3>1, <4>1 DEF GateInv
      <4> QED BY <4>1, <4>2, FS_EmptySet
    <3> QED BY <3>1, <3>2 DEF Finishers
  <2>3. CASE Seat(p) \/ JoinQueue(p) \/ Play(p)
    <3>1. Past
      BY <2>3 DEF Past, Seat, TakeFree, FindAllTaken, TakeGiven, StayOn, SitOut, JoinQueue, Play
    <3>2. ~me[p].leave
      BY <2>3 DEF PlaceInv, Seat, TakeFree, FindAllTaken, TakeGiven, StayOn, SitOut, JoinQueue,
                  Play
    <3>3. ~me'[p].leave
      <4>1. CASE TakeFree(p) \/ TakeGiven(p)
        BY <3>2, <4>1, SitsDown, SitEffect
      <4>2. CASE JoinQueue(p)
        BY <3>2, <4>2, JoinEffect
      <4>3. CASE Play(p)
        BY <3>2, <4>3, PlayEffect
      <4>4. CASE FindAllTaken(p) \/ StayOn(p) \/ SitOut(p)
        BY <3>2, <4>4 DEF FindAllTaken, StayOn, SitOut
      <4> QED BY <2>3, <4>1, <4>2, <4>3, <4>4 DEF Seat
    <3> QED BY <3>1, <3>2, <3>3 DEF Finishers
  <2>4. CASE BasicReport(p)
    <3>1. ReportStep(p) /\ Past
      BY <2>4, BasicReportIsStep DEF BasicReport, Past
    <3>2. ~me[p].leave /\ me[p].machine # NoMachine
      BY <2>4 DEF PlaceInv, BasicReport
    <3>3. me[p].machine \in Machines /\ owner[me[p].machine] = p
      BY <3>2 DEF OwnerInv, TypeOK, Locals
    <3>4. me'[p].machine = me[p].machine /\ owner' = owner
      BY <3>1 DEF ReportStep, hall
    <3>5. SlotOver(p)'
      <4>1. /\ mpc = "collect" /\ doneSem[p] = 0 /\ mpc' = mpc
            /\ doneSem' = [doneSem EXCEPT ![p] = @ + 1]
        BY <1>1, <3>1, OnlyInSlot DEF ReportStep, TurnInv, InTurn, Called, FinishTurn, master
      <4> QED BY <4>1 DEF SlotOver, TypeOK
    <3> QED BY <3>1, <3>2, <3>3, <3>4, <3>5 DEF Finishers
  <2> QED BY <2>1, <2>2, <2>3, <2>4 DEF BasicPlayer
<1>7. Finishers' = Finishers
  <2>1. \A q \in Players : q # p => ((q \in Finishers)' <=> q \in Finishers)
    BY <1>2 DEF Finishers
  <2>2. Finishers \subseteq Players /\ Finishers' \subseteq Players
    BY DEF Finishers
  <2> QED BY <1>6, <2>1, <2>2
<1>8. (talked' => Finishers' = {})
      /\ \A q \in Players : ppc'[q] \in {"seat", "enqueue", "play", "report"} => Finishers' = {}
  BY <1>2, <1>5, <1>6, <1>7
<1>9. ASSUME NEW q \in Players, me'[q].leave, SlotOver(q)'
      PROVE  me'[q].machine \in Machines /\ owner'[me'[q].machine] = q
  <2>1. CASE q = p
    BY <1>6, <1>9, <2>1
  <2>2. CASE q # p
    <3>1. me'[q] = me[q] /\ me[q].machine \in Machines /\ owner[me[q].machine] = q
      BY <1>2, <1>9, <2>2 DEF GateInv
    <3> QED BY <1>4, <3>1
  <2> QED BY <2>1, <2>2
<1> QED BY <1>3, <1>7, <1>8, <1>9 DEF GateInv

LEMMA BasicStep ==
  ASSUME BasicInv, [BasicNext]_vars
  PROVE  BasicInv'
<1>1. CASE BasicMaster
  <2>1. ClawInv'
    BY <1>1, BasicMasterIsStep, ClawStep DEF BasicInv, AnyStep
  <2>2. GateInv'
    BY <1>1, GateDrain, GateMaster
  <2> QED BY <2>1, <2>2 DEF BasicInv
<1>2. ASSUME NEW p \in Players, BasicPlayer(p)
      PROVE  BasicInv'
  <2>1. ClawInv'
    BY <1>2, BasicPlayerIsStep, ClawStep DEF BasicInv, AnyStep
  <2>2. GateInv'
    BY <1>2, GateAnnounce, GatePlayer
  <2> QED BY <2>1, <2>2 DEF BasicInv
<1>3. CASE Exit \/ UNCHANGED vars
  <2>1. UNCHANGED vars
    BY <1>3 DEF Exit
  <2>2. ClawInv'
    BY <2>1, ClawStep DEF BasicInv
  <2>3. UNCHANGED <<mpc, doneSem, me, msgOrder, talked, ppc, owner>>
    BY <2>1 DEF vars, master, hall, sems
  <2> QED BY <2>2, <2>3 DEF BasicInv, GateInv, Finishers, SlotOver
<1> QED BY <1>1, <1>2, <1>3 DEF BasicNext

LEMMA BasicInvariant == BasicSpec => []BasicInv
<1>1. BasicInit => BasicInv
  <2> SUFFICES ASSUME BasicInit PROVE BasicInv
    OBVIOUS
  <2>1. ClawInv
    BY InitTurn, InitHall DEF BasicInit, ClawInv
  <2>2. Finishers = {} /\ msgOrder = 1 /\ \A p \in Players : ~me[p].leave
    BY DEF BasicInit, InitWith, Finishers
  <2>3. IsFiniteSet(Finishers) /\ Cardinality(Finishers) = 0
    BY <2>2, FS_EmptySet
  <2> QED BY <2>1, <2>2, <2>3 DEF BasicInv, GateInv
<1>2. BasicInv /\ [BasicNext]_vars => BasicInv'
  BY BasicStep
<1> QED BY <1>1, <1>2, PTL DEF BasicSpec

----------------------------------------------------------------------------
\* What the advanced program keeps of its types, its machine and its counts, the
\* basic program keeps as well, with already_line_up cleared one slot later.
THEOREM BasicHall ==
  BasicSpec => [](TypeOK /\ OnePlayerPerMachine /\ PrizesCounted /\ NoFreeMachineBesideQueue)
<1>1. BasicInv =>
        TypeOK /\ OnePlayerPerMachine /\ PrizesCounted /\ NoFreeMachineBesideQueue
  BY OneEach DEF BasicInv, ClawInv, QueueInv
<1> QED BY <1>1, BasicInvariant, PTL

\* The gate never leaks, for any number of players: when a slot begins it is open
\* exactly if nobody has a finish line to print, and at most one player has.
THEOREM GateAlwaysMatches == BasicSpec => []GateMatchesFinisher
<1>1. BasicInv => GateMatchesFinisher
  <2> SUFFICES ASSUME BasicInv, mpc = "release"
               PROVE  msgOrder + Cardinality({p \in Players : me[p].leave}) = 1
    BY DEF GateMatchesFinisher
  <2>1. Finishers = {p \in Players : me[p].leave}
    BY DEF Finishers, SlotOver
  <2> QED BY <2>1 DEF BasicInv, GateInv
<1> QED BY <1>1, BasicInvariant, PTL

\* In the basic program the comments about the gate are right: the finish line
\* of a slot is printed before any of its start and wait lines.
THEOREM FinishLineComesFirst == BasicSpec => FinishLinesFirst
<1> DEFINE First == \A p \in Players :
                      ppc[p] = "gate" /\ me[p].leave /\ ppc'[p] # "gate" => ~talked
<1>1. BasicInv /\ [BasicNext]_vars => [First]_vars
  <2> SUFFICES ASSUME BasicInv, NEW p \in Players, ppc[p] = "gate", me[p].leave
               PROVE  ~talked
    OBVIOUS
  <2>1. ~SlotOver(p)
    <3>1. TurnInv
      BY DEF BasicInv, ClawInv
    <3>2. InTurn(p)
      BY <3>1 DEF TurnInv, Called, InTurn, Through, Rested
    <3> QED BY <3>1, <3>2 DEF TurnInv, InTurn, Rested, SlotOver
  <2>2. p \in Finishers
    BY <2>1 DEF Finishers
  <2> QED BY <2>2 DEF BasicInv, GateInv
<1>2. []BasicInv /\ [][BasicNext]_vars => [][First]_vars
  BY <1>1, PTL
<1> QED BY <1>2, BasicInvariant, PTL DEF BasicSpec, FinishLinesFirst
=============================================================================
