------------------------- MODULE ClawMachineProofs -------------------------
(***************************************************************************)
(* Proofs about ClawMachine, for every number of players and machines and  *)
(* every input file: the type invariant, one player per machine, nobody    *)
(* lost, no free machine beside the queue, prizes counted once, the slots  *)
(* as a barrier and the order of the queue.                                *)
(*                                                                         *)
(* The invariant has five parts.  TurnInv is the barrier: between a post   *)
(* on a player's start semaphore and the wait on its done semaphore the    *)
(* player is in exactly one of "called", "in its turn", "through".         *)
(* RoundInv keeps the counters of a player above 0 while it plays.         *)
(* PlaceInv ties the place in the code to the player's locals, OwnerInv    *)
(* the locals to the machines, and QueueInv both to the queue.             *)
(***************************************************************************)
EXTENDS ClawMachine, FiniteSetTheorems, SequenceTheorems, TLAPS

Called(p)  == startSem[p] = 1 /\ doneSem[p] = 0 /\ ppc[p] = "asleep"
InTurn(p)  == startSem[p] = 0 /\ doneSem[p] = 0
              /\ ppc[p] \in {"gate", "seat", "enqueue", "play", "report"}
Through(p) == startSem[p] = 0 /\ doneSem[p] = 1 /\ ppc[p] \in {"asleep", "gone"}
Rested(p)  == startSem[p] = 0 /\ doneSem[p] = 0 /\ ppc[p] \in {"asleep", "gone"}

TurnInv ==
  /\ detach <=> mpc \in {"last", "complete"}
  /\ \A p \in Players :
       /\ mpc \in {"collect", "last"} => Called(p) \/ InTurn(p) \/ Through(p)
       /\ mpc \notin {"collect", "last"} => Rested(p)
       /\ ppc[p] = "gone" => detach
       /\ mpc = "last" => ppc[p] \in {"asleep", "gate", "gone"}

RoundInv ==
  \A p \in Players :
    /\ me[p].total = 0 => me[p].prize
    /\ me[p].once = 0 => ppc[p] = "report"
    /\ ppc[p] \in {"seat", "enqueue", "play"} => ~me[p].prize

PlaceInv ==
  \A p \in Players :
    /\ me[p].leave => ~Waiting(p)
    /\ ~me[p].leave /\ ~me[p].lineUp => me[p].machine = NoMachine
    /\ ppc[p] \in {"seat", "enqueue", "play", "report"} => ~me[p].leave
    /\ ppc[p] = "enqueue" => ~me[p].lineUp
    /\ ppc[p] \in {"play", "report"} => me[p].machine # NoMachine

\* The player's turn of this slot is over, and the machines not yet handed on.
SlotOver(p) == mpc = "drain" \/ (mpc = "collect" /\ doneSem[p] = 1)

\* The owner of a machine waits for it, plays it, or has just finished on it.
OwnerInv ==
  /\ \A m \in Machines : owner[m] = NoPlayer => ~playing[m] /\ ~done[m]
  /\ \A m \in Machines, p \in Players : owner[m] = p =>
       \/ Waiting(p) /\ ~playing[m] /\ ~done[m]
       \/ /\ me[p].machine = m /\ playing[m]
          /\ done[m] = me[p].leave
          /\ me[p].leave => SlotOver(p)
  /\ \A m, n \in Machines : owner[m] = owner[n] /\ owner[m] # NoPlayer => m = n
  /\ \A p \in Players : me[p].machine # NoMachine /\ ~me[p].leave =>
       owner[me[p].machine] = p

QueueInv ==
  /\ \A j, k \in DOMAIN queue : queue[j] = queue[k] => j = k
  /\ \A k \in DOMAIN queue : Waiting(queue[k]) /\ Given(queue[k]) = {}
  /\ \A p \in Players : Waiting(p) =>
       \/ \E k \in DOMAIN queue : queue[k] = p
       \/ Given(p) # {}
  /\ NoFreeMachineBesideQueue
  /\ \A p \in Players : ppc[p] = "enqueue" => Free = {}

----------------------------------------------------------------------------
(* The steps as far as the proofs need them.  The basic program (module        *)
(* ClawMachineBasic) takes them too: it differs in when the master posts and   *)
(* takes msg_order, and in where a player that leaves clears already_line_up.  *)

ReleaseStep ==
  /\ mpc = "release"
  /\ startSem' = [p \in Players |-> startSem[p] + 1]
  /\ msgOrder' \in {msgOrder, msgOrder + 1}
  /\ mpc' = "collect"
  /\ UNCHANGED <<input, timer, prevFinished, detach, count, hall, done, doneSem,
                 ppc, me, talked>>
DrainStep ==
  /\ mpc = "drain" /\ msgOrder > 0
  /\ msgOrder' \in {msgOrder, msgOrder - 1}
  /\ EndSlot
MasterStep == ReleaseStep \/ Collect \/ DrainStep \/ Final \/ CollectLast

Others(p) == me' \in [Players -> Locals] /\ \A q \in Players : q # p => me'[q] = me[q]
AnnounceStep(p) ==
  /\ ppc[p] = "gate" /\ me[p].leave
  /\ Others(p)
  /\ ~me'[p].leave /\ ~me'[p].lineUp /\ me'[p].machine = NoMachine
  /\ me'[p].prize = me[p].prize /\ me'[p].once = me[p].once /\ me'[p].total = me[p].total
  /\ msgOrder' = msgOrder + 1
  /\ AfterGate(p)
  /\ UNCHANGED <<input, master, count, hall, done, startSem, talked>>
ReportStep(p) ==
  /\ ppc[p] = "report"
  /\ done' = [done EXCEPT ![me[p].machine] = Ended(p)]
  /\ finished' = CountPrize(p)
  /\ Others(p)
  /\ (me'[p].leave <=> Ended(p)) /\ (me'[p].lineUp \/ Ended(p))
  /\ me'[p].machine = me[p].machine
  /\ me'[p].prize = me[p].prize /\ me'[p].total = me[p].total /\ me'[p].once # 0
  /\ FinishTurn(p, "asleep")
  /\ UNCHANGED <<input, master, guarantee, hall, msgOrder, startSem, talked>>
PlayerStep(p) == \/ Wake(p) \/ AnnounceStep(p) \/ PassGate(p) \/ Seat(p)
                 \/ JoinQueue(p) \/ Play(p) \/ ReportStep(p)
AnyStep == MasterStep \/ (\E p \in Players : PlayerStep(p)) \/ Exit

----------------------------------------------------------------------------
(* Operators: the least element, and the rank of a freed machine *)

\* Min names an element of every non-empty set of naturals.
LEMMA MinIsMember ==
  ASSUME NEW S, S \subseteq Nat, S # {}
  PROVE  Min(S) \in S
<1>1. PICK x \in S : \A y \in S : ~ (<<y, x>> \in OpToRel(<, Nat))
  BY WFMin, NatLessThanWellFounded
<1>2. \A y \in S : ~(y < x)
  BY <1>1 DEF OpToRel
<1>3. \A y \in S : x <= y
  BY <1>2
<1> QED BY <1>3 DEF Min

\* The ranks of the freed machines are the numbers 1..Cardinality(Freed), each
\* once.
LEMMA Ranks ==
  ASSUME TypeOK
  PROVE  /\ IsFiniteSet(Freed) /\ Cardinality(Freed) \in Nat
         /\ \A m \in Freed : Rank(m) \in 1..Cardinality(Freed)
         /\ \A m, n \in Freed : Rank(m) = Rank(n) => m = n
         /\ \A r \in 1..Cardinality(Freed) : \E m \in Freed : Rank(m) = r
<1> DEFINE Upto(m) == {k \in Freed : k <= m}
           C == Cardinality(Freed)
           f == [m \in Freed |-> Rank(m)]
<1>1. IsFiniteSet(Freed) /\ Freed \subseteq Nat
  BY ClawAssumption, FS_Subset DEF Freed
<1>2. C \in Nat
  BY <1>1, FS_CardinalityType
<1>3. \A m \in Freed : IsFiniteSet(Upto(m)) /\ Cardinality(Upto(m)) \in Nat
                       /\ Cardinality(Upto(m)) <= C
  <2> TAKE m \in Freed
  <2>1. Upto(m) \in SUBSET Freed
    OBVIOUS
  <2>2. IsFiniteSet(Upto(m)) /\ Cardinality(Upto(m)) <= C
    BY <2>1, <1>1, FS_Subset
  <2> QED BY <2>2, FS_CardinalityType
<1>4. \A m \in Freed : Rank(m) \in 1..C
  <2> TAKE m \in Freed
  <2>1. m \in Upto(m)
    BY <1>1
  <2>2. Cardinality(Upto(m)) # 0
    BY <2>1, <1>3, FS_EmptySet
  <2> QED BY <2>2, <1>2, <1>3 DEF Rank
<1>5. \A m, n \in Freed : m < n => Rank(m) # Rank(n)
  <2> SUFFICES ASSUME NEW m \in Freed, NEW n \in Freed, m < n, Rank(m) = Rank(n)
               PROVE  FALSE
    OBVIOUS
  <2>0. \A k \in Freed : k <= m => k <= n
    BY <1>1
  <2>1. Upto(m) \in SUBSET Upto(n)
    BY <2>0
  <2>2. Upto(m) = Upto(n)
    BY <2>1, <1>3, FS_Subset DEF Rank
  <2>3. n \in Upto(n) /\ n \notin Upto(m)
    BY <1>1
  <2> QED BY <2>2, <2>3
<1>6. \A m, n \in Freed : Rank(m) = Rank(n) => m = n
  <2> SUFFICES ASSUME NEW m \in Freed, NEW n \in Freed, Rank(m) = Rank(n)
               PROVE  m = n
    OBVIOUS
  <2>1. ~(m < n) /\ ~(n < m)
    BY <1>5
  <2> QED BY <2>1, <1>1
<1>7. f \in Injection(Freed, 1..C)
  <2>1. f \in [Freed -> 1..C]
    BY <1>4
  <2>2. \A m, n \in Freed : f[m] = f[n] => m = n
    BY <1>6
  <2> QED BY <2>1, <2>2 DEF Injection, IsInjective
<1>8. IsFiniteSet(1..C) /\ Cardinality(1..C) = C
  BY <1>2, FS_Interval
<1>9. f \in Surjection(Freed, 1..C)
  BY <1>7, <1>8, FS_Injection
<1>10. \A r \in 1..C : \E m \in Freed : f[m] = r
  BY <1>9 DEF Surjection
<1> QED BY <1>1, <1>2, <1>4, <1>6, <1>10

----------------------------------------------------------------------------
(* What each step does to the locals of the player that takes it *)

LEMMA AnnounceEffect ==
  ASSUME NEW p \in Players, AnnounceStep(p)
  PROVE  /\ me' \in [Players -> Locals] /\ \A q \in Players : q # p => me'[q] = me[q]
         /\ ~me'[p].leave /\ me'[p].machine = NoMachine /\ ~me'[p].lineUp
         /\ me'[p].prize = me[p].prize
         /\ me'[p].once = me[p].once /\ me'[p].total = me[p].total
BY DEF AnnounceStep, Others

LEMMA SitEffect ==
  ASSUME TypeOK, NEW p \in Players, NEW m \in Machines, Sit(p, m)
  PROVE  /\ me' \in [Players -> Locals] /\ \A q \in Players : q # p => me'[q] = me[q]
         /\ me'[p].lineUp /\ me'[p].machine = m
         /\ me'[p].leave = me[p].leave /\ me'[p].prize = me[p].prize
         /\ me'[p].once = me[p].once /\ me'[p].total = me[p].total
BY DEF TypeOK, Sit, Locals, NoMachine

LEMMA JoinEffect ==
  ASSUME TypeOK, NEW p \in Players, JoinQueue(p)
  PROVE  /\ me' \in [Players -> Locals] /\ \A q \in Players : q # p => me'[q] = me[q]
         /\ me'[p].lineUp /\ me'[p].machine = me[p].machine
         /\ me'[p].leave = me[p].leave /\ me'[p].prize = me[p].prize
         /\ me'[p].once = me[p].once /\ me'[p].total = me[p].total
BY DEF TypeOK, JoinQueue, Locals, NoMachine

LEMMA PlayEffect ==
  ASSUME TypeOK, RoundInv, NEW p \in Players, Play(p)
  PROVE  /\ me' \in [Players -> Locals] /\ \A q \in Players : q # p => me'[q] = me[q]
         /\ me'[p].lineUp = me[p].lineUp /\ me'[p].machine = me[p].machine
         /\ me'[p].leave = me[p].leave
         /\ me'[p].total = 0 => me'[p].prize
         /\ guarantee' \in 1..input.guarantee
<1>1. ~me[p].prize /\ me[p].total # 0 /\ me[p].once # 0
  BY DEF Play, RoundInv
<1>2. me[p].total - 1 \in Nat /\ me[p].once - 1 \in Nat
  BY <1>1 DEF TypeOK, Locals
<1> DEFINE left == me[p].total - 1
           won == guarantee - 1 = 0 \/ left = 0
<1>3. /\ me' = [me EXCEPT ![p].once = @ - 1, ![p].total = left, ![p].prize = won]
      /\ guarantee' = IF won THEN input.guarantee ELSE guarantee - 1
  BY DEF Play
<1>4. guarantee' \in 1..input.guarantee
  <2>1. input.guarantee \in Nat \ {0} /\ guarantee \in 1..input.guarantee
    BY ClawAssumption DEF TypeOK
  <2> QED BY <2>1, <1>3
<1>5. won \in BOOLEAN /\ left \in Nat /\ (left = 0 => won)
  BY <1>2
<1> HIDE DEF left, won
<1> DEFINE spent == me[p].once - 1
<1>6. me' = [me EXCEPT ![p].once = spent, ![p].total = left, ![p].prize = won]
  BY <1>3 DEF TypeOK
<1>7. spent \in Nat
  BY <1>2
<1> DEFINE now == [me[p] EXCEPT !.once = spent, !.total = left, !.prize = won]
<1>9. me' = [me EXCEPT ![p] = now]
  BY <1>6
<1>10. me[p] \in Locals
  BY DEF TypeOK
<1> HIDE DEF spent
<1>11. /\ now \in Locals
       /\ now.lineUp = me[p].lineUp /\ now.machine = me[p].machine
       /\ now.leave = me[p].leave /\ now.total = left /\ now.prize = won
  BY <1>5, <1>7, <1>10 DEF Locals
<1> HIDE DEF now
<1>12. /\ me' \in [Players -> Locals] /\ \A q \in Players : q # p => me'[q] = me[q]
      /\ me'[p].lineUp = me[p].lineUp /\ me'[p].machine = me[p].machine
      /\ me'[p].leave = me[p].leave
      /\ me'[p].total = left /\ me'[p].prize = won
  BY <1>9, <1>11 DEF TypeOK
<1> QED BY <1>4, <1>5, <1>12

LEMMA ReportEffect ==
  ASSUME NEW p \in Players, ReportStep(p)
  PROVE  /\ me' \in [Players -> Locals] /\ \A q \in Players : q # p => me'[q] = me[q]
         /\ me'[p].machine = me[p].machine
         /\ (me'[p].leave <=> Ended(p)) /\ (me'[p].lineUp \/ Ended(p))
         /\ me'[p].prize = me[p].prize /\ me'[p].total = me[p].total
         /\ me'[p].once # 0
BY DEF ReportStep, Others

----------------------------------------------------------------------------
(* The barrier, the counters and the types *)

\* Whatever the value of msg_order before the first slot.
LEMMA InitTurn ==
  ASSUME NEW gate \in Nat, InitWith(gate)
  PROVE  TypeOK /\ TurnInv /\ RoundInv /\ PrizesCounted
<1> USE DEF InitWith
<1>1. input \in Inputs /\ input.guarantee \in Nat \ {0}
      /\ input.player \in [Players -> Row]
  BY ClawAssumption
<1>2. \A p \in Players : /\ input.player[p].arrive \in Nat
                         /\ input.player[p].once \in Nat \ {0}
                         /\ input.player[p].total \in Nat \ {0}
  BY <1>1 DEF Row
<1>3. timer \in Nat
  <2> DEFINE S == {input.player[p].arrive : p \in Players}
  <2>1. S \subseteq Nat
    BY <1>2
  <2>4. PICK p \in Players : TRUE
    BY ClawAssumption
  <2>5. input.player[p].arrive \in S
    BY <2>4
  <2>2. S # {}
    BY <2>5
  <2>3. Min(S) \in S
    BY <2>1, <2>2, MinIsMember
  <2> QED BY <2>1, <2>3
<1>4. me \in [Players -> Locals]
  BY <1>2 DEF Locals
<1>5. \A p \in Players : ~me[p].prize /\ me[p].total # 0 /\ me[p].once # 0
  BY <1>2
<1>6. {p \in Players : me[p].prize /\ ppc[p] # "report"} = {}
  BY <1>5
<1>7. PrizesCounted
  BY <1>5, <1>6, FS_EmptySet DEF PrizesCounted
<1>8. finished \in 0..Cardinality(Players)
  BY ClawAssumption, FS_CardinalityType
<1>9. TypeOK
  <2>1. /\ startSem \in [Players -> 0..1] /\ doneSem \in [Players -> 0..1]
        /\ ppc \in [Players -> {"asleep", "gate", "seat", "enqueue", "play", "report",
                                "gone"}]
        /\ owner \in [Machines -> Players \cup {NoPlayer}]
        /\ playing \in [Machines -> BOOLEAN] /\ done \in [Machines -> BOOLEAN]
    OBVIOUS
  <2>2. /\ mpc = "release"
        /\ prevFinished \in BOOLEAN /\ detach \in BOOLEAN /\ talked \in BOOLEAN
        /\ queue = <<>> /\ msgOrder = gate /\ guarantee = input.guarantee
    OBVIOUS
  <2> HIDE DEF InitWith
  <2>3. guarantee \in 1..input.guarantee
    BY <1>1, <2>2
  <2>4. queue \in Seq(Players) /\ msgOrder \in Nat
    BY <2>2
  <2> QED BY <1>1, <1>3, <1>4, <1>8, <2>1, <2>2, <2>3, <2>4, Zenon DEF TypeOK
<1>10. TurnInv
  <2>1. detach = FALSE /\ mpc = "release"
    OBVIOUS
  <2>2. \A p \in Players : Rested(p) /\ ppc[p] = "asleep"
    BY DEF Rested
  <2> HIDE DEF InitWith
  <2>3. detach <=> mpc \in {"last", "complete"}
    BY <2>1
  <2>4. mpc \notin {"collect", "last"}
    BY <2>1
  <2>5. \A p \in Players : ppc[p] # "gone" /\ Rested(p)
    BY <2>2
  <2>6. mpc # "last"
    BY <2>1
  <2> QED BY <2>3, <2>4, <2>5, <2>6 DEF TurnInv
<1>11. RoundInv
  BY <1>5 DEF RoundInv
<1> QED BY <1>7, <1>9, <1>10, <1>11

\* A step of the master keeps the barrier, and moves the clock only when every
\* player has finished its turn.
LEMMA TurnMaster ==
  ASSUME TypeOK, TurnInv, MasterStep
  PROVE  /\ TurnInv'
         /\ startSem' \in [Players -> 0..1] /\ doneSem' \in [Players -> 0..1]
         /\ me' = me /\ ppc' = ppc
<1> USE DEF TypeOK, TurnInv, Called, InTurn, Through, Rested
<1>1. CASE ReleaseStep
  BY <1>1 DEF ReleaseStep
<1>2. CASE Collect
  BY <1>2 DEF Collect, CollectAll
<1>3. CASE DrainStep
  BY <1>3 DEF DrainStep, EndSlot
<1>4. CASE Final
  BY <1>4 DEF Final
<1>5. CASE CollectLast
  BY <1>5 DEF CollectLast, CollectAll
<1> QED BY <1>1, <1>2, <1>3, <1>4, <1>5 DEF MasterStep

\* Whoever takes a step was called or is in its turn, and the master waits.
LEMMA OnlyInSlot ==
  ASSUME TypeOK, TurnInv, NEW p \in Players, PlayerStep(p)
  PROVE  /\ mpc \in {"collect", "last"} /\ UNCHANGED <<input, master>>
         /\ Called(p) \/ InTurn(p)
         /\ \A q \in Players : q # p =>
              startSem'[q] = startSem[q] /\ doneSem'[q] = doneSem[q] /\ ppc'[q] = ppc[q]
<1>1. Called(p) \/ InTurn(p)
  BY DEF TypeOK, TurnInv, Called, InTurn, Through, Rested, PlayerStep, Wake, AnnounceStep,
         PassGate, Seat, TakeFree, FindAllTaken, TakeGiven, StayOn, SitOut, JoinQueue,
         Play, ReportStep
<1>2. mpc \in {"collect", "last"}
  BY <1>1 DEF TurnInv, Called, InTurn, Rested
<1>3. UNCHANGED <<input, master>>
  BY DEF PlayerStep, Wake, AnnounceStep, PassGate, Seat, Sit, TakeFree, FindAllTaken,
         TakeGiven, StayOn, SitOut, JoinQueue, Play, ReportStep, master
<1>4. \A q \in Players : q # p =>
        startSem'[q] = startSem[q] /\ doneSem'[q] = doneSem[q] /\ ppc'[q] = ppc[q]
  BY DEF TypeOK, PlayerStep, Wake, AnnounceStep, PassGate, AfterGate, Seat, Sit, TakeFree,
         FindAllTaken, TakeGiven, StayOn, SitOut, JoinQueue, Play, ReportStep, Goto,
         FinishTurn, sems
<1> QED BY <1>1, <1>2, <1>3, <1>4

\* Every step of a player moves it on in its turn, or ends the turn.
LEMMA TurnPlayer ==
  ASSUME TypeOK, TurnInv, NEW p \in Players, PlayerStep(p)
  PROVE  /\ TurnInv'
         /\ startSem' \in [Players -> 0..1] /\ doneSem' \in [Players -> 0..1]
         /\ ppc' \in [Players -> {"asleep", "gate", "seat", "enqueue", "play",
                                  "report", "gone"}]
<1> DEFINE Fine == /\ InTurn(p)' \/ Through(p)'
                   /\ ppc'[p] = "gone" => detach
                   /\ mpc = "last" => ppc'[p] \in {"asleep", "gate", "gone"}
                   /\ startSem' \in [Players -> 0..1] /\ doneSem' \in [Players -> 0..1]
                   /\ ppc' \in [Players -> {"asleep", "gate", "seat", "enqueue",
                                            "play", "report", "gone"}]
<1>1. Fine
  <2> USE DEF TypeOK, Called, InTurn, Through, Goto, FinishTurn, sems
  <2>1. Called(p) \/ InTurn(p)
    BY OnlyInSlot
  <2>2. CASE Wake(p)
    BY <2>1, <2>2 DEF Wake
  <2>3. CASE AnnounceStep(p)
    <3>1. AfterGate(p) /\ startSem' = startSem /\ ppc[p] = "gate"
      BY <2>3 DEF AnnounceStep
    <3> QED BY <2>1, <3>1 DEF AfterGate, TurnInv
  <2>4. CASE PassGate(p)
    BY <2>1, <2>4 DEF PassGate, AfterGate, TurnInv
  <2>5. CASE Seat(p)
    <3>1. /\ startSem' = startSem /\ ppc[p] = "seat"
          /\ \/ doneSem' = doneSem /\ (Goto(p, "play") \/ Goto(p, "enqueue"))
             \/ FinishTurn(p, "asleep")
      BY <2>5 DEF Seat, TakeFree, FindAllTaken, TakeGiven, Sit, StayOn, SitOut
    <3> QED BY <2>1, <3>1 DEF TurnInv
  <2>6. CASE JoinQueue(p)
    BY <2>1, <2>6 DEF JoinQueue, TurnInv
  <2>7. CASE Play(p)
    BY <2>1, <2>7 DEF Play, TurnInv
  <2>8. CASE ReportStep(p)
    BY <2>1, <2>8 DEF ReportStep, TurnInv
  <2> QED BY <2>2, <2>3, <2>4, <2>5, <2>6, <2>7, <2>8 DEF PlayerStep
<1>2. TurnInv'
  BY <1>1, OnlyInSlot DEF TurnInv, Called, InTurn, Through, master
<1> QED BY <1>1, <1>2

\* A player sits down at a machine that nobody owns, or at its own.
LEMMA SitsDown ==
  ASSUME NEW p \in Players, TakeFree(p) \/ TakeGiven(p)
  PROVE  \E m \in Machines : /\ Sit(p, m) /\ ppc[p] = "seat"
                             /\ \/ TakeFree(p) /\ owner[m] = NoPlayer
                                \/ TakeGiven(p) /\ owner[m] = p
<1>1. CASE TakeFree(p)
  <2>1. Min(Free) \in Free
    BY <1>1, MinIsMember, ClawAssumption DEF TakeFree, Free
  <2> QED BY <2>1, <1>1 DEF TakeFree, Free
<1>2. CASE TakeGiven(p)
  BY <1>2 DEF TakeGiven, Given
<1> QED BY <1>1, <1>2

\* PlayerStep(p) leaves the locals of p alone, or is one of the five steps above.
LEMMA LocalsStep ==
  ASSUME TypeOK, RoundInv, NEW p \in Players, PlayerStep(p)
  PROVE  me' \in [Players -> Locals] /\ \A q \in Players : q # p => me'[q] = me[q]
<1>1. CASE me' = me
  BY <1>1 DEF TypeOK
<1>2. CASE AnnounceStep(p)
  BY <1>2, AnnounceEffect
<1>3. CASE \E m \in Machines : Sit(p, m)
  BY <1>3, SitEffect
<1>4. CASE JoinQueue(p)
  BY <1>4, JoinEffect
<1>5. CASE Play(p)
  BY <1>5, PlayEffect
<1>6. CASE ReportStep(p)
  BY <1>6, ReportEffect
<1>7. CASE TakeFree(p) \/ TakeGiven(p)
  BY <1>7, <1>3, SitsDown
<1> QED BY <1>1, <1>2, <1>4, <1>5, <1>6, <1>7
        DEF PlayerStep, Wake, PassGate, Seat, FindAllTaken, StayOn, SitOut

LEMMA RoundMaster ==
  ASSUME TypeOK, TurnInv, RoundInv, PlaceInv, PrizesCounted, MasterStep
  PROVE  RoundInv' /\ PlaceInv' /\ PrizesCounted'
<1>1. me' = me /\ ppc' = ppc
  BY TurnMaster
<1>2. finished' = finished
  BY DEF MasterStep, ReleaseStep, Collect, CollectAll, DrainStep, EndSlot, Final, CollectLast, count
<1> QED BY <1>1, <1>2 DEF RoundInv, PlaceInv, Waiting, PrizesCounted

\* A player's counters never reach 0 without a prize, or a report to follow.
LEMMA RoundPlayer ==
  ASSUME TypeOK, RoundInv, NEW p \in Players, PlayerStep(p),
         \A q \in Players : q # p => ppc'[q] = ppc[q]
  PROVE  RoundInv'
<1> DEFINE Fine == /\ me'[p].total = 0 => me'[p].prize
                   /\ me'[p].once = 0 => ppc'[p] = "report"
                   /\ ppc'[p] \in {"seat", "enqueue", "play"} => ~me'[p].prize
<1>1. \A q \in Players : q # p => me'[q] = me[q]
  BY LocalsStep
<1>2. Fine
  <2> USE DEF TypeOK, Goto, FinishTurn, RoundInv
  <2>1. CASE Wake(p)
    BY <2>1 DEF Wake
  <2>2. CASE AnnounceStep(p)
    <3>1. AfterGate(p) /\ ppc[p] = "gate"
      BY <2>2 DEF AnnounceStep
    <3> QED BY <2>2, <3>1, AnnounceEffect DEF AfterGate
  <2>3. CASE PassGate(p)
    BY <2>3 DEF PassGate, AfterGate
  <2>4. ASSUME NEW m \in Machines, Sit(p, m), ppc[p] = "seat"  PROVE Fine
    <3>1. ppc' = [ppc EXCEPT ![p] = "play"]
      BY <2>4 DEF Sit
    <3> QED BY <2>4, <3>1, SitEffect
  <2>5. CASE TakeFree(p) \/ TakeGiven(p)
    BY <2>4, <2>5, SitsDown
  <2>7. CASE FindAllTaken(p) \/ StayOn(p) \/ SitOut(p)
    BY <2>7 DEF FindAllTaken, StayOn, SitOut
  <2>8. CASE JoinQueue(p)
    BY <2>8, JoinEffect DEF JoinQueue
  <2>9. CASE Play(p)
    <3>1. ppc' = [ppc EXCEPT ![p] = "report"]
      BY <2>9 DEF Play
    <3> QED BY <2>9, <3>1, PlayEffect
  <2>10. CASE ReportStep(p)
    <3>1. ppc' = [ppc EXCEPT ![p] = "asleep"] /\ ppc[p] = "report"
      BY <2>10 DEF ReportStep
    <3> QED BY <2>10, <3>1, ReportEffect
  <2> QED BY <2>1, <2>2, <2>3, <2>5, <2>7, <2>8, <2>9, <2>10 DEF PlayerStep, Seat
<1> QED BY <1>1, <1>2 DEF RoundInv

\* A player's place and its locals agree.
LEMMA PlacePlayer ==
  ASSUME TypeOK, RoundInv, PlaceInv, NEW p \in Players, PlayerStep(p),
         \A q \in Players : q # p => ppc'[q] = ppc[q]
  PROVE  PlaceInv'
<1> DEFINE Fine ==
      /\ me'[p].leave => ~(me'[p].lineUp /\ me'[p].machine = NoMachine)
      /\ ~me'[p].leave /\ ~me'[p].lineUp => me'[p].machine = NoMachine
      /\ ppc'[p] \in {"seat", "enqueue", "play", "report"} => ~me'[p].leave
      /\ ppc'[p] = "enqueue" => ~me'[p].lineUp
      /\ ppc'[p] \in {"play", "report"} => me'[p].machine # NoMachine
<1>1. \A q \in Players : q # p => me'[q] = me[q]
  BY LocalsStep
<1>2. Fine
  <2> USE DEF TypeOK, Goto, FinishTurn, PlaceInv, Waiting
  <2>1. CASE Wake(p)
    BY <2>1 DEF Wake
  <2>2. CASE AnnounceStep(p)
    <3>1. AfterGate(p) /\ ppc[p] = "gate" /\ me[p].leave
      BY <2>2 DEF AnnounceStep
    <3> QED BY <2>2, <3>1, AnnounceEffect DEF AfterGate
  <2>3. CASE PassGate(p)
    BY <2>3 DEF PassGate, AfterGate
  <2>4. ASSUME NEW m \in Machines, Sit(p, m), ppc[p] = "seat"  PROVE Fine
    <3>1. ppc' = [ppc EXCEPT ![p] = "play"]
      BY <2>4 DEF Sit
    <3> QED BY <2>4, <3>1, SitEffect, ClawAssumption
  <2>5. CASE TakeFree(p) \/ TakeGiven(p)
    BY <2>4, <2>5, SitsDown
  <2>7. CASE FindAllTaken(p) \/ StayOn(p) \/ SitOut(p)
    BY <2>7 DEF FindAllTaken, StayOn, SitOut
  <2>8. CASE JoinQueue(p)
    BY <2>8, JoinEffect DEF JoinQueue
  <2>9. CASE Play(p)
    <3>1. ppc' = [ppc EXCEPT ![p] = "report"] /\ ppc[p] = "play"
      BY <2>9 DEF Play
    <3> QED BY <2>9, <3>1, PlayEffect
  <2>10. CASE ReportStep(p)
    <3>1. ppc' = [ppc EXCEPT ![p] = "asleep"] /\ ppc[p] = "report"
      BY <2>10 DEF ReportStep
    <3> QED BY <2>10, <3>1, ReportEffect
  <2> QED BY <2>1, <2>2, <2>3, <2>5, <2>7, <2>8, <2>9, <2>10 DEF PlayerStep, Seat
<1> QED BY <1>1, <1>2 DEF PlaceInv, Waiting

\* A prize is counted by the report that follows it, and only there.
LEMMA CountPlayer ==
  ASSUME TypeOK, TurnInv, RoundInv, PrizesCounted, NEW p \in Players, PlayerStep(p)
  PROVE  PrizesCounted'
<1> DEFINE Got == {q \in Players : me[q].prize /\ ppc[q] # "report"}
<1>1. \A q \in Players : q # p => me'[q] = me[q] /\ ppc'[q] = ppc[q]
  BY LocalsStep, OnlyInSlot
<1>2. RoundInv'
  BY <1>1, RoundPlayer
<1>3. IsFiniteSet(Got) /\ finished = Cardinality(Got)
  BY ClawAssumption, FS_Subset DEF PrizesCounted
<1>4. CASE ReportStep(p)
  <2>1. ppc[p] = "report" /\ ppc' = [ppc EXCEPT ![p] = "asleep"]
    BY <1>4 DEF ReportStep, FinishTurn, Goto
  <2>2. p \notin Got /\ ppc'[p] = "asleep" /\ (me'[p].prize <=> me[p].prize)
    BY <2>1, <1>4, ReportEffect DEF TypeOK
  <2>3. finished' = IF me[p].prize THEN finished + 1 ELSE finished
    BY <1>4 DEF ReportStep, CountPrize
  <2>4. CASE me[p].prize
    <3>1. Got' = Got \cup {p}
      BY <1>1, <2>2, <2>4
    <3> QED BY <3>1, <2>2, <2>3, <2>4, <1>2, <1>3, FS_AddElement DEF PrizesCounted, RoundInv
  <2>5. CASE ~me[p].prize
    <3>1. Got' = Got
      BY <1>1, <2>2, <2>5
    <3> QED BY <3>1, <2>3, <2>5, <1>2, <1>3 DEF PrizesCounted, RoundInv
  <2> QED BY <2>4, <2>5
<1>5. CASE ~ReportStep(p)
  <2>1. finished' = finished
    BY <1>5 DEF PlayerStep, Wake, AnnounceStep, PassGate, Seat, Sit, TakeFree, FindAllTaken,
           TakeGiven, StayOn, SitOut, JoinQueue, Play, count
  <2>2. (p \in Got) <=> (p \in Got')
    <3> USE DEF TypeOK, Goto, FinishTurn
    <3>1. CASE Wake(p)
      BY <3>1 DEF Wake
    <3>2. CASE AnnounceStep(p)
      <4>1. AfterGate(p) /\ ppc[p] = "gate"
        BY <3>2 DEF AnnounceStep
      <4> QED BY <3>2, <4>1, AnnounceEffect DEF AfterGate
    <3>3. CASE PassGate(p)
      BY <3>3 DEF PassGate, AfterGate
    <3>4. ASSUME NEW m \in Machines, Sit(p, m), ppc[p] = "seat"
          PROVE  (p \in Got) <=> (p \in Got')
      <4>1. ppc' = [ppc EXCEPT ![p] = "play"]
        BY <3>4 DEF Sit
      <4> QED BY <3>4, <4>1, SitEffect
    <3>5. CASE TakeFree(p) \/ TakeGiven(p)
      BY <3>4, <3>5, SitsDown
    <3>6. CASE FindAllTaken(p) \/ StayOn(p) \/ SitOut(p)
      BY <3>6 DEF FindAllTaken, StayOn, SitOut
    <3>7. CASE JoinQueue(p)
      BY <3>7, JoinEffect DEF JoinQueue
    <3>8. CASE Play(p)
      <4>1. ppc' = [ppc EXCEPT ![p] = "report"] /\ ppc[p] = "play"
        BY <3>8 DEF Play
      <4>2. ~me[p].prize
        BY <4>1 DEF RoundInv
      <4> QED BY <4>1, <4>2
    <3> QED BY <1>5, <3>1, <3>2, <3>3, <3>5, <3>6, <3>7, <3>8 DEF PlayerStep, Seat
  <2>3. Got' = Got
    BY <1>1, <2>2
  <2> QED BY <2>1, <2>3, <1>2, <1>3 DEF PrizesCounted, RoundInv
<1> QED BY <1>4, <1>5

\* The master keeps the types.
LEMMA TypeMaster ==
  ASSUME TypeOK, TurnInv, MasterStep
  PROVE  TypeOK'
<1>1. /\ startSem' \in [Players -> 0..1] /\ doneSem' \in [Players -> 0..1]
      /\ me' = me /\ ppc' = ppc
  BY TurnMaster
<1>2. finished' = finished /\ input' = input
  BY DEF MasterStep, ReleaseStep, Collect, CollectAll, DrainStep, EndSlot, Final, CollectLast, count
<1>3. CASE DrainStep
  <2>7. prevFinished' \in BOOLEAN /\ talked' \in BOOLEAN /\ detach' \in BOOLEAN
    BY <1>3, Zenon DEF TypeOK, DrainStep, EndSlot
  <2>1. /\ msgOrder' \in Nat /\ timer' \in Nat
        /\ mpc' \in {"release", "collect", "drain", "final", "last", "complete"}
    BY <1>3 DEF TypeOK, DrainStep, EndSlot
  <2>2. guarantee' \in 1..input.guarantee
    <3>1. input.guarantee \in Nat \ {0}
      BY ClawAssumption DEF TypeOK
    <3> QED BY <3>1, <1>3 DEF TypeOK, DrainStep, EndSlot
  <2>3. HandOver
    BY <1>3 DEF DrainStep, EndSlot
  <2>4. queue' \in Seq(Players)
    BY <2>3, Ranks DEF HandOver, TypeOK
  <2>5. owner' \in [Machines -> Players \cup {NoPlayer}]
    <3>1. \A m \in Freed : Rank(m) <= Len(queue) => queue[Rank(m)] \in Players
      BY Ranks DEF TypeOK
    <3> QED BY <2>3, <3>1 DEF HandOver, TypeOK
  <2>6. playing' \in [Machines -> BOOLEAN] /\ done' \in [Machines -> BOOLEAN]
    BY <2>3 DEF HandOver, TypeOK
  <2> QED BY <1>1, <1>2, <2>1, <2>2, <2>4, <2>5, <2>6, <2>7 DEF TypeOK
<1>4. CASE ~DrainStep
  <2>1. UNCHANGED <<timer, prevFinished, guarantee, queue, owner, playing, done, talked>>
    BY <1>4 DEF MasterStep, ReleaseStep, Collect, CollectAll, Final, CollectLast, hall, count
  <2>3. detach' \in BOOLEAN
    BY <1>4, Zenon DEF TypeOK, MasterStep, ReleaseStep, Collect, CollectAll, Final, CollectLast
  <2>2. /\ msgOrder' \in Nat
        /\ mpc' \in {"release", "collect", "drain", "final", "last", "complete"}
    BY <1>4 DEF TypeOK, MasterStep, ReleaseStep, Collect, CollectAll, Final, CollectLast
  <2> QED BY <1>1, <1>2, <2>1, <2>2, <2>3 DEF TypeOK
<1> QED BY <1>3, <1>4

\* Every player keeps the types.
LEMMA TypePlayer ==
  ASSUME TypeOK, TurnInv, RoundInv, PrizesCounted, NEW p \in Players, PlayerStep(p)
  PROVE  TypeOK'
<1>1. /\ startSem' \in [Players -> 0..1] /\ doneSem' \in [Players -> 0..1]
      /\ ppc' \in [Players -> {"asleep", "gate", "seat", "enqueue", "play", "report",
                               "gone"}]
  BY TurnPlayer
<1>2. UNCHANGED <<input, master>> /\ me' \in [Players -> Locals]
  BY OnlyInSlot, LocalsStep
<1>3. finished' \in 0..Cardinality(Players)
  <2> DEFINE Got == {q \in Players : me'[q].prize /\ ppc'[q] # "report"}
  <2>1. finished' = Cardinality(Got)
    BY CountPlayer DEF PrizesCounted
  <2>2. Got \in SUBSET Players
    OBVIOUS
  <2>3. IsFiniteSet(Got) /\ Cardinality(Got) <= Cardinality(Players)
    BY <2>2, ClawAssumption, FS_Subset
  <2> QED BY <2>1, <2>3, ClawAssumption, FS_CardinalityType
<1> DEFINE Fine == /\ guarantee' \in 1..input.guarantee
                   /\ queue' \in Seq(Players)
                   /\ owner' \in [Machines -> Players \cup {NoPlayer}]
                   /\ playing' \in [Machines -> BOOLEAN] /\ done' \in [Machines -> BOOLEAN]
                   /\ msgOrder' \in Nat /\ talked' \in BOOLEAN
<1>0. /\ guarantee \in 1..input.guarantee /\ queue \in Seq(Players)
      /\ owner \in [Machines -> Players \cup {NoPlayer}]
      /\ playing \in [Machines -> BOOLEAN] /\ done \in [Machines -> BOOLEAN]
      /\ msgOrder \in Nat /\ talked \in BOOLEAN
  BY DEF TypeOK
<1>11. Fine
  <2>1. CASE UNCHANGED <<guarantee, queue, owner, playing, done, msgOrder, talked>>
    BY <1>0, <2>1
  <2>2. CASE AnnounceStep(p)
    <3>1. msgOrder' = msgOrder + 1 /\ UNCHANGED <<guarantee, queue, owner, playing, done, talked>>
      BY <2>2 DEF AnnounceStep, count, hall
    <3> QED BY <1>0, <3>1
  <2>3. ASSUME NEW m \in Machines, Sit(p, m) PROVE Fine
    <3>1. /\ owner' = [owner EXCEPT ![m] = p] /\ playing' = [playing EXCEPT ![m] = TRUE]
          /\ talked' = TRUE /\ UNCHANGED <<guarantee, queue, done, msgOrder>>
      BY <2>3 DEF Sit, count, sems
    <3> QED BY <1>0, <3>1
  <2>4. CASE TakeFree(p) \/ TakeGiven(p)
    BY <2>3, <2>4, SitsDown
  <2>5. CASE JoinQueue(p)
    <3>1. /\ queue' = Append(queue, p) /\ talked' = TRUE
          /\ UNCHANGED <<guarantee, owner, playing, done, msgOrder>>
      BY <2>5 DEF JoinQueue, count
    <3> QED BY <1>0, <3>1
  <2>6. CASE Play(p)
    <3>1. UNCHANGED <<queue, owner, playing, done, msgOrder, talked>>
      BY <2>6 DEF Play, hall, sems
    <3>2. guarantee' \in 1..input.guarantee
      BY <2>6, PlayEffect
    <3> QED BY <1>0, <3>1, <3>2
  <2>7. CASE ReportStep(p)
    <3>1. /\ done' = [done EXCEPT ![me[p].machine] = Ended(p)]
          /\ UNCHANGED <<guarantee, queue, owner, playing, msgOrder, talked>>
      BY <2>7 DEF ReportStep, hall
    <3>2. Ended(p) \in BOOLEAN
      BY DEF Ended, TypeOK, Locals
    <3> QED BY <1>0, <3>1, <3>2
  <2>8. CASE Wake(p) \/ PassGate(p) \/ FindAllTaken(p) \/ StayOn(p) \/ SitOut(p)
    <3>1. UNCHANGED <<guarantee, queue, owner, playing, done, msgOrder, talked>>
      BY <2>8 DEF Wake, PassGate, FindAllTaken, StayOn, SitOut, count, hall, sems
    <3> QED BY <3>1, <2>1
  <2> QED BY <2>2, <2>4, <2>5, <2>6, <2>7, <2>8 DEF PlayerStep, Seat
<1>12. /\ input' \in Inputs /\ guarantee' \in 1..input'.guarantee
       /\ mpc' \in {"release", "collect", "drain", "final", "last", "complete"}
       /\ timer' \in Nat /\ prevFinished' \in BOOLEAN /\ detach' \in BOOLEAN
  BY <1>2, <1>11 DEF TypeOK, master
<1> QED BY <1>1, <1>2, <1>3, <1>11, <1>12 DEF TypeOK

----------------------------------------------------------------------------
(* Machines, players and the queue *)

LEMMA InitHall ==
  ASSUME NEW gate \in Nat, InitWith(gate)
  PROVE  PlaceInv /\ OwnerInv /\ QueueInv
<1>1. /\ queue = <<>> /\ owner = [m \in Machines |-> NoPlayer]
      /\ playing = [m \in Machines |-> FALSE] /\ done = [m \in Machines |-> FALSE]
      /\ ppc = [p \in Players |-> "asleep"]
  BY DEF InitWith
<1>2. \A p \in Players : ~me[p].leave /\ ~me[p].lineUp /\ me[p].machine = NoMachine
  BY DEF InitWith
<1>3. NoPlayer \notin Players
  BY ClawAssumption
<1>4. PlaceInv
  BY <1>1, <1>2 DEF PlaceInv
<1>5. OwnerInv
  BY <1>1, <1>2, <1>3 DEF OwnerInv
<1>6. DOMAIN queue = {}
  BY <1>1
<1>7. QueueInv
  BY <1>1, <1>2, <1>6 DEF QueueInv, Waiting, NoFreeMachineBesideQueue
<1> QED BY <1>4, <1>5, <1>7

\* What one hand-over does to the owners.
LEMMA Handed ==
  ASSUME TypeOK, HandOver, NEW m \in Machines
  PROVE  /\ m \notin Freed => owner'[m] = owner[m] /\ playing'[m] = playing[m]
         /\ m \in Freed => /\ ~playing'[m]
                           /\ IF Rank(m) <= Len(queue)
                              THEN Rank(m) \in DOMAIN queue /\ owner'[m] = queue[Rank(m)]
                              ELSE owner'[m] = NoPlayer
         /\ ~done'[m]
<1>1. m \in Freed => Rank(m) \in 1..Cardinality(Freed) /\ Cardinality(Freed) \in Nat
  BY Ranks
<1>2. queue \in Seq(Players) /\ playing \in [Machines -> BOOLEAN]
  BY DEF TypeOK
<1>3. m \in Freed /\ Rank(m) <= Len(queue) => Rank(m) \in DOMAIN queue
  BY <1>1, <1>2
<1>4. ~done'[m] /\ (m \in Freed => ~playing'[m]) /\ (m \notin Freed => playing'[m] = playing[m])
  BY <1>2 DEF HandOver
<1> QED BY <1>3, <1>4 DEF HandOver

\* The queue after a hand-over: who is left moves up by the number of machines.
LEMMA MovedUp ==
  ASSUME TypeOK, HandOver
  PROVE  /\ \A k \in DOMAIN queue' : /\ k + Cardinality(Freed) \in DOMAIN queue
                                     /\ queue'[k] = queue[k + Cardinality(Freed)]
         /\ \A k \in DOMAIN queue : k > Cardinality(Freed) =>
              /\ k - Cardinality(Freed) \in DOMAIN queue'
              /\ queue'[k - Cardinality(Freed)] = queue[k]
         /\ queue' # <<>> => Cardinality(Freed) < Len(queue)
<1> DEFINE C == Cardinality(Freed)
<1>1. C \in Nat
  BY Ranks
<1>2. queue \in Seq(Players) /\ Len(queue) \in Nat /\ DOMAIN queue = 1..Len(queue)
  BY DEF TypeOK
<1>3. queue' = SubSeq(queue, C + 1, Len(queue))
  BY DEF HandOver
<1> HIDE DEF C
<1>4. CASE C < Len(queue)
  <2>5. Len(queue') = Len(queue) - C
    <3>1. \A i \in C + 1 .. Len(queue) : queue[i] \in Players
      BY <1>1, <1>2
    <3>3. C + 1 \in Int /\ Len(queue) \in Int /\ C + 1 <= Len(queue)
      BY <1>1, <1>2, <1>4
    <3> DEFINE from == C + 1
               to == Len(queue)
    <3> HIDE DEF from, to
    <3>4. Len(SubSeq(queue, from, to)) = IF from <= to THEN to - from + 1 ELSE 0
      BY <3>1, <3>3, SubSeqProperties DEF from, to
    <3>2. Len(queue') = Len(queue) - (C + 1) + 1
      BY <3>3, <3>4, <1>3 DEF from, to
    <3> QED BY <3>2, <1>1, <1>2
  <2>6. queue' \in Seq(Players)
    <3>1. \A i \in C + 1 .. Len(queue) : queue[i] \in Players
      BY <1>1, <1>2
    <3> QED BY <3>1, <1>1, <1>2, <1>3, SubSeqProperties
  <2>1. Len(queue') = Len(queue) - C /\ DOMAIN queue' = 1..(Len(queue) - C)
    BY <2>5, <2>6, LenProperties
  <2>2. \A k \in 1..(Len(queue) - C) : queue'[k] = queue[k + C]
    BY <1>1, <1>2, <1>3, <1>4
  <2>3. \A k \in DOMAIN queue : k > C => k - C \in DOMAIN queue' /\ (k - C) + C = k
    BY <2>1, <1>1, <1>2
  <2>4. \A k \in DOMAIN queue' : k + C \in DOMAIN queue
    BY <2>1, <1>1, <1>2
  <2> QED BY <1>4, <2>1, <2>2, <2>3, <2>4 DEF C
<1>5. CASE ~(C < Len(queue))
  <2>1. queue' = <<>>
    BY <1>1, <1>2, <1>3, <1>5
  <2>2. \A k \in DOMAIN queue : ~(k > C)
    BY <1>1, <1>2, <1>5
  <2> QED BY <2>1, <2>2 DEF C
<1> QED BY <1>4, <1>5

\* The master's waits and posts move nobody; what the players have done in the
\* slot is still there when the last of them is through.
LEMMA HallMasterWaits ==
  ASSUME TypeOK, TurnInv, OwnerInv, QueueInv, MasterStep, ~DrainStep
  PROVE  OwnerInv' /\ QueueInv'
<1>1. UNCHANGED <<queue, owner, playing, done, me, ppc>>
  BY DEF MasterStep, ReleaseStep, Collect, CollectAll, Final, CollectLast, hall
<1>2. \A p \in Players : SlotOver(p) => SlotOver(p)'
  BY DEF MasterStep, ReleaseStep, Collect, CollectAll, Final, CollectLast, SlotOver
<1>3. OwnerInv'
  BY <1>1, <1>2 DEF OwnerInv, Waiting
<1>4. QueueInv'
  BY <1>1 DEF QueueInv, Waiting, Given, Free, NoFreeMachineBesideQueue
<1> QED BY <1>3, <1>4

\* The hand-over: the finishers lose their machines to the queue's front.
LEMMA OwnerDrain ==
  ASSUME TypeOK, OwnerInv, QueueInv, HandOver, me' = me
  PROVE  OwnerInv'
<1> USE DEF OwnerInv, QueueInv
<1>0. NoPlayer \notin Players /\ \A k \in DOMAIN queue : queue[k] \in Players
  BY ClawAssumption DEF TypeOK
<1>5. NoMachine \notin Machines
  BY ClawAssumption
<1>1. ASSUME NEW m \in Machines, owner'[m] = NoPlayer
      PROVE  ~playing'[m] /\ ~done'[m]
  BY <1>1, Handed
<1>2. ASSUME NEW m \in Machines, NEW p \in Players, owner'[m] = p
      PROVE  \/ Waiting(p)' /\ ~playing'[m] /\ ~done'[m]
             \/ /\ me'[p].machine = m /\ playing'[m]
                /\ done'[m] = me'[p].leave
                /\ me'[p].leave => SlotOver(p)'
  <2>1. CASE m \notin Freed
    <3>1. owner[m] = p /\ playing'[m] = playing[m] /\ ~done[m] /\ ~done'[m]
      BY <1>2, <2>1, Handed DEF Freed
    <3>2. CASE Waiting(p) /\ ~playing[m]
      BY <3>1, <3>2 DEF Waiting
    <3>3. CASE me[p].machine = m /\ playing[m] /\ done[m] = me[p].leave
      <4>1. done' \in [Machines -> BOOLEAN] /\ me[p].leave = FALSE /\ done'[m] = FALSE
        BY <3>1, <3>3 DEF HandOver, TypeOK
      <4> QED BY <3>1, <3>3, <4>1
    <3> QED BY <3>1, <3>2, <3>3
  <2>2. CASE m \in Freed
    <3>1. /\ ~playing'[m] /\ ~done'[m]
          /\ Rank(m) \in DOMAIN queue /\ queue[Rank(m)] = p
      BY <1>0, <1>2, <2>2, Handed
    <3> QED BY <3>1 DEF Waiting
  <2> QED BY <2>1, <2>2
<1>3. ASSUME NEW m \in Machines, NEW n \in Machines, owner'[m] = owner'[n],
             owner'[m] # NoPlayer
      PROVE  m = n
  <2>1. \A k \in Machines : k \in Freed /\ owner'[k] # NoPlayer =>
          Rank(k) \in DOMAIN queue /\ owner'[k] = queue[Rank(k)]
    BY Handed
  <2>2. \A k \in Machines : k \notin Freed => owner'[k] = owner[k]
    BY Handed
  <2>3. \A k \in Machines, j \in DOMAIN queue : owner[k] # queue[j]
    BY DEF Given
  <2>4. CASE m \in Freed /\ n \in Freed
    BY <1>3, <2>1, <2>4, Ranks
  <2>5. CASE m \notin Freed /\ n \notin Freed
    BY <1>3, <2>2, <2>5
  <2>6. CASE (m \in Freed /\ n \notin Freed) \/ (m \notin Freed /\ n \in Freed)
    BY <1>3, <2>1, <2>2, <2>3, <2>6
  <2> QED BY <2>4, <2>5, <2>6
<1>4. ASSUME NEW p \in Players, me'[p].machine # NoMachine, ~me'[p].leave
      PROVE  owner'[me'[p].machine] = p
  <2> DEFINE m == me[p].machine
  <2>1. m \in Machines /\ owner[m] = p /\ ~me[p].leave
    BY <1>4 DEF TypeOK, Locals
  <2>2. ~Waiting(p)
    BY <1>4 DEF Waiting
  <2>3. done[m] = me[p].leave
    BY <2>1, <2>2
  <2>4. m \notin Freed
    BY <2>1, <2>3 DEF Freed
  <2> QED BY <2>1, <2>4, Handed
<1> QED BY <1>1, <1>2, <1>3, <1>4

LEMMA QueueDrain ==
  ASSUME TypeOK, TurnInv, OwnerInv, QueueInv, DrainStep
  PROVE  QueueInv'
<1> DEFINE C == Cardinality(Freed)
<1>1. HandOver /\ me' = me /\ ppc' = ppc /\ \A p \in Players : ppc[p] # "enqueue"
  BY TurnMaster DEF DrainStep, EndSlot, MasterStep, TurnInv, Rested
<1>2. C \in Nat /\ \A k \in DOMAIN queue : k \in Nat /\ queue[k] \in Players
  BY Ranks DEF TypeOK
<1>3. /\ \A k \in DOMAIN queue' : k + C \in DOMAIN queue /\ queue'[k] = queue[k + C]
      /\ \A k \in DOMAIN queue : k > C =>
           k - C \in DOMAIN queue' /\ queue'[k - C] = queue[k]
      /\ queue' # <<>> => C < Len(queue)
  BY <1>1, MovedUp
<1>4. /\ \A m \in Freed : Rank(m) \in 1..C
      /\ \A r \in 1..C : \E m \in Freed : Rank(m) = r
  BY Ranks
<1>5. queue' \in Seq(Players) /\ \A k \in DOMAIN queue' : k \in Nat /\ k > 0
  BY TypeMaster DEF TypeOK, MasterStep
<1>6. /\ \A m \in Machines : m \in Freed /\ Rank(m) \in DOMAIN queue =>
           owner'[m] = queue[Rank(m)]
      /\ \A m \in Machines : m \in Freed /\ owner'[m] # NoPlayer =>
           Rank(m) \in DOMAIN queue /\ owner'[m] = queue[Rank(m)]
      /\ \A m \in Machines : m \notin Freed => owner'[m] = owner[m]
  <2>1. \A k \in DOMAIN queue : k <= Len(queue)
    BY DEF TypeOK
  <2> QED BY <1>1, <2>1, Handed
<1>11. NoPlayer \notin Players /\ NoMachine \notin Machines
  BY ClawAssumption
<1> HIDE DEF C
<1>7. ASSUME NEW j \in DOMAIN queue', NEW k \in DOMAIN queue', queue'[j] = queue'[k]
      PROVE  j = k
  <2>1. j + C = k + C
    BY <1>3, <1>7 DEF QueueInv
  <2> QED BY <2>1, <1>2, <1>5
<1>8. ASSUME NEW k \in DOMAIN queue', NEW q \in Players, queue'[k] = q
      PROVE  Waiting(q)' /\ Given(q)' = {}
  <2>1. k + C \in DOMAIN queue /\ queue[k + C] = q
    BY <1>3, <1>8
  <2>2. Waiting(q) /\ Given(q) = {}
    BY <2>1 DEF QueueInv
  <2>3. \A m \in Machines : owner'[m] # q
    <3> SUFFICES ASSUME NEW m \in Machines, owner'[m] = q PROVE FALSE
      OBVIOUS
    <3>1. m \in Freed
      BY <1>6, <2>2 DEF Given
    <3>2. Rank(m) \in DOMAIN queue /\ queue[Rank(m)] = q
      BY <3>1, <1>6, <1>11, <2>1
    <3>3. Rank(m) = k + C
      BY <3>2, <2>1 DEF QueueInv
    <3> QED BY <3>1, <3>3, <1>2, <1>4, <1>5
  <2> QED BY <1>1, <2>1, <2>2, <2>3 DEF Waiting, Given
<1>9. ASSUME NEW p \in Players, Waiting(p)'
      PROVE  (\E k \in DOMAIN queue' : queue'[k] = p) \/ Given(p)' # {}
  <2>1. Waiting(p)
    BY <1>1, <1>9 DEF Waiting
  <2>2. CASE Given(p) # {}
    <3>1. PICK m \in Machines : owner[m] = p
      BY <2>2 DEF Given
    <3>2. m \notin Freed
      BY <2>1, <3>1, <1>11 DEF OwnerInv, Waiting, Freed
    <3> QED BY <3>1, <3>2, <1>6 DEF Given
  <2>3. ASSUME NEW k \in DOMAIN queue, queue[k] = p, k > C
        PROVE  \E i \in DOMAIN queue' : queue'[i] = p
    BY <2>3, <1>3
  <2>4. ASSUME NEW k \in DOMAIN queue, queue[k] = p, ~(k > C)
        PROVE  Given(p)' # {}
    <3>1. k \in 1..C
      BY <2>4, <1>2 DEF TypeOK
    <3>2. PICK m \in Freed : Rank(m) = k
      BY <3>1, <1>4
    <3>3. m \in Machines /\ owner'[m] = p
      BY <3>2, <2>4, <1>6 DEF Freed
    <3> QED BY <3>3 DEF Given
  <2> QED BY <2>1, <2>2, <2>3, <2>4 DEF QueueInv
<1>10. ASSUME queue' # <<>>, NEW m \in Machines, owner'[m] = NoPlayer
       PROVE  FALSE
  <2>1. C < Len(queue) /\ queue # <<>>
    BY <1>3, <1>10, <1>2
  <2>2. m \in Freed
    BY <2>1, <1>6, <1>10 DEF QueueInv, NoFreeMachineBesideQueue, Free
  <2>3. Rank(m) \in DOMAIN queue
    BY <2>1, <2>2, <1>2, <1>4 DEF TypeOK
  <2> QED BY <2>2, <2>3, <1>2, <1>6, <1>10, <1>11
<1>12. \A k \in DOMAIN queue' : queue'[k] \in Players
  BY <1>5
<1> QED BY <1>1, <1>7, <1>8, <1>9, <1>10, <1>12 DEF QueueInv, NoFreeMachineBesideQueue, Free

\* During its turn a player has nothing left over from an earlier slot: the
\* machine it may own has not just been finished.
LEMMA FreshTurn ==
  ASSUME TypeOK, TurnInv, PlaceInv, OwnerInv, NEW p \in Players, PlayerStep(p)
  PROVE  /\ ~SlotOver(p)
         /\ \A q \in Players : q # p => (SlotOver(q)' <=> SlotOver(q))
         /\ me[p].leave => Given(p) = {}
<1>1. (Called(p) \/ InTurn(p)) /\ mpc \in {"collect", "last"} /\ mpc' = mpc
  BY OnlyInSlot DEF master
<1>2. ~SlotOver(p)
  BY <1>1 DEF SlotOver, Called, InTurn
<1>3. \A q \in Players : q # p => (SlotOver(q)' <=> SlotOver(q))
  BY <1>1, OnlyInSlot DEF SlotOver
<1>4. me[p].leave => Given(p) = {}
  <2> SUFFICES ASSUME me[p].leave, NEW m \in Machines, owner[m] = p PROVE FALSE
    BY DEF Given
  <2>1. Waiting(p)
    BY <1>2 DEF OwnerInv
  <2> QED BY <2>1 DEF PlaceInv
<1> QED BY <1>2, <1>3, <1>4

\* A step that moves no machine and keeps lineUp, machine and leave.
LEMMA HallQuiet ==
  ASSUME TypeOK, TurnInv, PlaceInv, OwnerInv, QueueInv, NEW p \in Players, PlayerStep(p),
         UNCHANGED <<queue, owner, playing, done>>,
         \A q \in Players : /\ me'[q].lineUp = me[q].lineUp
                            /\ me'[q].machine = me[q].machine
                            /\ me'[q].leave = me[q].leave,
         ppc'[p] = "enqueue" => Free = {}
  PROVE  OwnerInv' /\ QueueInv'
<1>1. \A q \in Players : (Waiting(q)' <=> Waiting(q)) /\ Given(q)' = Given(q)
  BY DEF Waiting, Given
<1>2. \A q \in Players : q # p => (SlotOver(q)' <=> SlotOver(q)) /\ ppc'[q] = ppc[q]
  BY FreshTurn, OnlyInSlot
<1>3. me[p].leave => Given(p) = {}
  BY FreshTurn
<1>4. OwnerInv'
  BY <1>1, <1>2, <1>3 DEF OwnerInv, Given
<1>5. \A k \in DOMAIN queue : queue[k] \in Players
  BY DEF TypeOK
<1>6. QueueInv'
  BY <1>1, <1>2, <1>5 DEF QueueInv, NoFreeMachineBesideQueue, Free
<1> QED BY <1>4, <1>6

LEMMA HallAnnounce ==
  ASSUME TypeOK, TurnInv, PlaceInv, OwnerInv, QueueInv, NEW p \in Players, PlayerStep(p),
         AnnounceStep(p)
  PROVE  OwnerInv' /\ QueueInv'
<1>1. UNCHANGED <<queue, owner, playing, done>> /\ me[p].leave
  BY DEF AnnounceStep, hall
<1>2. Given(p) = {} /\ ~Waiting(p)
  BY <1>1, FreshTurn DEF PlaceInv
<1>3. /\ \A q \in Players : q # p => me'[q] = me[q]
      /\ ~me'[p].lineUp /\ me'[p].machine = NoMachine /\ ~me'[p].leave
  BY AnnounceEffect
<1>4. \A q \in Players : q # p => (SlotOver(q)' <=> SlotOver(q)) /\ ppc'[q] = ppc[q]
  BY FreshTurn, OnlyInSlot
<1>5. ppc'[p] # "enqueue"
  BY DEF AnnounceStep, AfterGate, Goto, FinishTurn, TypeOK
<1>6. \A q \in Players : (Waiting(q)' <=> Waiting(q)) /\ Given(q)' = Given(q)
  BY <1>1, <1>2, <1>3 DEF Waiting, Given
<1>7. OwnerInv'
  BY <1>1, <1>2, <1>3, <1>4, <1>6 DEF OwnerInv, Given
<1>8. \A k \in DOMAIN queue : queue[k] \in Players
  BY DEF TypeOK
<1>9. QueueInv'
  BY <1>1, <1>4, <1>5, <1>6, <1>8 DEF QueueInv, NoFreeMachineBesideQueue, Free
<1> QED BY <1>7, <1>9

\* A player sits down at a free machine, or at the one it has been handed.
LEMMA HallSit ==
  ASSUME TypeOK, TurnInv, PlaceInv, OwnerInv, QueueInv, NEW p \in Players, PlayerStep(p),
         NEW m \in Machines, Sit(p, m), ppc[p] = "seat",
         \/ ~me[p].lineUp /\ owner[m] = NoPlayer
         \/ me[p].machine = NoMachine /\ owner[m] = p
  PROVE  OwnerInv' /\ QueueInv'
<1>1. /\ owner' = [owner EXCEPT ![m] = p] /\ playing' = [playing EXCEPT ![m] = TRUE]
      /\ UNCHANGED <<queue, done>>
  BY DEF Sit
<1>2. /\ \A q \in Players : q # p => me'[q] = me[q]
      /\ me'[p].lineUp /\ me'[p].machine = m /\ me'[p].leave = me[p].leave
  BY SitEffect
<1>3. ~me[p].leave
  BY DEF PlaceInv
<1>4. m # NoMachine /\ NoMachine \notin Machines /\ NoPlayer \notin Players
  BY ClawAssumption
<1>5. me[p].machine = NoMachine
  BY <1>3 DEF PlaceInv
<1>6. \A n \in Machines : owner[n] = p => n = m
  <2>1. CASE ~me[p].lineUp /\ owner[m] = NoPlayer
    BY <2>1, <1>4, <1>5 DEF OwnerInv, Waiting
  <2>2. CASE owner[m] = p
    BY <2>2, <1>4 DEF OwnerInv
  <2> QED BY <2>1, <2>2
<1>7. ~done[m]
  BY <1>4, <1>5 DEF OwnerInv, Waiting
<1>8. \A k \in DOMAIN queue : queue[k] # p /\ queue[k] \in Players
  BY DEF QueueInv, Waiting, Given, TypeOK
<1>9. \A q \in Players : q # p => (SlotOver(q)' <=> SlotOver(q)) /\ ppc'[q] = ppc[q]
  BY FreshTurn, OnlyInSlot
<1>10. \A n \in Machines : /\ n # m => owner'[n] = owner[n] /\ playing'[n] = playing[n]
                           /\ owner'[m] = p /\ playing'[m]
  BY <1>1 DEF TypeOK
<1>11. \A q \in Players : q # p => (Waiting(q)' <=> Waiting(q)) /\ Given(q)' = Given(q)
  <2>1. \A n \in Machines, q \in Players : q # p => (owner'[n] = q <=> owner[n] = q)
    BY <1>4, <1>10
  <2> QED BY <2>1, <1>2 DEF Waiting, Given
<1>12. ~Waiting(p)'
  BY <1>2, <1>4 DEF Waiting
<1>13. OwnerInv'
  <2>1. done[m] = FALSE /\ me'[p].leave = FALSE
    BY <1>2, <1>3, <1>7 DEF TypeOK, Locals
  <2>2. ASSUME NEW n \in Machines, owner'[n] = NoPlayer
        PROVE  ~playing'[n] /\ ~done'[n]
    <3>1. n # m /\ owner[n] = NoPlayer /\ playing'[n] = playing[n] /\ done'[n] = done[n]
      BY <2>2, <1>1, <1>4, <1>10
    <3> QED BY <3>1 DEF OwnerInv
  <2>3. ASSUME NEW n \in Machines, NEW q \in Players, owner'[n] = q
        PROVE  \/ Waiting(q)' /\ ~playing'[n] /\ ~done'[n]
               \/ /\ me'[q].machine = n /\ playing'[n]
                  /\ done'[n] = me'[q].leave
                  /\ me'[q].leave => SlotOver(q)'
    <3>1. CASE n = m
      BY <3>1, <2>3, <2>1, <1>1, <1>2, <1>10
    <3>2. CASE n # m
      <4>1. owner[n] = q /\ q # p /\ playing'[n] = playing[n]
        BY <3>2, <2>3, <1>6, <1>10
      <4> QED BY <4>1, <1>1, <1>2, <1>9, <1>11 DEF OwnerInv
    <3> QED BY <3>1, <3>2
  <2>4. \A k, n \in Machines : owner'[k] = owner'[n] /\ owner'[k] # NoPlayer => k = n
    BY <1>6, <1>10 DEF OwnerInv
  <2>5. ASSUME NEW q \in Players, me'[q].machine # NoMachine, ~me'[q].leave
        PROVE  owner'[me'[q].machine] = q
    <3>1. CASE q = p
      BY <3>1, <1>2, <1>10
    <3>2. CASE q # p
      <4>1. me[q].machine \in Machines /\ owner[me[q].machine] = q
        BY <3>2, <2>5, <1>2 DEF OwnerInv, TypeOK, Locals
      <4>2. me[q].machine # m
        BY <3>2, <4>1, <1>4
      <4> QED BY <3>2, <4>1, <4>2, <1>2, <1>10
    <3> QED BY <3>1, <3>2
  <2> QED BY <2>2, <2>3, <2>4, <2>5 DEF OwnerInv
<1>14. QueueInv'
  <2>1. Free' \subseteq Free
    BY <1>4, <1>10 DEF Free
  <2>2. ppc'[p] = "play"
    BY DEF Sit, Goto, TypeOK
  <2>3. ASSUME NEW k \in DOMAIN queue, NEW q \in Players, queue[k] = q
        PROVE  Waiting(q)' /\ Given(q)' = {}
    BY <2>3, <1>8, <1>11 DEF QueueInv
  <2>4. ASSUME NEW q \in Players, Waiting(q)'
        PROVE  (\E k \in DOMAIN queue : queue[k] = q) \/ Given(q)' # {}
    BY <2>4, <1>11, <1>12 DEF QueueInv
  <2>5. queue # <<>> => Free' = {}
    BY <2>1 DEF QueueInv, NoFreeMachineBesideQueue
  <2>6. \A q \in Players : ppc'[q] = "enqueue" => Free' = {}
    BY <1>9, <2>1, <2>2 DEF QueueInv
  <2>7. queue' = queue
    BY <1>1
  <2> QED BY <1>8, <2>3, <2>4, <2>5, <2>6, <2>7 DEF QueueInv, NoFreeMachineBesideQueue
<1> QED BY <1>13, <1>14

LEMMA HallJoin ==
  ASSUME TypeOK, TurnInv, PlaceInv, OwnerInv, QueueInv, NEW p \in Players, PlayerStep(p),
         JoinQueue(p)
  PROVE  OwnerInv' /\ QueueInv'
<1>1. /\ queue' = Append(queue, p) /\ UNCHANGED <<owner, playing, done>>
      /\ ppc[p] = "enqueue" /\ ppc' = [ppc EXCEPT ![p] = "asleep"]
  BY DEF JoinQueue, FinishTurn, Goto
<1>2. /\ \A q \in Players : q # p => me'[q] = me[q]
      /\ me'[p].lineUp /\ me'[p].machine = me[p].machine /\ me'[p].leave = me[p].leave
  BY JoinEffect
<1>3. ~me[p].lineUp /\ ~me[p].leave /\ me[p].machine = NoMachine /\ Free = {}
  BY <1>1 DEF PlaceInv, QueueInv
<1>4. Given(p) = {}
  BY <1>3, ClawAssumption DEF OwnerInv, Waiting, Given
<1>5. Waiting(p)' /\ ~Waiting(p)
  BY <1>2, <1>3 DEF Waiting
<1>6. \A q \in Players : /\ q # p => (Waiting(q)' <=> Waiting(q))
                         /\ Given(q)' = Given(q)
  BY <1>1, <1>2 DEF Waiting, Given
<1>7. \A q \in Players : q # p => (SlotOver(q)' <=> SlotOver(q)) /\ ppc'[q] = ppc[q]
  BY FreshTurn, OnlyInSlot
<1>8. OwnerInv'
  <2>1. \A n \in Machines : owner[n] # p
    BY <1>4 DEF Given
  <2> QED BY <1>1, <1>2, <1>3, <1>6, <1>7, <2>1 DEF OwnerInv
<1>9. /\ DOMAIN queue' = 1..(Len(queue) + 1) /\ DOMAIN queue = 1..Len(queue)
      /\ Len(queue) \in Nat
      /\ \A k \in DOMAIN queue : queue'[k] = queue[k] /\ queue[k] \in Players
      /\ queue'[Len(queue) + 1] = p
  BY <1>1 DEF TypeOK
<1>10. \A k \in DOMAIN queue' : k \in DOMAIN queue \/ k = Len(queue) + 1
  BY <1>9
<1>11. \A k \in DOMAIN queue : queue[k] # p
  BY <1>5 DEF QueueInv
<1>12. \A j, k \in DOMAIN queue' : queue'[j] = queue'[k] => j = k
  BY <1>9, <1>10, <1>11 DEF QueueInv
<1>13. ASSUME NEW k \in DOMAIN queue', NEW q \in Players, queue'[k] = q
       PROVE  Waiting(q)' /\ Given(q)' = {}
  <2>1. CASE k \in DOMAIN queue
    BY <1>6, <1>9, <1>11, <1>13, <2>1 DEF QueueInv
  <2>2. CASE k = Len(queue) + 1
    BY <1>4, <1>5, <1>6, <1>9, <1>13, <2>2
  <2> QED BY <1>10, <2>1, <2>2
<1>14. \A k \in DOMAIN queue' : queue'[k] \in Players
  BY <1>9, <1>10
<1>15. ASSUME NEW q \in Players, Waiting(q)'
       PROVE  (\E k \in DOMAIN queue' : queue'[k] = q) \/ Given(q)' # {}
  <2>1. CASE q = p
    BY <1>9, <2>1
  <2>2. CASE q # p
    <3>1. (\E k \in DOMAIN queue : queue[k] = q) \/ Given(q) # {}
      BY <1>6, <1>15, <2>2 DEF QueueInv
    <3> QED BY <3>1, <1>6, <1>9
  <2> QED BY <2>1, <2>2
<1>16. Free' = {}
  BY <1>1, <1>3 DEF Free
<1> QED BY <1>8, <1>12, <1>13, <1>14, <1>15, <1>16 DEF QueueInv, NoFreeMachineBesideQueue

\* A player that reports plays its own machine, and marks that one as finished
\* exactly when it leaves it.
LEMMA HallReport ==
  ASSUME TypeOK, TurnInv, PlaceInv, OwnerInv, QueueInv, NEW p \in Players, PlayerStep(p),
         ReportStep(p)
  PROVE  OwnerInv' /\ QueueInv'
<1> DEFINE m == me[p].machine
<1>1. /\ done' = [done EXCEPT ![m] = Ended(p)] /\ UNCHANGED <<queue, owner, playing>>
      /\ ppc[p] = "report" /\ ppc' = [ppc EXCEPT ![p] = "asleep"]
      /\ doneSem' = [doneSem EXCEPT ![p] = @ + 1] /\ mpc' = mpc
  BY DEF ReportStep, FinishTurn, Goto, hall, master
<1>2. /\ \A q \in Players : q # p => me'[q] = me[q]
      /\ me'[p].machine = m
      /\ (me'[p].leave <=> Ended(p))
  BY ReportEffect
<1>3. m # NoMachine /\ ~me[p].leave
  BY <1>1 DEF PlaceInv
<1>4. m \in Machines /\ owner[m] = p
  BY <1>3 DEF OwnerInv, TypeOK, Locals
<1>5. ~Waiting(p) /\ ~Waiting(p)'
  BY <1>2, <1>3 DEF Waiting
<1>6. playing[m] /\ \A n \in Machines : owner[n] = p => n = m
  BY <1>4, <1>5 DEF OwnerInv
<1>7. SlotOver(p)'
  <2>1. mpc = "collect" /\ doneSem[p] = 0
    BY <1>1, OnlyInSlot DEF TurnInv, InTurn, Called
  <2> QED BY <2>1, <1>1 DEF SlotOver, TypeOK
<1>8. \A q \in Players : (Waiting(q)' <=> Waiting(q)) /\ Given(q)' = Given(q)
  BY <1>1, <1>2, <1>5 DEF Waiting, Given
<1>9. \A q \in Players : q # p => (SlotOver(q)' <=> SlotOver(q)) /\ ppc'[q] = ppc[q]
  BY FreshTurn, OnlyInSlot
<1>10. /\ done'[m] = me'[p].leave
       /\ \A n \in Machines : n # m => done'[n] = done[n]
  <2>1. me'[p].leave \in BOOLEAN /\ Ended(p) \in BOOLEAN
    BY ReportEffect DEF Locals, TypeOK, Ended
  <2> QED BY <2>1, <1>1, <1>2, <1>4 DEF TypeOK
<1>11. OwnerInv'
  <2>1. ASSUME NEW n \in Machines, owner'[n] = NoPlayer
        PROVE  ~playing'[n] /\ ~done'[n]
    <3>1. n # m
      BY <2>1, <1>1, <1>4, ClawAssumption
    <3> QED BY <3>1, <2>1, <1>1, <1>10 DEF OwnerInv
  <2>2. ASSUME NEW n \in Machines, NEW q \in Players, owner'[n] = q
        PROVE  \/ Waiting(q)' /\ ~playing'[n] /\ ~done'[n]
               \/ /\ me'[q].machine = n /\ playing'[n]
                  /\ done'[n] = me'[q].leave
                  /\ me'[q].leave => SlotOver(q)'
    <3>1. CASE q = p
      BY <3>1, <2>2, <1>1, <1>2, <1>6, <1>7, <1>10
    <3>2. CASE q # p
      <4>1. owner[n] = q /\ n # m
        BY <3>2, <2>2, <1>1, <1>4
      <4> QED BY <4>1, <3>2, <1>1, <1>2, <1>8, <1>9, <1>10 DEF OwnerInv
    <3> QED BY <3>1, <3>2
  <2>3. \A k, n \in Machines : owner'[k] = owner'[n] /\ owner'[k] # NoPlayer => k = n
    BY <1>1 DEF OwnerInv
  <2>4. \A q \in Players : me'[q].machine # NoMachine /\ ~me'[q].leave =>
          owner'[me'[q].machine] = q
    BY <1>1, <1>2, <1>4 DEF OwnerInv
  <2> QED BY <2>1, <2>2, <2>3, <2>4 DEF OwnerInv
<1>12. \A k \in DOMAIN queue : queue[k] \in Players
  BY DEF TypeOK
<1>13. \A q \in Players : ppc'[q] = "enqueue" => ppc[q] = "enqueue"
  BY <1>1 DEF TypeOK
<1>14. QueueInv'
  BY <1>1, <1>8, <1>12, <1>13 DEF QueueInv, NoFreeMachineBesideQueue, Free
<1> QED BY <1>11, <1>14

LEMMA HallPlayer ==
  ASSUME TypeOK, TurnInv, RoundInv, PlaceInv, OwnerInv, QueueInv,
         NEW p \in Players, PlayerStep(p)
  PROVE  OwnerInv' /\ QueueInv'
<1>1. CASE AnnounceStep(p)
  BY <1>1, HallAnnounce
<1>2. CASE TakeFree(p) \/ TakeGiven(p)
  <2>1. PICK m \in Machines :
          /\ Sit(p, m) /\ ppc[p] = "seat"
          /\ \/ TakeFree(p) /\ owner[m] = NoPlayer
             \/ TakeGiven(p) /\ owner[m] = p
    BY <1>2, SitsDown
  <2>2. \/ ~me[p].lineUp /\ owner[m] = NoPlayer
        \/ me[p].machine = NoMachine /\ owner[m] = p
    BY <2>1 DEF TakeFree, TakeGiven, Waits
  <2> QED BY <2>1, <2>2, HallSit
<1>3. CASE JoinQueue(p)
  BY <1>3, HallJoin
<1>4. CASE ReportStep(p)
  BY <1>4, HallReport
<1>5. CASE Play(p)
  <2>1. UNCHANGED <<queue, owner, playing, done>> /\ ppc'[p] = "report"
    BY <1>5 DEF Play, hall, Goto, TypeOK
  <2>2. \A q \in Players : /\ me'[q].lineUp = me[q].lineUp
                           /\ me'[q].machine = me[q].machine
                           /\ me'[q].leave = me[q].leave
    BY <1>5, PlayEffect
  <2> QED BY <2>1, <2>2, HallQuiet
<1>6. CASE Wake(p) \/ PassGate(p) \/ FindAllTaken(p) \/ StayOn(p) \/ SitOut(p)
  <2>1. UNCHANGED <<queue, owner, playing, done>> /\ me' = me
    BY <1>6 DEF Wake, PassGate, FindAllTaken, StayOn, SitOut, hall
  <2>2. ppc'[p] = "enqueue" => Free = {}
    BY <1>6 DEF Wake, PassGate, AfterGate, FindAllTaken, StayOn, SitOut, Goto, FinishTurn,
                TypeOK
  <2> QED BY <2>1, <2>2, HallQuiet
<1> QED BY <1>1, <1>2, <1>3, <1>4, <1>5, <1>6 DEF PlayerStep, Seat

----------------------------------------------------------------------------
(* The invariant and the theorems *)

ClawInv == /\ TypeOK /\ TurnInv /\ RoundInv /\ PrizesCounted
           /\ PlaceInv /\ OwnerInv /\ QueueInv

LEMMA ClawStep ==
  ASSUME ClawInv, AnyStep \/ UNCHANGED vars
  PROVE  ClawInv'
<1> USE DEF ClawInv
<1>1. CASE DrainStep
  <2>1. HandOver /\ me' = me
    BY <1>1 DEF DrainStep, EndSlot
  <2>2. MasterStep
    BY <1>1 DEF MasterStep
  <2>3. OwnerInv'
    BY <2>1, OwnerDrain
  <2>4. QueueInv'
    BY <1>1, QueueDrain
  <2> QED BY <2>2, <2>3, <2>4, TypeMaster, TurnMaster, RoundMaster
<1>2. CASE MasterStep /\ ~DrainStep
  BY <1>2, TypeMaster, TurnMaster, RoundMaster, HallMasterWaits
<1>3. ASSUME NEW p \in Players, PlayerStep(p)
      PROVE  ClawInv'
  <2>1. \A q \in Players : q # p => ppc'[q] = ppc[q]
    BY <1>3, OnlyInSlot
  <2>2. TypeOK' /\ TurnInv' /\ PrizesCounted'
    BY <1>3, TypePlayer, TurnPlayer, CountPlayer
  <2>3. RoundInv' /\ PlaceInv'
    BY <1>3, <2>1, RoundPlayer, PlacePlayer
  <2> QED BY <1>3, <2>2, <2>3, HallPlayer
<1>4. CASE UNCHANGED vars
  <2>1. /\ UNCHANGED <<input, mpc, timer, prevFinished, detach, finished, guarantee, queue,
                       owner, playing, done, msgOrder, startSem, doneSem, ppc, me, talked>>
    BY <1>4 DEF vars, master, hall, count, sems
  <2>2. TypeOK' /\ TurnInv'
    BY <2>1 DEF TypeOK, TurnInv, Called, InTurn, Through, Rested
  <2>3. RoundInv' /\ PrizesCounted' /\ PlaceInv'
    BY <2>1 DEF RoundInv, PrizesCounted, PlaceInv, Waiting
  <2>4. OwnerInv' /\ QueueInv'
    BY <2>1 DEF OwnerInv, SlotOver, Waiting, QueueInv, Given, Free, NoFreeMachineBesideQueue
  <2> QED BY <2>2, <2>3, <2>4
<1> QED BY <1>1, <1>2, <1>3, <1>4 DEF AnyStep, Exit

\* In this program who leaves a machine is not in the line either.
LeaversLeft == \A p \in Players : me[p].leave => ~me[p].lineUp

LEMMA AnnounceIsStep ==
  ASSUME TypeOK, LeaversLeft, NEW p \in Players, Announce(p)
  PROVE  AnnounceStep(p)
<1>1. /\ Others(p) /\ ~me'[p].leave /\ me'[p].machine = NoMachine
      /\ me'[p].lineUp = me[p].lineUp /\ me'[p].prize = me[p].prize
      /\ me'[p].once = me[p].once /\ me'[p].total = me[p].total
  BY DEF TypeOK, Announce, Locals, NoMachine, Others
<1>2. ~me[p].lineUp
  BY DEF Announce, LeaversLeft
<1> QED BY <1>1, <1>2 DEF Announce, AnnounceStep

LEMMA ReportIsStep ==
  ASSUME TypeOK, NEW p \in Players, Report(p)
  PROVE  ReportStep(p) /\ (me'[p].lineUp <=> ~Ended(p))
<1> DEFINE row == input.player[p]
<1>1. row.once \in Nat \ {0} /\ row.rest \in Nat
  BY ClawAssumption DEF TypeOK, Row
<1>2. Ended(p) \in BOOLEAN /\ timer + 1 + row.rest \in Nat /\ timer \in Nat
  BY <1>1 DEF TypeOK, Ended, Locals
<1>5. /\ Others(p) /\ me'[p].machine = me[p].machine
      /\ (me'[p].leave <=> Ended(p)) /\ (me'[p].lineUp <=> ~Ended(p))
      /\ me'[p].prize = me[p].prize /\ me'[p].total = me[p].total /\ me'[p].once # 0
  <2> USE DEF Others
  <2>1. CASE Ended(p)
    <3>1. \E a \in Nat : me' = [me EXCEPT ![p].leave = TRUE, ![p].lineUp = FALSE,
                                          ![p].arrive = a, ![p].once = row.once]
      BY <1>2, <2>1 DEF Report
    <3>2. PICK a \in Nat : me' = [me EXCEPT ![p].leave = TRUE, ![p].lineUp = FALSE,
                                            ![p].arrive = a, ![p].once = row.once]
      BY <3>1
    <3> HIDE DEF row
    <3> DEFINE now == [me[p] EXCEPT !.leave = TRUE, !.lineUp = FALSE,
                                    !.arrive = a, !.once = row.once]
    <3>5. me' = [me EXCEPT ![p] = now]
      BY <3>2
    <3>6. me[p] \in Locals
      BY DEF TypeOK
    <3>7. /\ now \in Locals
          /\ now.machine = me[p].machine /\ now.leave /\ ~now.lineUp
          /\ now.prize = me[p].prize /\ now.total = me[p].total
          /\ now.once = row.once
      BY <3>6, <1>1 DEF Locals
    <3> HIDE DEF now
    <3>3. /\ me' \in [Players -> Locals] /\ \A q \in Players : q # p => me'[q] = me[q]
          /\ me'[p].machine = me[p].machine /\ me'[p].leave /\ ~me'[p].lineUp
          /\ me'[p].prize = me[p].prize /\ me'[p].total = me[p].total
          /\ me'[p].once = row.once
      BY <3>5, <3>7 DEF TypeOK
    <3> QED BY <3>3, <1>1, <2>1
  <2>2. CASE ~Ended(p)
    <3>1. me' = [me EXCEPT ![p].leave = FALSE, ![p].lineUp = TRUE]
      BY <2>2 DEF Report
    <3>2. me[p].once # 0
      BY <2>2 DEF Ended
    <3>3. /\ me' \in [Players -> Locals] /\ \A q \in Players : q # p => me'[q] = me[q]
          /\ me'[p].machine = me[p].machine /\ ~me'[p].leave /\ me'[p].lineUp
          /\ me'[p].prize = me[p].prize /\ me'[p].total = me[p].total
          /\ me'[p].once = me[p].once
      BY <3>1 DEF TypeOK, Locals
    <3> QED BY <3>2, <3>3, <2>2
  <2> QED BY <2>1, <2>2
<1> QED BY <1>5 DEF Report, ReportStep

\* Every step is one of the steps above, and keeps LeaversLeft.
LEMMA NextIsStep ==
  ASSUME ClawInv, LeaversLeft, Next
  PROVE  AnyStep /\ LeaversLeft'
<1> USE DEF ClawInv
<1>1. CASE Master
  <2>1. MasterStep
    BY <1>1 DEF Master, MasterStep, Release, ReleaseStep, Drain, DrainStep
  <2>2. me' = me
    BY <2>1, TurnMaster
  <2> QED BY <2>1, <2>2 DEF AnyStep, LeaversLeft
<1>2. ASSUME NEW p \in Players, Player(p)
      PROVE  AnyStep /\ LeaversLeft'
  <2>1. PlayerStep(p)
    BY <1>2, AnnounceIsStep, ReportIsStep DEF Player, PlayerStep
  <2>2. \A q \in Players : q # p => me'[q] = me[q]
    BY <2>1, LocalsStep
  <2>3. me'[p].leave => ~me'[p].lineUp
    <3>1. CASE Announce(p)
      BY <3>1, AnnounceIsStep DEF AnnounceStep
    <3>2. CASE TakeFree(p) \/ TakeGiven(p)
      BY <3>2, SitsDown, SitEffect DEF PlaceInv
    <3>3. CASE JoinQueue(p)
      <4>1. me'[p].leave = me[p].leave /\ ppc[p] = "enqueue"
        BY <3>3, JoinEffect DEF JoinQueue
      <4> QED BY <4>1 DEF PlaceInv
    <3>4. CASE Play(p)
      BY <3>4, PlayEffect DEF LeaversLeft
    <3>5. CASE Report(p)
      BY <3>5, ReportIsStep DEF ReportStep
    <3>6. CASE Wake(p) \/ PassGate(p) \/ FindAllTaken(p) \/ StayOn(p) \/ SitOut(p)
      BY <3>6 DEF Wake, PassGate, FindAllTaken, StayOn, SitOut, LeaversLeft
    <3> QED BY <1>2, <3>1, <3>2, <3>3, <3>4, <3>5, <3>6 DEF Player, Seat
  <2> QED BY <2>1, <2>2, <2>3 DEF AnyStep, LeaversLeft
<1>3. CASE Exit
  BY <1>3 DEF AnyStep, Exit, vars, LeaversLeft
<1> QED BY <1>1, <1>2, <1>3 DEF Next

LEMMA ClawInvariant == Spec => [](ClawInv /\ LeaversLeft)
<1>1. Init => ClawInv /\ LeaversLeft
  <2>1. Init => LeaversLeft
    BY DEF Init, InitWith, LeaversLeft
  <2>2. Init => ClawInv
    BY InitTurn, InitHall DEF Init, ClawInv
  <2> QED BY <2>1, <2>2
<1>2. ClawInv /\ LeaversLeft /\ [Next]_vars => (ClawInv /\ LeaversLeft)'
  <2>1. ClawInv /\ LeaversLeft /\ Next => (ClawInv /\ LeaversLeft)'
    BY NextIsStep, ClawStep
  <2>2. ClawInv /\ LeaversLeft /\ UNCHANGED vars => (ClawInv /\ LeaversLeft)'
    BY ClawStep DEF LeaversLeft, vars
  <2> QED BY <2>1, <2>2
<1> QED BY <1>1, <1>2, PTL DEF Spec

LEMMA OneEach == ClawInv => OnePlayerPerMachine
<1> SUFFICES ASSUME ClawInv, NEW p \in Players,
                    me[p].machine # NoMachine, ~me[p].leave
             PROVE  Given(p) = {me[p].machine} /\ playing[me[p].machine]
  BY DEF OnePlayerPerMachine
<1>0. TypeOK /\ OwnerInv
  BY DEF ClawInv
<1>1. me[p].machine \in Machines /\ owner[me[p].machine] = p
  BY <1>0 DEF TypeOK, Locals, OwnerInv
<1>4. ~Waiting(p)
  BY DEF Waiting
<1>2. playing[me[p].machine]
  <2>1. \A m \in Machines : owner[m] = p => playing[m]
    BY <1>0, <1>4 DEF OwnerInv
  <2> QED BY <1>1, <2>1
<1>5. p # NoPlayer
  BY ClawAssumption
<1>6. \A m, n \in Machines : owner[m] = p /\ owner[n] = p => m = n
  BY <1>0, <1>5 DEF OwnerInv
<1>3. \A m \in Machines : owner[m] = p => m = me[p].machine
  BY <1>1, <1>6
<1> QED BY <1>1, <1>2, <1>3 DEF Given

\* Every variable keeps its type; with it the counters their bounds: never more
\* prizes than players, the semaphores of a player 0 or 1, and a guarantee
\* counter that is reset before it reaches 0.
THEOREM TypeCorrect == Spec => []TypeOK
<1>1. ClawInv => TypeOK
  BY DEF ClawInv
<1> QED BY <1>1, ClawInvariant, PTL

\* A machine is played by one player at a time, and who plays a machine owns it
\* and no other (lines 278-289, 308-317), for any number of players and machines.
THEOREM OneAtAMachine == Spec => []OnePlayerPerMachine
BY OneEach, ClawInvariant, PTL

\* Every prize is counted exactly once, by the report that follows it, so the
\* master's loop test reads the number of players that have theirs.
THEOREM EveryPrizeCounted == Spec => []PrizesCounted
<1>1. ClawInv => PrizesCounted
  BY DEF ClawInv
<1> QED BY <1>1, ClawInvariant, PTL

\* As long as somebody waits in the queue, no machine is without an owner: whoever
\* arrives cannot overtake.
THEOREM QueueMeansNoneFree == Spec => []NoFreeMachineBesideQueue
<1>1. ClawInv => NoFreeMachineBesideQueue
  BY DEF ClawInv, QueueInv
<1> QED BY <1>1, ClawInvariant, PTL

\* Between slots a player that lined up is in one place, once: in the queue, or
\* owner of one machine; and nobody else is in either (lines 197-214, 277-302).
THEOREM NobodyIsLost == Spec => []NobodyLost
<1>1. ClawInv /\ LeaversLeft => NobodyLost
  <2> SUFFICES ASSUME ClawInv, LeaversLeft, BetweenSlots, NEW p \in Players
               PROVE  Cardinality({k \in DOMAIN queue : queue[k] = p})
                        + Cardinality(Given(p)) = IF me[p].lineUp THEN 1 ELSE 0
    BY DEF NobodyLost
  <2> USE DEF ClawInv
  <2> DEFINE inQueue == {k \in DOMAIN queue : queue[k] = p}
  <2>1. ~SlotOver(p)
    BY DEF BetweenSlots, SlotOver
  <2>2. \A m, n \in Given(p) : m = n
    BY ClawAssumption DEF Given, OwnerInv
  <2>3. \A j, k \in inQueue : j = k
    BY DEF QueueInv
  <2>4. inQueue # {} => Given(p) = {} /\ me[p].lineUp
    BY DEF QueueInv, Waiting
  <2>5. Given(p) # {} => me[p].lineUp
    <3> SUFFICES ASSUME NEW m \in Machines, owner[m] = p PROVE me[p].lineUp
      BY DEF Given
    <3>1. CASE Waiting(p)
      BY <3>1 DEF Waiting
    <3>2. CASE me[p].machine = m /\ ~me[p].leave
      BY <3>2, ClawAssumption DEF PlaceInv
    <3> QED BY <3>1, <3>2, <2>1 DEF OwnerInv
  <2>6. me[p].lineUp => inQueue # {} \/ Given(p) # {}
    <3>1. CASE Waiting(p)
      BY <3>1 DEF QueueInv
    <3>2. CASE me[p].machine # NoMachine /\ me[p].lineUp
      <4>1. me[p].machine \in Given(p)
        BY <3>2 DEF LeaversLeft, OwnerInv, Given, TypeOK, Locals
      <4> QED BY <4>1
    <3> QED BY <3>1, <3>2 DEF Waiting
  <2>7. \A S : (\A x, y \in S : x = y) /\ S # {} => Cardinality(S) = 1
    <3> SUFFICES ASSUME NEW S, \A x, y \in S : x = y, S # {} PROVE Cardinality(S) = 1
      OBVIOUS
    <3>1. PICK x \in S : S = {x}
      OBVIOUS
    <3> QED BY <3>1, FS_Singleton
  <2>8. Cardinality({}) = 0
    BY FS_EmptySet
  <2> HIDE DEF inQueue, ClawInv
  <2>9. CASE inQueue # {}
    <3>1. Cardinality(inQueue) = 1 /\ Cardinality(Given(p)) = 0 /\ me[p].lineUp
      BY <2>3, <2>4, <2>7, <2>8, <2>9
    <3> QED BY <3>1 DEF inQueue
  <2>10. CASE inQueue = {} /\ Given(p) # {}
    <3>1. Cardinality(inQueue) = 0 /\ Cardinality(Given(p)) = 1 /\ me[p].lineUp
      BY <2>2, <2>5, <2>7, <2>8, <2>10
    <3> QED BY <3>1 DEF inQueue
  <2>11. CASE inQueue = {} /\ Given(p) = {}
    <3>1. Cardinality(inQueue) = 0 /\ Cardinality(Given(p)) = 0 /\ ~me[p].lineUp
      BY <2>6, <2>8, <2>11
    <3> QED BY <3>1 DEF inQueue
  <2> QED BY <2>9, <2>10, <2>11
<1> QED BY <1>1, ClawInvariant, PTL

\* The slots are a barrier: the clock moves only when every player has taken its
\* turn and sleeps at its start semaphore again.
THEOREM SlotsAreABarrier == Spec => SlotsDoNotOverlap
<1> DEFINE Still == \A p \in Players :
                 ppc[p] \in {"asleep", "gone"} /\ startSem[p] = 0 /\ doneSem[p] = 0
<1>1. ClawInv /\ LeaversLeft /\ [Next]_vars => [timer' # timer => Still]_vars
  <2> SUFFICES ASSUME ClawInv, AnyStep, timer' # timer PROVE Still
    BY NextIsStep DEF vars
  <2>1. DrainStep
    <3>1. \A p \in Players : ~PlayerStep(p)
      BY OnlyInSlot DEF ClawInv, master
    <3>2. ~(ReleaseStep \/ Collect \/ Final \/ CollectLast \/ Exit)
      BY DEF ReleaseStep, Collect, CollectAll, Final, CollectLast, Exit, vars, master
    <3> QED BY <3>1, <3>2 DEF AnyStep, MasterStep
  <2> QED BY <2>1 DEF DrainStep, ClawInv, TurnInv, Rested
<1>2. [](ClawInv /\ LeaversLeft) /\ [][Next]_vars => [][timer' # timer => Still]_vars
  BY <1>1, PTL
<1> QED BY <1>2, ClawInvariant, PTL DEF Spec, SlotsDoNotOverlap

\* Nobody overtakes in the queue: who leaves it does so together with everybody
\* ahead, and everybody ahead then owns a machine (lines 203-206).
THEOREM QueueInOrder == Spec => NobodyOvertakes
<1> DEFINE Fair == \A p, q \in Players :
             Ahead(p, q) /\ q \notin ToSet(queue') =>
               p \notin ToSet(queue') /\ \E m \in Machines : owner'[m] = p
<1>1. ClawInv /\ LeaversLeft /\ [Next]_vars => [Fair]_vars
  <2> SUFFICES ASSUME ClawInv, AnyStep, NEW p \in Players, NEW q \in Players,
                      Ahead(p, q), q \notin ToSet(queue')
               PROVE  p \notin ToSet(queue') /\ \E m \in Machines : owner'[m] = p
    BY NextIsStep
  <2> USE DEF ClawInv
  <2> DEFINE C == Cardinality(Freed)
  <2>1. PICK j \in DOMAIN queue, k \in DOMAIN queue :
          j < k /\ queue[j] = p /\ queue[k] = q
    BY DEF Ahead
  <2>2. DOMAIN queue = 1..Len(queue) /\ Len(queue) \in Nat
    BY DEF TypeOK
  <2>3. \A i \in DOMAIN queue' : queue'[i] # q
    BY DEF ToSet
  <2>4. DrainStep
    <3>1. ~(queue' = queue)
      BY <2>1, <2>3
    <3>2. \A r \in Players : ~JoinQueue(r)
      <4> SUFFICES ASSUME NEW r \in Players, JoinQueue(r) PROVE FALSE
        OBVIOUS
      <4>1. queue' = Append(queue, r)
        BY DEF JoinQueue
      <4>2. k \in DOMAIN queue' /\ queue'[k] = queue[k]
        BY <4>1, <2>1, <2>2 DEF TypeOK
      <4> QED BY <4>2, <2>1, <2>3
    <3>3. \A r \in Players : ~PlayerStep(r)
      BY <3>1, <3>2 DEF PlayerStep, Wake, AnnounceStep, PassGate, Seat, Sit, TakeFree, FindAllTaken,
         TakeGiven, StayOn, SitOut, Play, ReportStep, hall
    <3>4. ~(ReleaseStep \/ Collect \/ Final \/ CollectLast \/ Exit)
      BY <3>1 DEF ReleaseStep, Collect, CollectAll, Final, CollectLast, Exit, vars, hall
    <3> QED BY <3>3, <3>4 DEF AnyStep, MasterStep
  <2>5. HandOver /\ C \in Nat
    BY <2>4, Ranks DEF DrainStep, EndSlot
  <2>6. /\ \A i \in DOMAIN queue' : i + C \in DOMAIN queue /\ queue'[i] = queue[i + C]
        /\ \A i \in DOMAIN queue : i > C => i - C \in DOMAIN queue' /\ queue'[i - C] = queue[i]
    BY <2>5, MovedUp
  <2> HIDE DEF C
  <2>7. ~(k > C)
    BY <2>1, <2>3, <2>6
  <2>8. j \in 1..C
    BY <2>1, <2>2, <2>5, <2>7
  <2>9. PICK m \in Freed : Rank(m) = j
    BY <2>8, Ranks DEF C
  <2>10. m \in Machines /\ owner'[m] = p
    <3>1. m \in Machines /\ Rank(m) <= Len(queue)
      BY <2>1, <2>2, <2>9 DEF Freed
    <3> QED BY <3>1, <2>1, <2>5, <2>9, Handed
  <2>11. \A i \in DOMAIN queue' : queue'[i] # p
    <3> SUFFICES ASSUME NEW i \in DOMAIN queue', queue'[i] = p PROVE FALSE
      OBVIOUS
    <3>1. i + C = j
      BY <2>1, <2>6 DEF QueueInv
    <3>2. i \in Nat /\ i > 0
      <4>1. queue' \in Seq(Players)
        BY <2>4, TypeMaster DEF MasterStep, TypeOK
      <4> QED BY <4>1
    <3> QED BY <3>1, <3>2, <2>5, <2>8
  <2> QED BY <2>10, <2>11 DEF ToSet
<1>2. [](ClawInv /\ LeaversLeft) /\ [][Next]_vars => [][Fair]_vars
  BY <1>1, PTL
<1> QED BY <1>2, ClawInvariant, PTL DEF Spec, NobodyOvertakes
=============================================================================
