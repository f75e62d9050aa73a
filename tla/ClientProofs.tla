---------------------------- MODULE ClientProofs ----------------------------
(***************************************************************************)
(* Theorems about Client, for any number of users, groups and messages.    *)
(***************************************************************************)
EXTENDS Client, FiniteSetTheorems, SequenceTheorems, TLAPS

Ages == {"early", "due", "other"}
Kinds == {"none", "login", "logout", "delete", "send", "join-group", "send-group",
          "other", "empty"}
CommandSet == [kind : Kinds, who : Users \cup {NoOne},
               arg : Users \cup Groups \cup {NoOne}, ok : BOOLEAN]
MessageSet == [kind : {"none", "private", "public"}, age : Ages]
MainPlaces == {"idle", "sent", "replied", "launch", "join", "wait", "take", "put",
               "group-wait", "drain", "exit", "exit-join"}
ThreadPlaces == {"off", "starting", "dead", "on", "acquire", "release", "print",
                 "set-done", "get", "set-topic-done", "put-back", "ended"}

\* The words of a command are of the kinds its kind asks for.
Worded(c) ==
  /\ c.kind \in {"login", "logout", "delete", "send", "join-group", "send-group"} =>
        c.who \in Users
  /\ c.kind = "send" => c.arg \in Users
  /\ c.kind \in {"join-group", "send-group"} => c.arg \in Groups

\* Which command the main thread can be running at each place.
CommandTyped ==
  /\ mpc \in MainPlaces /\ cmd \in CommandSet /\ Worded(cmd)
  /\ mpc = "launch" => cmd.kind = "login"
  /\ mpc = "join" => cmd.kind \in {"logout", "delete"}
  /\ mpc = "wait" => cmd.kind = "send"
  /\ mpc \in {"put", "group-wait", "drain"} => cmd.kind = "send-group"
  /\ mpc = "exit-join" => cmd.who \in Users

SharedTyped ==
  /\ event \in BOOLEAN /\ topicDone \in BOOLEAN
  /\ sem \in Nat /\ counter \in Seq(Nat)
  /\ quantity \in [Groups -> Nat]
  /\ surplus \in Nat /\ leftover \in Nat

ThreadsTyped ==
  /\ tpc \in [Users -> ThreadPlaces]
  /\ cur \in [Users -> MessageSet]
  /\ held \in [Users -> Int]
  /\ done \in [Users -> BOOLEAN]
  /\ stop \in [Users -> {"no", "logout", "delete", "exit"}]

MailTyped ==
  /\ priv \in [Users -> Seq(Ages)]
  /\ pub \in [Users -> [Groups -> Seq(Ages)]]

Typed == CommandTyped /\ SharedTyped /\ ThreadsTyped /\ MailTyped

----------------------------------------------------------------------------
(* Types *)

LEMMA NoCommandTyped == NoCommand \in CommandSet /\ Worded(NoCommand)
BY ClientAssumption DEF NoCommand, CommandSet, Kinds, Worded

LEMMA NoMessageTyped == NoMessage \in MessageSet /\ NoMessage.age = "other"
BY DEF NoMessage, MessageSet, Ages

LEMMA InitTyped == Init => Typed
<1> SUFFICES ASSUME Init PROVE Typed
  OBVIOUS
<1>1. <<>> \in Seq(Ages) /\ <<>> \in Seq(Nat)
  BY EmptySeq
<1>2. CommandTyped
  BY NoCommandTyped DEF Init, CommandTyped, MainPlaces
<1>3. SharedTyped
  BY <1>1 DEF Init, SharedTyped
<1>4. ThreadsTyped
  <2>1. cur \in [Users -> MessageSet]
    <3>1. cur = [u \in Users |-> NoMessage]
      BY DEF Init
    <3> QED
      BY <3>1, NoMessageTyped
  <2>2. tpc \in [Users -> ThreadPlaces]
    BY DEF Init, ThreadPlaces
  <2>3. held \in [Users -> Int] /\ stop \in [Users -> {"no", "logout", "delete", "exit"}]
    <3>1. held = [u \in Users |-> 0]
      BY DEF Init
    <3>2. stop = [u \in Users |-> "no"]
      BY DEF Init
    <3> QED
      BY <3>1, <3>2
  <2>4. done \in [Users -> BOOLEAN]
    <3>1. done = [u \in Users |-> FALSE]
      BY DEF Init
    <3> QED
      BY <3>1
  <2> QED
    BY <2>1, <2>2, <2>3, <2>4 DEF ThreadsTyped
<1>5. MailTyped
  BY <1>1 DEF Init, MailTyped, Nothing
<1> QED
  BY <1>2, <1>3, <1>4, <1>5 DEF Typed

\* Whatever the user types is one of the commands.
LEMMA CommandsTyped ==
  ASSUME NEW c \in Commands
  PROVE  c \in CommandSet /\ Worded(c)
<1>1. \A d \in [kind : {"login"}, who : Users, arg : {NoOne}, ok : {FALSE}] :
         d \in CommandSet /\ Worded(d)
  BY DEF CommandSet, Kinds, Worded
<1>2. \A d \in [kind : {"logout", "delete"}, who : Here, arg : {NoOne}, ok : {FALSE}] :
         d \in CommandSet /\ Worded(d)
  BY DEF CommandSet, Kinds, Worded, Here
<1>3. \A d \in [kind : {"send"}, who : Here, arg : Users, ok : {FALSE}] :
         d \in CommandSet /\ Worded(d)
  BY DEF CommandSet, Kinds, Worded, Here
<1>4. \A d \in [kind : {"join-group", "send-group"}, who : Here, arg : Groups, ok : {FALSE}] :
         d \in CommandSet /\ Worded(d)
  BY DEF CommandSet, Kinds, Worded, Here
<1>5. \A d \in [kind : {"other", "empty"}, who : {NoOne}, arg : {NoOne}, ok : {FALSE}] :
         d \in CommandSet /\ Worded(d)
  BY DEF CommandSet, Kinds, Worded
<1> QED
  BY <1>1, <1>2, <1>3, <1>4, <1>5 DEF Commands

\* Ageing keeps every message where it is, and its kind.
LEMMA AgedOver ==
  ASSUME ThreadsTyped, MailTyped, AgeMessages(Over)
  PROVE  /\ MailTyped' /\ cur' \in [Users -> MessageSet]
         /\ \A u \in Users : cur'[u].age = "other" /\ cur'[u].kind = cur[u].kind
         /\ \A u \in Users : \A i \in DOMAIN priv'[u] : priv'[u][i] = "other"
         /\ \A u \in Users, g \in Groups :
              \A i \in DOMAIN pub'[u][g] : pub'[u][g][i] = "other"
<1>1. ASSUME NEW s \in Seq(Ages)
      PROVE  [i \in 1..Len(s) |-> "other"] \in Seq(Ages)
  BY <1>1, SeqDef, LenProperties DEF Ages
<1>2. ASSUME NEW m \in MessageSet
      PROVE  /\ [m EXCEPT !.age = "other"] \in MessageSet
             /\ [m EXCEPT !.age = "other"].age = "other"
             /\ [m EXCEPT !.age = "other"].kind = m.kind
  BY <1>2 DEF MessageSet, Ages
<1>3. /\ priv' = [u \in Users |-> [i \in 1..Len(priv[u]) |-> "other"]]
      /\ pub' = [u \in Users |-> [g \in Groups |-> [i \in 1..Len(pub[u][g]) |-> "other"]]]
      /\ cur' = [u \in Users |-> [cur[u] EXCEPT !.age = "other"]]
  BY DEF AgeMessages, Over
<1>4. MailTyped'
  BY <1>1, <1>3 DEF MailTyped
<1>5. /\ cur' \in [Users -> MessageSet]
      /\ \A u \in Users : cur'[u].age = "other" /\ cur'[u].kind = cur[u].kind
  BY <1>2, <1>3 DEF ThreadsTyped
<1> QED
  BY <1>3, <1>4, <1>5
LEMMA AgedAnswered ==
  ASSUME ThreadsTyped, MailTyped, AgeMessages(Answered)
  PROVE  /\ MailTyped' /\ cur' \in [Users -> MessageSet]
         /\ \A u \in Users : /\ cur'[u].age = Answered(cur[u].age)
                             /\ cur'[u].kind = cur[u].kind
         /\ \A u \in Users : 
               /\ DOMAIN priv'[u] = DOMAIN priv[u]
               /\ \A i \in DOMAIN priv'[u] : priv'[u][i] = Answered(priv[u][i])
         /\ \A u \in Users, g \in Groups :
               /\ DOMAIN pub'[u][g] = DOMAIN pub[u][g]
               /\ \A i \in DOMAIN pub'[u][g] : pub'[u][g][i] = Answered(pub[u][g][i])
<1>0. \A a \in Ages : Answered(a) \in Ages
  BY DEF Ages, Answered
<1>1. ASSUME NEW s \in Seq(Ages)
      PROVE  [i \in 1..Len(s) |-> Answered(s[i])] \in Seq(Ages)
  <2>1. Len(s) \in Nat /\ \A i \in 1..Len(s) : s[i] \in Ages
    BY <1>1, LenProperties, ElementOfSeq
  <2>2. \A i \in 1..Len(s) : Answered(s[i]) \in Ages
    BY <1>0, <2>1
  <2>3. [i \in 1..Len(s) |-> Answered(s[i])] \in [1..Len(s) -> Ages]
    BY <2>2
  <2> QED
    BY <2>1, <2>3, SeqDef
<1>2. ASSUME NEW m \in MessageSet, NEW a \in Ages
      PROVE  /\ [m EXCEPT !.age = a] \in MessageSet
             /\ [m EXCEPT !.age = a].age = a
             /\ [m EXCEPT !.age = a].kind = m.kind
  BY <1>2 DEF MessageSet, Ages
<1>3. /\ priv' = [u \in Users |-> [i \in 1..Len(priv[u]) |-> Answered(priv[u][i])]]
      /\ pub' = [u \in Users |-> [g \in Groups |->
                   [i \in 1..Len(pub[u][g]) |-> Answered(pub[u][g][i])]]]
      /\ cur' = [u \in Users |-> [cur[u] EXCEPT !.age = Answered(cur[u].age)]]
  BY DEF AgeMessages
<1>4. MailTyped'
  BY <1>1, <1>3 DEF MailTyped
<1>5. /\ cur' \in [Users -> MessageSet]
      /\ \A u \in Users : /\ cur'[u].age = Answered(cur[u].age)
                          /\ cur'[u].kind = cur[u].kind
  <2>1. \A u \in Users : cur[u] \in MessageSet /\ Answered(cur[u].age) \in Ages
    BY <1>0 DEF ThreadsTyped, MessageSet
  <2> QED
    BY <1>2, <1>3, <2>1
<1>6. \A u \in Users : /\ DOMAIN priv[u] = 1..Len(priv[u])
                       /\ \A g \in Groups : DOMAIN pub[u][g] = 1..Len(pub[u][g])
  BY LenProperties DEF MailTyped
<1> QED
  BY <1>3, <1>4, <1>5, <1>6

\* How the main thread's place and command change.
LEMMA NextCommandTyped ==
  ASSUME CommandTyped, [Next]_vars
  PROVE  CommandTyped'
<1>1. ASSUME mpc' \in {"idle", "exit"}, cmd' = NoCommand
      PROVE  CommandTyped'
  BY <1>1, NoCommandTyped DEF CommandTyped, MainPlaces
<1>2. ASSUME UNCHANGED <<mpc, cmd>> PROVE CommandTyped'
  BY <1>2 DEF CommandTyped
<1>3. ASSUME NEW c \in Commands, mpc' = "sent", cmd' = c
      PROVE  CommandTyped'
  BY <1>3, CommandsTyped DEF CommandTyped, MainPlaces
<1>4. CASE Serve
  <2>1. mpc' = "replied"
    BY <1>4 DEF Serve
  <2>2. cmd' \in CommandSet /\ Worded(cmd')
    <3>1. cmd' = cmd \/ cmd' = [cmd EXCEPT !.ok = TRUE]
      BY <1>4 DEF Serve
    <3>2. ASSUME NEW c \in CommandSet
          PROVE  /\ [c EXCEPT !.ok = TRUE] \in CommandSet
                 /\ [c EXCEPT !.ok = TRUE].kind = c.kind
                 /\ [c EXCEPT !.ok = TRUE].who = c.who
                 /\ [c EXCEPT !.ok = TRUE].arg = c.arg
      BY <3>2 DEF CommandSet
    <3>3. Worded(cmd) /\ cmd \in CommandSet
      BY DEF CommandTyped
    <3>4. CASE cmd' = cmd
      BY <3>3, <3>4
    <3>5. CASE cmd' = [cmd EXCEPT !.ok = TRUE]
      <4>1. /\ cmd' \in CommandSet /\ cmd'.kind = cmd.kind
            /\ cmd'.who = cmd.who /\ cmd'.arg = cmd.arg
        BY <3>2, <3>3, <3>5
      <4> QED
        BY <3>3, <4>1 DEF Worded
    <3> QED
      BY <3>1, <3>4, <3>5
  <2> QED
    BY <2>1, <2>2 DEF CommandTyped, MainPlaces
<1>5. ASSUME NEW u \in Users, ExitStop(u) PROVE CommandTyped'
  <2>1. mpc = "exit" /\ mpc' = "exit-join" /\ cmd' = [cmd EXCEPT !.who = u]
    BY <1>5 DEF ExitStop
  <2>2. ASSUME NEW c \in CommandSet
        PROVE  /\ [c EXCEPT !.who = u] \in CommandSet
               /\ [c EXCEPT !.who = u].kind = c.kind
               /\ [c EXCEPT !.who = u].who = u
               /\ [c EXCEPT !.who = u].arg = c.arg
    BY <2>2 DEF CommandSet
  <2>3. /\ cmd' \in CommandSet /\ cmd'.kind = cmd.kind
        /\ cmd'.who = u /\ cmd'.arg = cmd.arg
    BY <2>1, <2>2 DEF CommandTyped
  <2> QED
    BY <2>1, <2>3 DEF CommandTyped, MainPlaces, Worded
<1>6. ASSUME cmd' = cmd,
             \/ mpc' = "launch" /\ cmd.kind = "login"
             \/ mpc' = "join" /\ cmd.kind \in {"logout", "delete"}
             \/ mpc' = "wait" /\ cmd.kind = "send"
             \/ mpc' = "put" /\ cmd.kind = "send-group"
             \/ mpc' = "group-wait" /\ mpc = "put"
             \/ mpc' = "drain" /\ mpc = "group-wait"
             \/ mpc' \in {"take", "exit"}
      PROVE  CommandTyped'
  BY <1>6 DEF CommandTyped, MainPlaces
<1>7. CASE MainStep
  <2>1. CASE ShowAnswer \/ CountTopics \/ JoinThread \/ ShowJoinGroup \/ TakeSemaphore
    BY <1>1, <2>1 DEF ShowAnswer, CountTopics, JoinThread, ShowJoinGroup, TakeSemaphore,
       Finish
  <2>2. CASE GroupNotCounted \/ CounterAway
    BY <1>1, <2>2 DEF GroupNotCounted, CounterAway, Except
  <2>3. CASE ExitJoin \/ StartAgain
    BY <1>1, <2>3 DEF ExitJoin, StartAgain
  <2>4. CASE ShowLogin \/ ShowLogout \/ ShowSend \/ ShowSendGroup
    BY <1>6, <2>4 DEF ShowLogin, ShowLogout, ShowSend, ShowSendGroup, OpenSemaphore, GoOn,
       Shown
  <2>5. CASE WaitEnds \/ PutQuantity \/ GroupWaitEnds \/ DrainCounter
    BY <1>6, <2>5 DEF WaitEnds, PutQuantity, GroupWaitEnds, DrainCounter, GoOn
  <2> QED
    BY <1>4, <1>5, <1>7, <2>1, <2>2, <2>3, <2>4, <2>5 DEF MainStep, OwnStep
<1>8. CASE Environment
  <2>1. CASE ConnectionFails
    BY <1>1, <2>1 DEF ConnectionFails, Except
  <2>2. ASSUME NEW c \in Commands, ReadCommand(c) PROVE CommandTyped'
    BY <1>3, <2>2 DEF ReadCommand
  <2>3. CASE Exit
    BY <1>6, <2>3 DEF Exit, GoOn
  <2>4. CASE RemoteMessage \/ \E u \in Users : RunFails(u) \/ \E g \in Groups : JoinElsewhere(u, g)
    BY <1>2, <2>4 DEF RemoteMessage, main, RunFails, Move, JoinElsewhere
  <2> QED
    BY <1>8, <2>1, <2>2, <2>3, <2>4 DEF Environment
<1>9. CASE \E u \in Users : ThreadStep(u)
  BY <1>2, <1>9 DEF ThreadStep, Run, Receive, Acquire, Release, PrintMessage, SetDone,
     GetCounter, SetTopicDone, PutCounter, StopConsuming, At, Move, main
<1>10. CASE UNCHANGED vars
  BY <1>2, <1>10 DEF vars, main
<1> QED
  BY <1>7, <1>8, <1>9, <1>10 DEF Next

LEMMA FrontTyped ==
  ASSUME NEW S, NEW s \in Seq(S), s # <<>>
  PROVE  /\ Front(s) \in Seq(S) /\ Len(Front(s)) = Len(s) - 1
         /\ Last(s) \in S
<1>1. Len(s) \in Nat \ {0} /\ \A k \in 1..Len(s) : s[k] \in S
  BY LenProperties, EmptySeq, ElementOfSeq
<1>2. SubSeq(s, 1, Len(s) - 1) \in Seq(S)
      /\ Len(SubSeq(s, 1, Len(s) - 1)) = Len(s) - 1
  BY <1>1, SubSeqProperties
<1> QED
  BY <1>1, <1>2 DEF Front, Last

\* What the threads share keeps its type.
LEMMA NextSharedTyped ==
  ASSUME CommandTyped, SharedTyped, held \in [Users -> Int], [Next]_vars
  PROVE  SharedTyped'
<1> USE DEF SharedTyped
<1>1. ASSUME UNCHANGED <<event, topicDone, sem, counter, quantity, surplus, leftover>>
      PROVE  SharedTyped'
  BY <1>1
<1>2. CASE ShowAnswer \/ JoinThread
  BY <1>2 DEF ShowAnswer, JoinThread, Finish, history, books
<1>3. CASE CountTopics
  <2>1. /\ UNCHANGED <<topicDone, sem, counter, surplus, leftover>> /\ event' = FALSE
        /\ quantity' = [g \in Groups |->
                      quantity[g] + IF g \in member[cmd.who] THEN 1 ELSE 0]
    BY <1>3 DEF CountTopics, Finish, history
  <2>2. quantity' \in [Groups -> Nat]
    BY <2>1
  <2> QED
    BY <2>1, <2>2
<1>4. CASE ShowLogout
  <2>1. /\ UNCHANGED <<event, topicDone, sem, counter, surplus, leftover>>
        /\ quantity' = [g \in Groups |->
                      IF g \in joined[cmd.who] /\ quantity[g] > 0 THEN quantity[g] - 1
                      ELSE quantity[g]]
    BY <1>4 DEF ShowLogout, GoOn, history
  <2>2. \A g \in Groups : (IF g \in joined[cmd.who] /\ quantity[g] > 0 THEN quantity[g] - 1
                          ELSE quantity[g]) \in Nat
    OBVIOUS
  <2>3. quantity' \in [Groups -> Nat]
    BY <2>1, <2>2
  <2> QED
    BY <2>1, <2>3
<1>5. CASE ShowJoinGroup
  <2>1. /\ UNCHANGED <<topicDone, sem, counter, surplus, leftover>> /\ event' = FALSE
        /\ quantity' = [quantity EXCEPT ![cmd.arg] = @ + 1]
    BY <1>5 DEF ShowJoinGroup, Finish, history
  <2>2. cmd.arg \in Groups
    BY <1>5 DEF ShowJoinGroup, Shown, CommandTyped, Worded
  <2>3. quantity' \in [Groups -> Nat]
    BY <2>1, <2>2
  <2> QED
    BY <2>1, <2>3
<1>6. CASE ShowSend \/ ShowSendGroup
  <2>1. /\ UNCHANGED <<event, topicDone, counter, quantity, surplus, leftover>>
        /\ sem' = sem + 1
    BY <1>6 DEF ShowSend, ShowSendGroup, OpenSemaphore, GoOn, books, history
  <2> QED
    BY <2>1
<1>7. CASE PutQuantity
  <2>1. /\ UNCHANGED <<event, topicDone, sem, quantity, surplus, leftover>>
        /\ counter' = Append(counter, quantity[cmd.arg])
    BY <1>7 DEF PutQuantity, GoOn, books, history
  <2>3. cmd.arg \in Groups
    BY <1>7 DEF PutQuantity, CommandTyped, Worded
  <2>2. counter' \in Seq(Nat)
    BY <2>1, <2>3, AppendProperties
  <2> QED
    BY <2>1, <2>2
<1>8. CASE GroupNotCounted \/ CounterAway
  <2>1. /\ UNCHANGED <<event, topicDone, sem, counter, quantity>>
        /\ surplus' = surplus + 1 /\ leftover' \in {leftover, leftover + 1}
    BY <1>8 DEF GroupNotCounted, CounterAway, Except, shared, books
  <2> QED
    BY <2>1
<1>9. CASE DrainCounter \/ \E u \in Users : GetCounter(u)
  <2>1. /\ UNCHANGED <<event, topicDone, sem, quantity, surplus, leftover>>
        /\ counter # <<>> /\ counter' = Front(counter)
    BY <1>9 DEF DrainCounter, GoOn, books, history, GetCounter, At, Move
  <2> QED
    BY <2>1, FrontTyped
<1>10. CASE TakeSemaphore
  <2>1. /\ UNCHANGED <<topicDone, counter, quantity, surplus, leftover>>
        /\ sem > 0 /\ sem' = sem - 1 /\ event' = FALSE
    BY <1>10 DEF TakeSemaphore, Finish, books, history
  <2>2. sem' \in Nat
    BY <2>1
  <2> QED
    BY <2>1, <2>2
<1>11. CASE WaitEnds \/ GroupWaitEnds
  BY <1>11 DEF WaitEnds, GroupWaitEnds, GoOn, books
<1>12. CASE StartAgain
  <2>1. <<>> \in Seq(Nat)
    BY EmptySeq
  <2> QED
    BY <1>12, <2>1 DEF StartAgain
<1>13. CASE Serve \/ ShowLogin \/ ExitJoin \/ \E u \in Users : ExitStop(u)
  BY <1>1, <1>13 DEF Serve, ShowLogin, GoOn, ExitJoin, ExitStop, shared, books, history
<1>14. CASE MainStep
  BY <1>2, <1>3, <1>4, <1>5, <1>6, <1>7, <1>8, <1>9, <1>10, <1>11, <1>12, <1>13, <1>14
     DEF MainStep, OwnStep
<1>15. ASSUME NEW c \in Commands, ReadCommand(c) PROVE SharedTyped'
  BY <1>15 DEF ReadCommand, books, history
<1>16. CASE Environment
  <2>1. ASSUME Exit \/ ConnectionFails \/ RemoteMessage \/ \E u \in Users : RunFails(u) 
               \/ \E g \in Groups : JoinElsewhere(u, g)
        PROVE  UNCHANGED <<event, topicDone, sem, counter, quantity, surplus, leftover>>
    BY <2>1 DEF Exit, GoOn, ConnectionFails, Except, RemoteMessage, RunFails, Move,
       JoinElsewhere, shared, books, history
  <2> QED
    BY <1>1, <1>15, <1>16, <2>1 DEF Environment
<1>17. ASSUME NEW u \in Users, Acquire(u) \/ Release(u) PROVE SharedTyped'
  BY <1>17 DEF Acquire, Release, At, Move, books
<1>18. ASSUME NEW u \in Users, PutCounter(u) PROVE SharedTyped'
  <2>1. /\ UNCHANGED <<event, topicDone, sem, quantity, surplus, leftover>>
        /\ counter' = Append(counter, IF held[u] > 0 THEN held[u] ELSE 0)
    BY <1>18 DEF PutCounter, At, Move, books
  <2>2. (IF held[u] > 0 THEN held[u] ELSE 0) \in Nat
    OBVIOUS
  <2>3. counter' \in Seq(Nat)
    BY <2>1, <2>2, AppendProperties
  <2> QED
    BY <2>1, <2>3
<1>19. ASSUME NEW u \in Users, SetTopicDone(u) PROVE SharedTyped'
  BY <1>19 DEF SetTopicDone, At, Move, books
<1>20. ASSUME NEW u \in Users, 
              Run(u) \/ Receive(u) \/ PrintMessage(u) \/ SetDone(u) \/ StopConsuming(u)
       PROVE  UNCHANGED <<event, topicDone, sem, counter, quantity, surplus, leftover>>
  BY <1>20 DEF Run, Receive, PrintMessage, SetDone, StopConsuming, At, Move, books
<1>21. CASE \E u \in Users : ThreadStep(u)
  BY <1>1, <1>9, <1>17, <1>18, <1>19, <1>20, <1>21 DEF ThreadStep
<1>22. CASE UNCHANGED vars
  BY <1>1, <1>22 DEF vars, shared, books, history
<1> QED
  BY <1>14, <1>16, <1>21, <1>22 DEF Next

\* One thread moves, or none: the places of the others are untouched.
LEMMA ThreadMoves ==
  ASSUME CommandTyped, ThreadsTyped, [Next]_vars
  PROVE  \/ tpc' = tpc
         \/ \E u \in Users, p \in ThreadPlaces : tpc' = [tpc EXCEPT ![u] = p]
<1>1. ASSUME NEW u \in Users, ThreadStep(u)
      PROVE  \E p \in ThreadPlaces : tpc' = [tpc EXCEPT ![u] = p]
  BY <1>1 DEF ThreadStep, Run, Receive, Acquire, Release, PrintMessage, SetDone,
     GetCounter, SetTopicDone, PutCounter, StopConsuming, At, Move, ThreadPlaces
<1>2. CASE ShowLogin
  <2>1. cmd.who \in Users
    BY <1>2 DEF ShowLogin, Shown, CommandTyped, Worded
  <2> QED
    BY <1>2, <2>1 DEF ShowLogin, ThreadPlaces
<1>3. CASE JoinThread \/ ExitJoin
  <2>1. cmd.who \in Users
    BY <1>3 DEF JoinThread, ExitJoin, CommandTyped, Worded
  <2> QED
    BY <1>3, <2>1 DEF JoinThread, ExitJoin, Joined, ThreadPlaces
<1>4. CASE \E u \in Users : RunFails(u)
  BY <1>4 DEF RunFails, Move, ThreadPlaces
<1>5. CASE MainStep
  BY <1>2, <1>3, <1>5 DEF MainStep, OwnStep, Serve, ShowAnswer, CountTopics, ShowLogout,
     ShowJoinGroup, ShowSend, ShowSendGroup, OpenSemaphore, WaitEnds, PutQuantity,
     GroupNotCounted, Except, GroupWaitEnds, DrainCounter, CounterAway, TakeSemaphore,
     StartAgain, ExitStop
<1>6. CASE Environment
  BY <1>4, <1>6 DEF Environment, ReadCommand, Exit, ConnectionFails, Except, RemoteMessage,
     JoinElsewhere
<1> QED
  BY <1>1, <1>5, <1>6 DEF Next, vars

LEMMA NextThreadsTyped ==
  ASSUME CommandTyped, ThreadsTyped, SharedTyped, cur' \in [Users -> MessageSet],
         [Next]_vars
  PROVE  ThreadsTyped'
<1>0. tpc' \in [Users -> ThreadPlaces]
  BY ThreadMoves DEF ThreadsTyped
<1>1. held' \in [Users -> Int]
  <2>1. \/ held' = held \/ \E u \in Users : held' = [held EXCEPT ![u] = 0]
        \/ \E u \in Users : counter # <<>> /\ held' = [held EXCEPT ![u] = Last(counter) - 1]
    <3>1. CASE MainStep
      BY <3>1 DEF MainStep, OwnStep, Serve, ShowAnswer, ShowLogin, CountTopics, ShowLogout,
         JoinThread, ExitJoin,
         ShowJoinGroup, ShowSend, ShowSendGroup, OpenSemaphore, WaitEnds, PutQuantity,
         GroupNotCounted, Except, GroupWaitEnds, DrainCounter, CounterAway, TakeSemaphore,
         StartAgain, ExitStop, GoOn, Finish
    <3>2. CASE Environment
      BY <3>2 DEF Environment, ReadCommand, Exit, ConnectionFails, Except, RemoteMessage,
         JoinElsewhere, RunFails, GoOn
    <3>3. CASE \E u \in Users : ThreadStep(u)
      BY <3>3 DEF ThreadStep, Run, Receive, Acquire, Release, PrintMessage, SetDone,
         GetCounter, SetTopicDone, PutCounter, StopConsuming
    <3> QED
      BY <3>1, <3>2, <3>3 DEF Next, vars
  <2>2. counter # <<>> => Last(counter) \in Nat
    BY FrontTyped DEF SharedTyped
  <2> QED
    BY <2>1, <2>2 DEF ThreadsTyped
<1>2. done' \in [Users -> BOOLEAN]
  <2>1. \/ done' = done \/ \E u \in Users : done' = [done EXCEPT ![u] = TRUE]
        \/ \E x : done' = [done EXCEPT ![x] = FALSE]
    <3>1. CASE MainStep
      BY <3>1 DEF MainStep, OwnStep, Serve, ShowAnswer, ShowLogin, CountTopics, ShowLogout,
         JoinThread, ExitJoin, Joined,
         ShowJoinGroup, ShowSend, ShowSendGroup, OpenSemaphore, WaitEnds, PutQuantity,
         GroupNotCounted, Except, GroupWaitEnds, DrainCounter, CounterAway, TakeSemaphore,
         StartAgain, ExitStop
    <3>2. CASE Environment
      BY <3>2 DEF Environment, ReadCommand, Exit, ConnectionFails, Except, RemoteMessage,
         JoinElsewhere, RunFails
    <3>3. CASE \E u \in Users : ThreadStep(u)
      BY <3>3 DEF ThreadStep, Run, Receive, Acquire, Release, PrintMessage, SetDone,
         GetCounter, SetTopicDone, PutCounter, StopConsuming, At, Move
    <3> QED
      BY <3>1, <3>2, <3>3 DEF Next, vars
  <2> QED
    BY <2>1 DEF ThreadsTyped
<1>3. stop' \in [Users -> {"no", "logout", "delete", "exit"}]
  <2>1. \/ stop' = stop
        \/ \E x : stop' = [stop EXCEPT ![x] = "no"]
        \/ \E x : stop' = [stop EXCEPT ![x] = "exit"]
        \/ ShowLogout
    <3>1. CASE MainStep
      BY <3>1 DEF MainStep, OwnStep, Serve, ShowAnswer, ShowLogin, CountTopics,
         JoinThread, ExitJoin, Joined,
         ShowJoinGroup, ShowSend, ShowSendGroup, OpenSemaphore, WaitEnds, PutQuantity,
         GroupNotCounted, Except, GroupWaitEnds, DrainCounter, CounterAway, TakeSemaphore,
         StartAgain, ExitStop
    <3>2. CASE Environment
      BY <3>2 DEF Environment, ReadCommand, Exit, ConnectionFails, Except, RemoteMessage,
         JoinElsewhere, RunFails, Move
    <3>3. CASE \E u \in Users : ThreadStep(u)
      BY <3>3 DEF ThreadStep, Run, Receive, Acquire, Release, PrintMessage, SetDone,
         GetCounter, SetTopicDone, PutCounter, StopConsuming, At, Move
    <3> QED
      BY <3>1, <3>2, <3>3 DEF Next, vars
  <2>2. ShowLogout => /\ stop' = [stop EXCEPT ![cmd.who] = cmd.kind]
                      /\ cmd.kind \in {"logout", "delete"}
    BY DEF ShowLogout, Shown
  <2> QED
    BY <2>1, <2>2 DEF ThreadsTyped
<1> QED
  BY <1>0, <1>1, <1>2, <1>3 DEF ThreadsTyped

\* What a step can do to the messages.
LEMMA MailSteps ==
  ASSUME [Next]_vars
  PROVE  \/ UNCHANGED <<priv, pub, cur>>
         \/ AgeMessages(Over) /\ mpc' = "idle"
         \/ AgeMessages(Answered) /\ mpc = "replied" /\ surplus' = surplus
         \/ /\ Serve /\ cur' = cur
            /\ \/ PublishPrivate(cmd.arg, "early") /\ cmd.kind = "send"
               \/ PublishPublic(cmd.arg, "early") /\ cmd.kind = "send-group"
         \/ /\ RemoteMessage /\ UNCHANGED <<main, event, cur, tpc, surplus>>
            /\ \/ \E u \in Users : PublishPrivate(u, "other")
               \/ \E g \in Groups : PublishPublic(g, "other")
         \/ \E u \in Users : Receive(u) \/ PrintMessage(u) \/ StopConsuming(u)
<1>1. CASE MainStep
  <2>1. CASE ShowAnswer \/ CountTopics \/ JoinThread \/ ShowJoinGroup \/ TakeSemaphore
    BY <2>1 DEF ShowAnswer, CountTopics, JoinThread, ShowJoinGroup, TakeSemaphore, Finish
  <2>2. CASE GroupNotCounted \/ CounterAway
    BY <2>2 DEF GroupNotCounted, CounterAway, Except
  <2>3. CASE ExitJoin \/ StartAgain \/ ShowLogin \/ ShowLogout \/ WaitEnds \/ PutQuantity
             \/ GroupWaitEnds \/ DrainCounter \/ \E u \in Users : ExitStop(u)
    BY <2>3 DEF ExitJoin, StartAgain, ShowLogin, ShowLogout, WaitEnds, PutQuantity,
       GroupWaitEnds, DrainCounter, ExitStop, GoOn, mail
  <2>4. CASE ShowSend \/ ShowSendGroup
    BY <2>4 DEF ShowSend, ShowSendGroup, OpenSemaphore, Shown, history
  <2>5. CASE Serve
    BY <2>5 DEF Serve, mail
  <2> QED
    BY <1>1, <2>1, <2>2, <2>3, <2>4, <2>5 DEF MainStep, OwnStep
<1>2. CASE Environment
  <2>1. CASE ConnectionFails
    BY <2>1 DEF ConnectionFails, Except
  <2>2. CASE RemoteMessage
    BY <2>2 DEF RemoteMessage, shared
  <2>3. CASE Exit \/ (\E c \in Commands : ReadCommand(c)) \/ (\E u \in Users : RunFails(u))
             \/ \E u \in Users : \E g \in Groups : JoinElsewhere(u, g)
    BY <2>3 DEF Exit, GoOn, ReadCommand, RunFails, JoinElsewhere, mail
  <2> QED
    BY <1>2, <2>1, <2>2, <2>3 DEF Environment
<1>3. CASE \E u \in Users : ThreadStep(u)
  BY <1>3 DEF ThreadStep, Run, Acquire, Release, SetDone,
     GetCounter, SetTopicDone, PutCounter, mail
<1>4. CASE UNCHANGED vars
  BY <1>4 DEF vars, mail
<1> QED
  BY <1>1, <1>2, <1>3, <1>4 DEF Next

\* A message put at the end of a queue, and the first one taken from it.
LEMMA QueuesTyped ==
  ASSUME NEW s \in Seq(Ages), NEW a \in Ages
  PROVE  /\ Append(s, a) \in Seq(Ages)
         /\ \A i \in DOMAIN Append(s, a) : Append(s, a)[i] = a \/ 
              (i \in DOMAIN s /\ Append(s, a)[i] = s[i])
         /\ s # <<>> => /\ Head(s) \in Ages /\ Tail(s) \in Seq(Ages)
                        /\ 1 \in DOMAIN s /\ Head(s) = s[1]
                        /\ \A i \in DOMAIN Tail(s) : i + 1 \in DOMAIN s /\ Tail(s)[i] = s[i + 1]
<1>1. /\ Append(s, a) \in Seq(Ages) /\ Len(Append(s, a)) = Len(s) + 1
      /\ \A k \in 1..Len(s) : Append(s, a)[k] = s[k]
      /\ Append(s, a)[Len(s) + 1] = a
  BY AppendProperties
<1>2. /\ Len(s) \in Nat /\ DOMAIN s = 1..Len(s)
      /\ DOMAIN Append(s, a) = 1..(Len(s) + 1)
  BY <1>1, LenProperties
<1>3. ASSUME s # <<>>
      PROVE  /\ Head(s) \in Ages /\ Tail(s) \in Seq(Ages)
             /\ 1 \in DOMAIN s /\ Head(s) = s[1]
             /\ \A i \in DOMAIN Tail(s) : i + 1 \in DOMAIN s /\ Tail(s)[i] = s[i + 1]
  BY <1>2, <1>3, HeadTailProperties, LenProperties, EmptySeq
<1> QED
  BY <1>1, <1>2, <1>3

LEMMA NextMailTyped ==
  ASSUME CommandTyped, ThreadsTyped, MailTyped, [Next]_vars
  PROVE  MailTyped' /\ cur' \in [Users -> MessageSet]
<1>1. CASE UNCHANGED <<priv, pub, cur>>
  BY <1>1 DEF MailTyped, ThreadsTyped
<1>2. ASSUME NEW x \in Users, NEW a \in Ages, PublishPrivate(x, a), cur' = cur
      PROVE  MailTyped' /\ cur' \in [Users -> MessageSet]
  BY <1>2, QueuesTyped DEF MailTyped, ThreadsTyped, PublishPrivate
<1>3. ASSUME NEW g \in Groups, NEW a \in Ages, PublishPublic(g, a), cur' = cur
      PROVE  MailTyped' /\ cur' \in [Users -> MessageSet]
  BY <1>3, QueuesTyped DEF MailTyped, ThreadsTyped, PublishPublic
<1>4. ASSUME NEW u \in Users, Receive(u)
      PROVE  MailTyped' /\ cur' \in [Users -> MessageSet]
  <2>1. ASSUME priv[u] # <<>>, pub' = pub,
               cur' = [cur EXCEPT ![u] = [kind |-> "private", age |-> Head(priv[u])]],
               priv' = [priv EXCEPT ![u] = Tail(@)]
        PROVE  MailTyped' /\ cur' \in [Users -> MessageSet]
    <3>1. MailTyped' /\ Head(priv[u]) \in Ages
      <4>1. Head(priv[u]) \in Ages /\ Tail(priv[u]) \in Seq(Ages)
        BY <2>1, QueuesTyped DEF MailTyped, Ages
      <4> QED
        BY <2>1, <4>1 DEF MailTyped
    <3>2. [kind |-> "private", age |-> Head(priv[u])] \in MessageSet
      BY <3>1 DEF MessageSet
    <3> QED
      BY <2>1, <3>1, <3>2 DEF ThreadsTyped
  <2>2. ASSUME NEW g \in Groups, pub[u][g] # <<>>, priv' = priv,
               cur' = [cur EXCEPT ![u] = [kind |-> "public", age |-> Head(pub[u][g])]],
               pub' = [pub EXCEPT ![u][g] = Tail(@)]
        PROVE  MailTyped' /\ cur' \in [Users -> MessageSet]
    <3>1. MailTyped' /\ Head(pub[u][g]) \in Ages
      <4>1. Head(pub[u][g]) \in Ages /\ Tail(pub[u][g]) \in Seq(Ages)
        BY <2>2, QueuesTyped DEF MailTyped, Ages
      <4> QED
        BY <2>2, <4>1 DEF MailTyped
    <3>2. [kind |-> "public", age |-> Head(pub[u][g])] \in MessageSet
      BY <3>1 DEF MessageSet
    <3> QED
      BY <2>2, <3>1, <3>2 DEF ThreadsTyped
  <2> QED
    BY <1>4, <2>1, <2>2 DEF Receive
<1>5. ASSUME NEW u \in Users, PrintMessage(u)
      PROVE  MailTyped' /\ cur' \in [Users -> MessageSet]
  BY <1>5, NoMessageTyped DEF PrintMessage, mail, MailTyped, ThreadsTyped
<1>6. ASSUME NEW u \in Users, StopConsuming(u)
      PROVE  MailTyped' /\ cur' \in [Users -> MessageSet]
  <2>1. /\ cur' = cur /\ priv' \in {priv, [priv EXCEPT ![u] = <<>>]}
        /\ pub' = [pub EXCEPT ![u] = [g \in Groups |-> <<>>]]
    BY <1>6 DEF StopConsuming, Nothing
  <2>2. <<>> \in Seq(Ages)
    BY EmptySeq
  <2> QED
    BY <2>1, <2>2 DEF MailTyped, ThreadsTyped
<1>7. "early" \in Ages /\ "other" \in Ages
  BY DEF Ages
<1>8. CASE Serve /\ cur' = cur
  <2>1. /\ PublishPrivate(cmd.arg, "early") /\ cmd.kind = "send" => cmd.arg \in Users
        /\ PublishPublic(cmd.arg, "early") /\ cmd.kind = "send-group" => cmd.arg \in Groups
    BY DEF CommandTyped, Worded
  <2> QED
    BY <1>1, <1>2, <1>3, <1>7, <1>8, <2>1 DEF Serve, mail
<1> QED
  BY <1>1, <1>2, <1>3, <1>4, <1>5, <1>6, <1>7, <1>8, MailSteps, AgedOver, AgedAnswered

\* Every variable of the client keeps its type.
LEMMA NextTyped ==
  ASSUME Typed, [Next]_vars PROVE Typed'
BY NextCommandTyped, NextSharedTyped, NextThreadsTyped, NextMailTyped
   DEF Typed, ThreadsTyped

----------------------------------------------------------------------------
(* The semaphore and the counter *)

Outside == {"release"}
Counting == {"set-topic-done", "put-back"}
Bracket == {"wait", "put", "group-wait", "drain", "take"}

LEMMA HoldersMove ==
  ASSUME ThreadsTyped, NEW P,
         NEW u \in Users, NEW p \in ThreadPlaces, tpc' = [tpc EXCEPT ![u] = p]
  PROVE  /\ Holders(P) \in Nat /\ Holders(P)' \in Nat
         /\ tpc[u] \in P /\ p \notin P => Holders(P)' = Holders(P) - 1
         /\ tpc[u] \notin P /\ p \in P => Holders(P)' = Holders(P) + 1
         /\ (tpc[u] \in P <=> p \in P) => Holders(P)' = Holders(P)
<1> DEFINE S == {v \in Users : tpc[v] \in P}
<1>1. IsFiniteSet(S) /\ IsFiniteSet(S')
  BY FS_Subset, ClientAssumption
<1>2. Holders(P) = Cardinality(S) /\ Holders(P)' = Cardinality(S')
  BY DEF Holders
<1>3. tpc[u] \in P /\ p \notin P => S' = S \ {u} /\ u \in S
  BY DEF ThreadsTyped
<1>4. tpc[u] \notin P /\ p \in P => S' = S \cup {u} /\ u \notin S
  BY DEF ThreadsTyped
<1>5. (tpc[u] \in P <=> p \in P) => S' = S
  BY DEF ThreadsTyped
<1> HIDE DEF S
<1>6. Cardinality(S) \in Nat /\ Cardinality(S') \in Nat
  BY <1>1, FS_CardinalityType
<1> QED
  BY <1>1, <1>2, <1>3, <1>4, <1>5, <1>6, FS_AddElement, FS_RemoveElement

LEMMA HoldersNat ==
  ASSUME NEW P PROVE Holders(P) \in Nat
BY FS_Subset, FS_CardinalityType, ClientAssumption DEF Holders

LEMMA NextTokens ==
  ASSUME Typed, TokensConserved, [Next]_vars
  PROVE  TokensConserved'
<1> DEFINE h == Holders(Outside)
           k == Holders(Counting)
           n == Len(counter)
           w == Window(Bracket)
           x == Window({"group-wait", "drain"})
<1>0. /\ sem \in Nat /\ surplus \in Nat /\ leftover \in Nat
      /\ counter \in Seq(Nat) /\ n \in Nat /\ ThreadsTyped
      /\ h \in Nat /\ k \in Nat
  BY HoldersNat, LenProperties DEF Typed, SharedTyped
<1>1. sem + h = surplus + w /\ n + k = leftover + x
  BY DEF TokensConserved, Outside, Counting, Bracket
<1> SUFFICES sem' + h' = surplus' + w' /\ n' + k' = leftover' + x'
  BY DEF TokensConserved, Outside, Counting, Bracket
<1>2. ASSUME tpc' = tpc PROVE h' = h /\ k' = k
  BY <1>2 DEF Holders
<1>3. /\ w = IF mpc \in Bracket THEN 1 ELSE 0
      /\ x = IF mpc \in {"group-wait", "drain"} THEN 1 ELSE 0
      /\ w' = IF mpc' \in Bracket THEN 1 ELSE 0
      /\ x' = IF mpc' \in {"group-wait", "drain"} THEN 1 ELSE 0
  BY DEF Window
<1>4. ASSUME NEW u \in Users, NEW p \in ThreadPlaces, tpc' = [tpc EXCEPT ![u] = p],
             tpc[u] \notin Outside \cup Counting, p \notin Outside \cup Counting
      PROVE  h' = h /\ k' = k
  BY <1>0, <1>4, HoldersMove
<1>5. ASSUME UNCHANGED <<sem, counter, surplus, leftover>>, h' = h, k' = k, w' = w, x' = x
      PROVE  sem' + h' = surplus' + w' /\ n' + k' = leftover' + x'
  BY <1>1, <1>5
<1> HIDE DEF h, k, w, x
<1>6. CASE ShowAnswer \/ CountTopics \/ ShowJoinGroup
  <2>1. /\ UNCHANGED <<sem, counter, surplus, leftover, tpc>>
        /\ mpc \in {"replied", "launch"} /\ mpc' = "idle"
    BY <1>6 DEF ShowAnswer, CountTopics, ShowJoinGroup, Finish, Shown, history
  <2> QED
    BY <1>2, <1>3, <1>5, <2>1 DEF Bracket
<1>7. CASE Serve \/ ShowLogout \/ \E u \in Users : ExitStop(u)
  <2>1. /\ UNCHANGED <<sem, counter, surplus, leftover, tpc>>
        /\ mpc \notin Bracket /\ mpc' \notin Bracket
    BY <1>7 DEF Serve, ShowLogout, ExitStop, GoOn, Shown, history, shared, Bracket
  <2> QED
    BY <1>2, <1>3, <1>5, <2>1 DEF Bracket
<1>8. CASE ShowLogin
  <2>1. /\ UNCHANGED <<sem, counter, surplus, leftover>>
        /\ mpc = "replied" /\ mpc' = "launch"
        /\ tpc' = tpc \/ (tpc[cmd.who] = "off" /\ tpc' = [tpc EXCEPT ![cmd.who] = "starting"])
    BY <1>8 DEF ShowLogin, GoOn, Shown, history, Local
  <2>2. cmd.who \in Users
    BY <1>8 DEF ShowLogin, Shown, Typed, CommandTyped, Worded
  <2>3. h' = h /\ k' = k
    BY <1>2, <1>4, <2>1, <2>2 DEF Outside, Counting, ThreadPlaces
  <2> QED
    BY <1>3, <1>5, <2>1, <2>3 DEF Bracket
<1>9. CASE JoinThread \/ ExitJoin
  <2>1. /\ UNCHANGED <<sem, counter, surplus, leftover>>
        /\ mpc \in {"join", "exit-join"} /\ mpc' \in {"idle", "exit"}
        /\ tpc[cmd.who] = "ended" /\ tpc' = [tpc EXCEPT ![cmd.who] = "off"]
    BY <1>9 DEF JoinThread, ExitJoin, Joined, Finish, history, shared
  <2>2. cmd.who \in Users
    BY <1>9 DEF JoinThread, ExitJoin, Typed, CommandTyped, Worded
  <2>3. h' = h /\ k' = k
    BY <1>4, <2>1, <2>2 DEF Outside, Counting, ThreadPlaces
  <2> QED
    BY <1>3, <1>5, <2>1, <2>3 DEF Bracket
<1>10. CASE ShowSend \/ ShowSendGroup
  <2>1. /\ UNCHANGED <<counter, surplus, leftover, tpc>> /\ sem' = sem + 1
        /\ mpc = "replied" /\ mpc' \in {"wait", "put"}
    BY <1>10 DEF ShowSend, ShowSendGroup, OpenSemaphore, GoOn, Shown, history
  <2>2. w = 0 /\ w' = 1 /\ x = 0 /\ x' = 0
    BY <1>3, <2>1 DEF Bracket
  <2> QED
    BY <1>0, <1>1, <1>2, <2>1, <2>2
<1>11. CASE WaitEnds
  <2>1. /\ UNCHANGED <<sem, counter, surplus, leftover, tpc>>
        /\ mpc = "wait" /\ mpc' = "take"
    BY <1>11 DEF WaitEnds, GoOn
  <2> QED
    BY <1>2, <1>3, <1>5, <2>1 DEF Bracket
<1>12. CASE PutQuantity
  <2>1. UNCHANGED <<sem, surplus, leftover, tpc>>
    BY <1>12 DEF PutQuantity, GoOn, history
  <2>5. mpc = "put" /\ mpc' = "group-wait"
    BY <1>12 DEF PutQuantity, GoOn
  <2>2. quantity[cmd.arg] \in Nat
    BY <2>5 DEF Typed, CommandTyped, Worded, SharedTyped
  <2>3. n' = n + 1
    <3>1. counter' = Append(counter, quantity[cmd.arg])
      BY <1>12 DEF PutQuantity
    <3> QED
      BY <1>0, <2>2, <3>1, AppendProperties
  <2>4. w = 1 /\ w' = 1 /\ x = 0 /\ x' = 1
    BY <1>3, <2>5 DEF Bracket
  <2> HIDE DEF n
  <2> QED
    BY <1>0, <1>1, <1>2, <2>1, <2>3, <2>4
<1>13. CASE GroupNotCounted
  <2>1. /\ UNCHANGED <<sem, counter, leftover, tpc>> /\ surplus' = surplus + 1
        /\ mpc = "put" /\ mpc' = "idle"
    BY <1>13 DEF GroupNotCounted, Except, shared
  <2>2. w = 1 /\ w' = 0 /\ x = 0 /\ x' = 0
    BY <1>3, <2>1 DEF Bracket
  <2> QED
    BY <1>0, <1>1, <1>2, <2>1, <2>2
<1>14. CASE GroupWaitEnds
  <2>1. /\ UNCHANGED <<sem, counter, surplus, leftover, tpc>>
        /\ mpc = "group-wait" /\ mpc' = "drain"
    BY <1>14 DEF GroupWaitEnds, GoOn
  <2> QED
    BY <1>2, <1>3, <1>5, <2>1 DEF Bracket
<1>15. CASE DrainCounter
  <2>1. /\ UNCHANGED <<sem, surplus, leftover, tpc>>
        /\ counter # <<>> /\ counter' = Front(counter)
        /\ mpc = "drain" /\ mpc' = "take"
    BY <1>15 DEF DrainCounter, GoOn, history
  <2>3. n' = n - 1
    BY <1>0, <2>1, FrontTyped
  <2>4. w = 1 /\ w' = 1 /\ x = 1 /\ x' = 0
    BY <1>3, <2>1 DEF Bracket
  <2> HIDE DEF n
  <2> QED
    BY <1>0, <1>1, <1>2, <2>1, <2>3, <2>4
<1>16. CASE CounterAway
  <2>1. /\ UNCHANGED <<sem, counter, tpc>>
        /\ surplus' = surplus + 1 /\ leftover' = leftover + 1
        /\ mpc = "drain" /\ mpc' = "idle"
    BY <1>16 DEF CounterAway, Except, shared
  <2>2. w = 1 /\ w' = 0 /\ x = 1 /\ x' = 0
    BY <1>3, <2>1 DEF Bracket
  <2>3. n' = n
    BY <2>1
  <2> HIDE DEF n
  <2> QED
    BY <1>0, <1>1, <1>2, <2>1, <2>2, <2>3
<1>17. CASE TakeSemaphore
  <2>1. /\ UNCHANGED <<counter, surplus, leftover, tpc>> /\ sem' = sem - 1
        /\ mpc = "take" /\ mpc' = "idle"
    BY <1>17 DEF TakeSemaphore, Finish, history
  <2>2. w = 1 /\ w' = 0 /\ x = 0 /\ x' = 0
    BY <1>3, <2>1 DEF Bracket
  <2> QED
    BY <1>0, <1>1, <1>2, <2>1, <2>2
<1>18. CASE StartAgain
  <2>1. /\ sem' = 0 /\ counter' = <<>> /\ surplus' = 0 /\ leftover' = 0 /\ tpc' = tpc
        /\ mpc' = "idle" /\ \A u \in Users : tpc[u] = "off"
    BY <1>18 DEF StartAgain, Local
  <2>2. {u \in Users : tpc[u] \in Outside} = {} /\ {u \in Users : tpc[u] \in Counting} = {}
    BY <2>1 DEF Outside, Counting
  <2>3. h = 0 /\ k = 0
    BY <2>2, FS_EmptySet DEF Holders, h, k
  <2>4. n' = 0
    BY <2>1
  <2>5. w' = 0 /\ x' = 0
    BY <1>3, <2>1 DEF Bracket
  <2> HIDE DEF n
  <2> QED
    BY <1>2, <2>1, <2>3, <2>4, <2>5
<1>19. CASE MainStep
  BY <1>6, <1>7, <1>8, <1>9, <1>10, <1>11, <1>12, <1>13, <1>14, <1>15, <1>16, <1>17, <1>18,
     <1>19 DEF MainStep, OwnStep
<1>20. CASE Environment
  <2>1. CASE ConnectionFails
    <3>1. /\ UNCHANGED <<sem, counter, surplus, leftover, tpc>>
          /\ mpc \in {"sent", "replied"} /\ mpc' = "idle"
      BY <2>1 DEF ConnectionFails, Except, shared
    <3> QED
      BY <1>2, <1>3, <1>5, <3>1 DEF Bracket
  <2>2. CASE Exit \/ \E c \in Commands : ReadCommand(c)
    <3>1. /\ UNCHANGED <<sem, counter, surplus, leftover, tpc>>
          /\ mpc = "idle" /\ mpc' \in {"exit", "sent"}
      BY <2>2 DEF Exit, GoOn, ReadCommand, history
    <3> QED
      BY <1>2, <1>3, <1>5, <3>1 DEF Bracket
  <2>3. CASE RemoteMessage \/ \E u \in Users : \E g \in Groups : JoinElsewhere(u, g)
    <3>1. UNCHANGED <<sem, counter, surplus, leftover, tpc, mpc>>
      BY <2>3 DEF RemoteMessage, JoinElsewhere, main, shared
    <3> QED
      BY <1>2, <1>3, <1>5, <3>1
  <2>4. ASSUME NEW u \in Users, RunFails(u)
        PROVE  sem' + h' = surplus' + w' /\ n' + k' = leftover' + x'
    <3>1. /\ UNCHANGED <<sem, counter, surplus, leftover, mpc>>
          /\ tpc[u] = "starting" /\ tpc' = [tpc EXCEPT ![u] = "dead"]
      BY <2>4 DEF RunFails, Move, main
    <3>2. h' = h /\ k' = k
      BY <1>4, <3>1 DEF Outside, Counting, ThreadPlaces
    <3> QED
      BY <1>3, <1>5, <3>1, <3>2
  <2> QED
    BY <1>20, <2>1, <2>2, <2>3, <2>4 DEF Environment
<1>21. ASSUME NEW u \in Users, ThreadStep(u)
       PROVE  sem' + h' = surplus' + w' /\ n' + k' = leftover' + x'
  <2>0. UNCHANGED <<surplus, leftover>> /\ w' = w /\ x' = x
    BY <1>3, <1>21 DEF ThreadStep, Run, Receive, Acquire, Release, PrintMessage, SetDone,
       GetCounter, SetTopicDone, PutCounter, StopConsuming, At, Move, main
  <2>1. CASE Run(u) \/ Receive(u) \/ PrintMessage(u) \/ SetDone(u) \/ StopConsuming(u)
    <3>1. /\ UNCHANGED <<sem, counter>>
          /\ \E p \in {"on", "acquire", "print", "set-done", "get", "ended"} :
               tpc' = [tpc EXCEPT ![u] = p]
          /\ tpc[u] \in {"starting", "on", "print", "set-done"}
      BY <2>1 DEF Run, Receive, PrintMessage, SetDone, StopConsuming, At, Move
    <3>2. h' = h /\ k' = k
      BY <1>4, <3>1 DEF Outside, Counting, ThreadPlaces
    <3> QED
      BY <1>5, <2>0, <3>1, <3>2
  <2>2. CASE Acquire(u)
    <3>1. /\ sem' = sem - 1 /\ counter' = counter
          /\ tpc[u] = "acquire" /\ tpc' = [tpc EXCEPT ![u] = "release"]
      BY <2>2 DEF Acquire, At, Move
    <3>2. h' = h + 1 /\ k' = k
      BY <1>0, <3>1, HoldersMove DEF Outside, Counting, ThreadPlaces, h, k
    <3>3. n' = n
      BY <3>1
    <3> HIDE DEF n
    <3> QED
      BY <1>0, <1>1, <2>0, <3>1, <3>2, <3>3
  <2>3. CASE Release(u)
    <3>1. /\ sem' = sem + 1 /\ counter' = counter
          /\ tpc[u] = "release" /\ tpc' = [tpc EXCEPT ![u] = "print"]
      BY <2>3 DEF Release, At, Move
    <3>2. h' = h - 1 /\ k' = k
      BY <1>0, <3>1, HoldersMove DEF Outside, Counting, ThreadPlaces, h, k
    <3>3. n' = n
      BY <3>1
    <3> HIDE DEF n
    <3> QED
      BY <1>0, <1>1, <2>0, <3>1, <3>2, <3>3
  <2>4. CASE GetCounter(u)
    <3>1. /\ sem' = sem /\ counter # <<>> /\ counter' = Front(counter)
          /\ \E p \in Counting : tpc' = [tpc EXCEPT ![u] = p]
          /\ tpc[u] = "get"
      BY <2>4 DEF GetCounter, At, Move, Counting
    <3>2. h' = h /\ k' = k + 1
      BY <1>0, <3>1, HoldersMove DEF Outside, Counting, ThreadPlaces, h, k
    <3>3. n' = n - 1
      BY <1>0, <3>1, FrontTyped
    <3> HIDE DEF n
    <3> QED
      BY <1>0, <1>1, <2>0, <3>1, <3>2, <3>3
  <2>5. CASE SetTopicDone(u)
    <3>1. /\ sem' = sem /\ counter' = counter
          /\ tpc[u] = "set-topic-done" /\ tpc' = [tpc EXCEPT ![u] = "put-back"]
      BY <2>5 DEF SetTopicDone, At, Move
    <3>2. h' = h /\ k' = k
      BY <1>0, <3>1, HoldersMove DEF Outside, Counting, ThreadPlaces, h, k
    <3> QED
      BY <1>5, <2>0, <3>1, <3>2
  <2>6. CASE PutCounter(u)
    <3>1. tpc[u] = "put-back" /\ tpc' = [tpc EXCEPT ![u] = "on"]
      BY <2>6 DEF PutCounter, At, Move
    <3>5. sem' = sem
      BY <2>6 DEF PutCounter
    <3>2. h' = h /\ k' = k - 1
      BY <1>0, <3>1, HoldersMove DEF Outside, Counting, ThreadPlaces, h, k
    <3>3. (IF held[u] > 0 THEN held[u] ELSE 0) \in Nat
      BY DEF Typed, ThreadsTyped
    <3>4. n' = n + 1
      <4>1. counter' = Append(counter, IF held[u] > 0 THEN held[u] ELSE 0)
        BY <2>6 DEF PutCounter
      <4> QED
        BY <1>0, <3>3, <4>1, AppendProperties
    <3> HIDE DEF n
    <3> QED
      BY <1>0, <1>1, <2>0, <3>2, <3>4, <3>5
  <2> QED
    BY <1>21, <2>1, <2>2, <2>3, <2>4, <2>5, <2>6 DEF ThreadStep
<1>22. CASE UNCHANGED vars
  <2>1. UNCHANGED <<sem, counter, surplus, leftover, tpc, mpc>>
    BY <1>22 DEF vars, main, shared, history
  <2> QED
    BY <1>2, <1>3, <1>5, <2>1
<1> QED
  BY <1>19, <1>20, <1>21, <1>22 DEF Next

----------------------------------------------------------------------------
(* The answer comes first *)

\* Messages may be on their way to a thread here before their answer is shown.
EchoPending == mpc = "replied" /\ cmd.ok /\ cmd.kind \in {"send", "send-group"}

EarlyAt(u) == \/ cur[u].age = "early"
              \/ \E i \in DOMAIN priv[u] : priv[u][i] = "early"
              \/ \E g \in Groups : \E i \in DOMAIN pub[u][g] : pub[u][g][i] = "early"

\* A message is early only while its answer is pending, the event is set from
\* the reading of a command to its end, and a thread that handles an early
\* message gets past the semaphore only where an exception has left it open.
EchoInv ==
  /\ mpc \notin {"idle", "exit", "exit-join"} => event
  /\ \A u \in Users : EarlyAt(u) => EchoPending
  /\ EchoAfterReply
  /\ \A u \in Users : tpc[u] = "release" /\ cur[u].age = "early" => surplus > 0

LEMMA EventStaysSet ==
  ASSUME mpc \notin {"idle", "exit", "exit-join"} => event, [Next]_vars
  PROVE  mpc' \notin {"idle", "exit", "exit-join"} => event'
<1>1. CASE MainStep
  <2>1. CASE ShowAnswer \/ CountTopics \/ JoinThread \/ ShowJoinGroup \/ TakeSemaphore
             \/ GroupNotCounted \/ CounterAway \/ ExitJoin \/ StartAgain
             \/ \E u \in Users : ExitStop(u)
    BY <2>1 DEF ShowAnswer, CountTopics, JoinThread, ShowJoinGroup, TakeSemaphore, Finish,
       GroupNotCounted, CounterAway, Except, ExitJoin, StartAgain, ExitStop
  <2>2. CASE Serve \/ ShowLogin \/ ShowLogout \/ ShowSend \/ WaitEnds \/ ShowSendGroup
             \/ PutQuantity \/ GroupWaitEnds \/ DrainCounter
    BY <2>2 DEF Serve, ShowLogin, ShowLogout, ShowSend, WaitEnds, ShowSendGroup,
       PutQuantity, GroupWaitEnds, DrainCounter, OpenSemaphore, GoOn, Shown, shared
  <2> QED
    BY <1>1, <2>1, <2>2 DEF MainStep, OwnStep
<1>2. CASE Environment
  BY <1>2 DEF Environment, ReadCommand, Exit, GoOn, ConnectionFails, Except, RemoteMessage,
     main, shared, RunFails, Move, JoinElsewhere
<1>3. CASE \E u \in Users : ThreadStep(u)
  <2>1. UNCHANGED <<mpc, event>>
    BY <1>3 DEF ThreadStep, Run, Receive, Acquire, Release, PrintMessage, SetDone,
       GetCounter, SetTopicDone, PutCounter, StopConsuming, At, Move, main
  <2> QED
    BY <2>1
<1>4. CASE UNCHANGED vars
  BY <1>4 DEF vars, main, shared
<1> QED
  BY <1>1, <1>2, <1>3, <1>4 DEF Next

\* While an echo is pending, the main thread either shows the answer, which
\* ages every message, or gives up, which ages them too.
LEMMA PendingSteps ==
  ASSUME EchoPending, [Next]_vars
  PROVE  \/ UNCHANGED <<mpc, cmd, surplus>>
         \/ AgeMessages(Over)
         \/ AgeMessages(Answered)
<1>0. mpc = "replied" /\ cmd.kind \in {"send", "send-group"}
  BY DEF EchoPending
<1>1. CASE MainStep
  <2>1. ShowAnswer \/ ShowSend \/ ShowSendGroup
    BY <1>0, <1>1 DEF MainStep, OwnStep, Serve, ShowLogin, CountTopics, ShowLogout, JoinThread,
       ShowJoinGroup, WaitEnds, PutQuantity, GroupNotCounted, GroupWaitEnds, DrainCounter,
       CounterAway, TakeSemaphore, ExitJoin, StartAgain, ExitStop, Shown
  <2> QED
    BY <2>1 DEF ShowAnswer, Finish, ShowSend, ShowSendGroup, OpenSemaphore
<1>2. CASE Environment
  BY <1>0, <1>2 DEF Environment, ReadCommand, Exit, ConnectionFails, Except, RemoteMessage,
     main, RunFails, Move, JoinElsewhere
<1>3. CASE \E u \in Users : ThreadStep(u)
  BY <1>3 DEF ThreadStep, Run, Receive, Acquire, Release, PrintMessage, SetDone, GetCounter,
     SetTopicDone, PutCounter, StopConsuming, At, Move, main
<1>4. CASE UNCHANGED vars
  BY <1>4 DEF vars, main, history
<1> QED
  BY <1>1, <1>2, <1>3, <1>4 DEF Next

\* No step but the server's answer makes a message early.
LEMMA EarlyComesFrom ==
  ASSUME Typed, [Next]_vars, NEW u \in Users, EarlyAt(u)'
  PROVE  /\ ~AgeMessages(Over) /\ ~AgeMessages(Answered)
         /\ EarlyAt(u) \/ (Serve /\ cmd.kind \in {"send", "send-group"} /\ cur' = cur
                             /\ UNCHANGED <<event, tpc, surplus>> /\ EchoPending')
         /\ cur'[u].age = "early" =>
              cur[u].age = "early" \/ (Receive(u) /\ EarlyAt(u))
<1>0. ThreadsTyped /\ MailTyped /\ cur[u] \in MessageSet
  BY DEF Typed, ThreadsTyped
<1>1. ~AgeMessages(Over)
  BY <1>0, AgedOver DEF EarlyAt
<1>2. ~AgeMessages(Answered)
  <2>1. \A a : Answered(a) # "early"
    BY DEF Answered
  <2>2. SUFFICES ASSUME AgeMessages(Answered) PROVE FALSE
    OBVIOUS
  <2>3. cur'[u].age # "early"
    BY <1>0, <2>1, <2>2, AgedAnswered
  <2>4. \A i \in DOMAIN priv'[u] : priv'[u][i] # "early"
    BY <1>0, <2>1, <2>2, AgedAnswered
  <2>5. \A g \in Groups : \A i \in DOMAIN pub'[u][g] : pub'[u][g][i] # "early"
    BY <1>0, <2>1, <2>2, AgedAnswered
  <2> QED
    BY <2>3, <2>4, <2>5 DEF EarlyAt
<1> DEFINE From == /\ EarlyAt(u)
                   /\ cur'[u].age = "early" =>
                        cur[u].age = "early" \/ (Receive(u) /\ EarlyAt(u))
<1>3. ASSUME UNCHANGED <<priv, pub, cur>> PROVE From
  BY <1>3 DEF EarlyAt
<1>4. ASSUME NEW x \in Users, PublishPrivate(x, "other"), cur' = cur
      PROVE  From
  <2>1. /\ pub' = pub
        /\ \A i \in DOMAIN priv'[u] : priv'[u][i] = "other"
             \/ (i \in DOMAIN priv[u] /\ priv'[u][i] = priv[u][i])
    BY <1>0, <1>4, QueuesTyped DEF PublishPrivate, MailTyped, Ages
  <2> QED
    BY <1>4, <2>1 DEF EarlyAt
<1>5. ASSUME NEW g \in Groups, PublishPublic(g, "other"), cur' = cur
      PROVE  From
  <2>1. /\ priv' = priv
        /\ \A h \in Groups : \A i \in DOMAIN pub'[u][h] : pub'[u][h][i] = "other"
             \/ (i \in DOMAIN pub[u][h] /\ pub'[u][h][i] = pub[u][h][i])
    BY <1>0, <1>5, QueuesTyped DEF PublishPublic, MailTyped, Ages
  <2> QED
    BY <1>5, <2>1 DEF EarlyAt
<1>6. ASSUME NEW v \in Users, Receive(v) PROVE From
  <2>1. ASSUME priv[v] # <<>>, pub' = pub,
               cur' = [cur EXCEPT ![v] = [kind |-> "private", age |-> Head(priv[v])]],
               priv' = [priv EXCEPT ![v] = Tail(@)]
        PROVE  From
    <3>1. /\ Head(priv[v]) = priv[v][1] /\ 1 \in DOMAIN priv[v]
          /\ \A i \in DOMAIN Tail(priv[v]) :
                i + 1 \in DOMAIN priv[v] /\ Tail(priv[v])[i] = priv[v][i + 1]
      BY <1>0, <2>1, QueuesTyped DEF MailTyped, Ages
    <3>2. /\ v = u => cur'[u].age = Head(priv[u]) /\ priv'[u] = Tail(priv[u])
          /\ v # u => cur'[u] = cur[u] /\ priv'[u] = priv[u]
      BY <1>0, <2>1 DEF ThreadsTyped, MailTyped
    <3>3. EarlyAt(u)
      BY <2>1, <3>1, <3>2 DEF EarlyAt
    <3> QED
      BY <1>6, <3>2, <3>3
  <2>2. ASSUME NEW g \in Groups, pub[v][g] # <<>>, priv' = priv,
               cur' = [cur EXCEPT ![v] = [kind |-> "public", age |-> Head(pub[v][g])]],
               pub' = [pub EXCEPT ![v][g] = Tail(@)]
        PROVE  From
    <3>1. /\ Head(pub[v][g]) = pub[v][g][1] /\ 1 \in DOMAIN pub[v][g]
          /\ \A i \in DOMAIN Tail(pub[v][g]) :
                i + 1 \in DOMAIN pub[v][g] /\ Tail(pub[v][g])[i] = pub[v][g][i + 1]
      BY <1>0, <2>2, QueuesTyped DEF MailTyped, Ages
    <3>2. /\ v = u => cur'[u].age = Head(pub[u][g]) /\ pub'[u][g] = Tail(pub[u][g])
          /\ v # u => cur'[u] = cur[u] /\ pub'[u] = pub[u]
          /\ \A h \in Groups \ {g} : pub'[u][h] = pub[u][h]
      BY <1>0, <2>2 DEF ThreadsTyped, MailTyped
    <3>3. EarlyAt(u)
      BY <2>2, <3>1, <3>2 DEF EarlyAt
    <3> QED
      BY <1>6, <3>2, <3>3
  <2> QED
    BY <1>6, <2>1, <2>2 DEF Receive
<1>7. ASSUME NEW v \in Users, PrintMessage(v) PROVE From
  <2>1. UNCHANGED <<priv, pub>> /\ cur' = [cur EXCEPT ![v] = NoMessage]
    BY <1>7 DEF PrintMessage, mail
  <2>2. cur'[u] = cur[u] \/ cur'[u].age = "other"
    BY <1>0, <2>1, NoMessageTyped DEF ThreadsTyped
  <2> QED
    BY <2>1, <2>2 DEF EarlyAt
<1>8. ASSUME NEW v \in Users, StopConsuming(v) PROVE From
  <2>1. /\ cur' = cur
        /\ pub' = [pub EXCEPT ![v] = [g \in Groups |-> <<>>]]
        /\ priv' = priv \/ priv' = [priv EXCEPT ![v] = <<>>]
    BY <1>8 DEF StopConsuming, Nothing
  <2>2. /\ priv'[u] = priv[u] \/ priv'[u] = <<>>
        /\ \A g \in Groups : pub'[u][g] = pub[u][g] \/ pub'[u][g] = <<>>
    BY <1>0, <2>1 DEF MailTyped
  <2>3. \A i \in DOMAIN <<>> : FALSE
    OBVIOUS
  <2> QED
    BY <2>1, <2>2, <2>3 DEF EarlyAt
<1>9. ASSUME Serve, cur' = cur,
             \/ PublishPrivate(cmd.arg, "early") /\ cmd.kind = "send"
             \/ PublishPublic(cmd.arg, "early") /\ cmd.kind = "send-group"
      PROVE  /\ EarlyAt(u) \/ (Serve /\ cmd.kind \in {"send", "send-group"} /\ cur' = cur
                             /\ UNCHANGED <<event, tpc, surplus>> /\ EchoPending')
             /\ cur'[u].age = "early" => cur[u].age = "early"
  <2>1. UNCHANGED <<event, tpc, surplus>> /\ mpc' = "replied"
    BY <1>9 DEF Serve, shared, history
  <2>2. cmd' = [cmd EXCEPT !.ok = TRUE] \/ UNCHANGED mail
    BY <1>9 DEF Serve
  <2>3. CASE cmd' = [cmd EXCEPT !.ok = TRUE]
    <3>1. \A c \in CommandSet : [c EXCEPT !.ok = TRUE].ok /\ [c EXCEPT !.ok = TRUE].kind = c.kind
      BY DEF CommandSet
    <3>2. cmd'.ok /\ cmd'.kind = cmd.kind
      BY <2>3, <3>1 DEF Typed, CommandTyped
    <3> QED
      BY <1>9, <2>1, <3>2 DEF EchoPending
  <2>4. CASE UNCHANGED mail
    BY <1>9, <2>4 DEF EarlyAt, mail
  <2> QED
    BY <2>2, <2>3, <2>4
<1> QED
  BY <1>1, <1>2, <1>3, <1>4, <1>5, <1>6, <1>7, <1>8, <1>9, MailSteps

LEMMA WayToPrint ==
  ASSUME Typed, [Next]_vars, NEW u \in Users, tpc'[u] \in {"release", "print"}
  PROVE  tpc[u] = tpc'[u] \/ Acquire(u) \/ Release(u) \/ Receive(u)
<1>0. tpc \in [Users -> ThreadPlaces]
  BY DEF Typed, ThreadsTyped
<1>1. tpc' = tpc => tpc[u] = tpc'[u]
  OBVIOUS
<1>2. \A v \in Users : \A p : tpc' = [tpc EXCEPT ![v] = p] => v = u \/ tpc[u] = tpc'[u]
  BY <1>0
<1>3. ASSUME NEW v \in Users, NEW p \in {"off", "starting", "dead"},
             tpc' = [tpc EXCEPT ![v] = p]
      PROVE  tpc[u] = tpc'[u]
  BY <1>0, <1>3
<1>4. CASE ShowLogin \/ JoinThread \/ ExitJoin
  <2>1. cmd.who \in Users
    BY <1>4 DEF ShowLogin, Shown, JoinThread, ExitJoin, Typed, CommandTyped, Worded
  <2> QED
    BY <1>1, <1>3, <1>4, <2>1 DEF ShowLogin, JoinThread, ExitJoin, Joined
<1>5. CASE MainStep /\ ~ShowLogin /\ ~JoinThread /\ ~ExitJoin
  BY <1>1, <1>5 DEF MainStep, OwnStep, Serve, ShowAnswer, CountTopics, ShowLogout,
     ShowJoinGroup, ShowSend, ShowSendGroup, OpenSemaphore, WaitEnds, PutQuantity,
     GroupNotCounted, Except, GroupWaitEnds, DrainCounter, CounterAway, TakeSemaphore,
     StartAgain, ExitStop
<1>6. CASE Environment
  BY <1>1, <1>3, <1>6 DEF Environment, ReadCommand, Exit, ConnectionFails, Except,
     RemoteMessage, JoinElsewhere, RunFails, Move
<1>7. ASSUME NEW v \in Users, ThreadStep(v)
      PROVE  tpc[u] = tpc'[u] \/ Acquire(u) \/ Release(u) \/ Receive(u)
  <2>1. \E p : tpc' = [tpc EXCEPT ![v] = p]
    BY <1>7 DEF ThreadStep, Run, Receive, Acquire, Release, PrintMessage, SetDone,
       GetCounter, SetTopicDone, PutCounter, StopConsuming, At, Move
  <2>2. CASE v # u
    BY <1>2, <2>1, <2>2
  <2>3. CASE v = u
    <3>1. ASSUME Run(u) \/ PrintMessage(u) \/ SetDone(u) \/ GetCounter(u) \/ SetTopicDone(u)
                 \/ PutCounter(u) \/ StopConsuming(u)
          PROVE  tpc'[u] \notin {"release", "print"}
      BY <1>0, <3>1 DEF Run, PrintMessage, SetDone, GetCounter, SetTopicDone, PutCounter,
         StopConsuming, At, Move
    <3> QED
      BY <1>7, <2>3, <3>1 DEF ThreadStep
  <2> QED
    BY <2>2, <2>3
<1> QED
  BY <1>1, <1>4, <1>5, <1>6, <1>7 DEF Next, vars

LEMMA NextEcho ==
  ASSUME Typed, TokensConserved, EchoInv, [Next]_vars
  PROVE  EchoInv'
<1>1. mpc' \notin {"idle", "exit", "exit-join"} => event'
  BY EventStaysSet DEF EchoInv
<1>2. ASSUME NEW u \in Users, EarlyAt(u)
      PROVE  /\ EchoPending
             /\ EarlyAt(u)' => EchoPending' /\ surplus' = surplus
  <2>1. EchoPending
    BY <1>2 DEF EchoInv
  <2>2. EarlyAt(u)' => UNCHANGED <<mpc, cmd, surplus>>
    BY <2>1, EarlyComesFrom, PendingSteps
  <2> QED
    BY <2>1, <2>2 DEF EchoPending
<1>3. ASSUME NEW u \in Users, EarlyAt(u)'
      PROVE  EchoPending'
  BY <1>2, <1>3, EarlyComesFrom
<1>4. ASSUME NEW u \in Users, tpc'[u] \in {"release", "print"}, cur'[u].age = "early"
      PROVE  surplus' > 0
  <2>1. EarlyAt(u)'
    BY <1>4 DEF EarlyAt
  <2>2. cur[u].age = "early" \/ (Receive(u) /\ EarlyAt(u))
    BY <1>4, <2>1, EarlyComesFrom
  <2>3. EarlyAt(u)
    BY <2>2 DEF EarlyAt
  <2>4. EchoPending /\ surplus' = surplus
    BY <1>2, <2>1, <2>3
  <2>5. ~Receive(u)
    <3>1. mpc = "replied"
      BY <2>4 DEF EchoPending
    <3>2. event
      BY <3>1 DEF EchoInv
    <3>3. Receive(u) => tpc'[u] = "acquire"
      BY <3>2 DEF Receive, At, Move, Typed, ThreadsTyped
    <3> QED
      BY <1>4, <3>3
  <2>6. cur[u].age = "early"
    BY <2>2, <2>5
  <2>7. CASE tpc[u] = tpc'[u]
    BY <1>4, <2>4, <2>6, <2>7 DEF EchoInv, EchoAfterReply
  <2>8. CASE Acquire(u)
    <3>1. sem > 0
      BY <2>8 DEF Acquire
    <3>2. Window(Bracket) = 0
      BY <2>4 DEF EchoPending, Window, Bracket
    <3>3. sem + Holders(Outside) = surplus + Window(Bracket)
      BY DEF TokensConserved, Outside, Bracket
    <3>4. sem \in Nat /\ surplus \in Nat /\ Holders(Outside) \in Nat
      BY HoldersNat DEF Typed, SharedTyped
    <3> QED
      BY <2>4, <3>1, <3>2, <3>3, <3>4
  <2>9. CASE Release(u)
    <3>1. tpc[u] = "release"
      BY <2>9 DEF Release, At, Move
    <3> QED
      BY <2>4, <2>6, <3>1 DEF EchoInv
  <2> QED
    BY <1>4, <2>5, <2>7, <2>8, <2>9, WayToPrint
<1> QED
  BY <1>1, <1>3, <1>4 DEF EchoInv, EchoAfterReply

----------------------------------------------------------------------------
(* The theorems *)

\* Every variable the main thread and the AMQP threads share keeps its type:
\* in particular the semaphore is never taken below zero, and only the word
\* that a command asks for is looked up in the dictionaries.
THEOREM ClientTyped == Spec => []Typed
<1>1. Typed /\ [Next]_vars => Typed'
  BY NextTyped
<1> QED
  BY <1>1, InitTyped, PTL DEF Spec

\* The semaphore and the counter queue are given back by whoever took them, at
\* every interleaving, but for what the two exceptions leave behind.
THEOREM TokensAlwaysConserved == Spec => []TokensConserved
<1>1. Init => TokensConserved
  <2> SUFFICES ASSUME Init PROVE TokensConserved
    OBVIOUS
  <2>2. Holders({"release"}) = 0 /\ Holders({"set-topic-done", "put-back"}) = 0
    <3>1. /\ {u \in Users : tpc[u] \in {"release"}} = {}
          /\ {u \in Users : tpc[u] \in {"set-topic-done", "put-back"}} = {}
      BY DEF Init
    <3> QED
      BY <3>1, FS_EmptySet DEF Holders
  <2>3. /\ Window({"wait", "put", "group-wait", "drain", "take"}) = 0
        /\ Window({"group-wait", "drain"}) = 0
    BY DEF Init, Window
  <2>4. sem = 0 /\ surplus = 0 /\ leftover = 0 /\ Len(counter) = 0
    BY DEF Init
  <2> QED
    BY <2>2, <2>3, <2>4 DEF TokensConserved
<1>2. Typed /\ TokensConserved /\ [Next]_vars => TokensConserved'
  BY NextTokens
<1> QED
  BY <1>1, <1>2, ClientTyped, PTL DEF Spec

\* No thread prints a message before the main thread has printed the answer to
\* the command that sent it, unless an exception has left the semaphore open:
\* the event and the semaphore do order the two, whoever is scheduled when.
THEOREM EchoAlwaysAfterReply == Spec => []EchoAfterReply
<1>1. Init => EchoInv
  <2> SUFFICES ASSUME Init PROVE EchoInv
    OBVIOUS
  <2>1. \A u \in Users : cur[u] = NoMessage /\ priv[u] = <<>>
                         /\ (\A g \in Groups : pub[u][g] = <<>>) /\ tpc[u] = "off"
    BY DEF Init, Nothing
  <2>2. \A u \in Users : ~EarlyAt(u)
    BY <2>1, NoMessageTyped DEF EarlyAt
  <2>3. mpc = "idle"
    BY DEF Init
  <2> QED
    BY <2>1, <2>2, <2>3 DEF EchoInv, EchoAfterReply
<1>2. Typed /\ TokensConserved /\ EchoInv /\ [Next]_vars => EchoInv'
  BY NextEcho
<1>3. EchoInv => EchoAfterReply
  BY DEF EchoInv
<1> QED
  BY <1>1, <1>2, <1>3, ClientTyped, TokensAlwaysConserved, PTL DEF Spec
----------------------------------------------------------------------------
(* What the end of a wait says *)

\* The places of a thread that has a message in its hands; that has a message
\* and has yet to take the counter for it; that does anything for a message.
Reading == {"acquire", "release", "print"}
Coming == Reading \cup {"get"}
Busy == Coming \cup {"set-done", "set-topic-done", "put-back"}

BooksTyped ==
  /\ subs \in [Users -> SUBSET Groups]
  /\ joined \in [Users -> SUBSET Groups]
  /\ member \in [Users -> SUBSET Groups]

\* What the main thread and the AMQP threads know of each other.
ThreadsKnown ==
  /\ \A u \in Users :
       /\ stop[u] # "no" \/ tpc[u] = "ended" =>
            mpc \in {"join", "exit-join"} /\ cmd.who = u
       /\ tpc[u] \in {"off", "ended"} => subs[u] = {}
       /\ tpc[u] \notin Reading => cur[u].age = "other"
  /\ mpc = "sent" => ~cmd.ok
  /\ cmd.kind = "join-group" =>
       /\ mpc \in {"sent", "replied"} => Local(cmd.who)
       /\ mpc = "replied" /\ cmd.ok => cmd.arg \in member[cmd.who]

\* A group is counted at least once for each user who has joined it and is not
\* just leaving.
Sharers(g) == {u \in Users : g \in joined[u] /\ ~(mpc = "join" /\ cmd.who = u)}
Counted == \A g \in Groups : Cardinality(Sharers(g)) <= quantity[g]

\* While all goes well a thread has queues only for groups that are counted.
Deleted(u) ==
  /\ cmd.kind = "delete" /\ cmd.who = u
  /\ mpc = "join" \/ (mpc = "replied" /\ cmd.ok)
BooksKept ==
  \A u \in Users :
    /\ subs[u] \subseteq IF mpc = "launch" /\ cmd.who = u THEN member[u] ELSE joined[u]
    /\ Deleted(u) \/ joined[u] \subseteq member[u]

\* The stages at which messages of this client can be under way.
Sending == cmd.kind = "send" /\ (mpc = "wait" \/ (mpc = "replied" /\ cmd.ok))
Spreading ==
  cmd.kind = "send-group" /\ (mpc \in {"put", "group-wait"} \/ (mpc = "replied" /\ cmd.ok))

NoMail(u) == priv[u] = <<>> /\ \A g \in Groups : pub[u][g] = <<>>
Quiet(u) == NoMail(u) /\ tpc[u] \notin Busy /\ ~done[u]

\* The user a direct message goes to.
Addressed(u) ==
  /\ \A g \in Groups : pub[u][g] = <<>>
  /\ Quiet(u) \/ Local(u)
  /\ Len(priv[u]) <= 1
  /\ priv[u] # <<>> => tpc[u] \notin Busy /\ ~done[u]
  /\ tpc[u] \in Busy => tpc[u] \in Reading \cup {"set-done"} /\ ~done[u]
  /\ tpc[u] \in Reading => cur[u].kind = "private"
SendInv ==
  /\ ~topicDone /\ Addressed(cmd.arg)
  /\ \A u \in Users : u # cmd.arg => Quiet(u)

\* A member of the group g that a message goes to; those whose copy has not
\* been counted down.
Reached(u, g) ==
  /\ priv[u] = <<>> /\ ~done[u]
  /\ \A h \in Groups : h # g => pub[u][h] = <<>>
  /\ Len(pub[u][g]) <= 1
  /\ pub[u][g] # <<>> => tpc[u] \notin Busy
  /\ tpc[u] # "set-done"
  /\ tpc[u] \in Reading => cur[u].kind = "public"
Copies(g) == {u \in Users : pub[u][g] # <<>> \/ tpc[u] \in Coming}

\* The counter has not been passed on more often than copies were printed.
Passing(C) ==
  /\ \A i \in DOMAIN counter : Cardinality(C) <= counter[i]
  /\ \A u \in Users :
       /\ tpc[u] \in {"set-topic-done", "put-back"} => Cardinality(C) <= held[u]
       /\ tpc[u] = "set-topic-done" =>
            /\ C = {} /\ ~topicDone
            /\ \A v \in Users : tpc[v] = "set-topic-done" => v = u
  /\ topicDone => C = {}
SpreadInv ==
  /\ \A u \in Users : Reached(u, cmd.arg)
  /\ \A u \in Copies(cmd.arg) : cmd.arg \in joined[u]
  /\ IF mpc = "group-wait" THEN Passing(Copies(cmd.arg)) ELSE ~topicDone

\* All copies are printed, and the counter may still be on its way back.
DrainInv ==
  /\ ~topicDone
  /\ \A u \in Users : NoMail(u) /\ ~done[u] /\ (tpc[u] \in Busy => tpc[u] = "put-back")

RestInv == ~topicDone /\ \A u \in Users : Quiet(u)

Stage ==
  IF Sending THEN SendInv
  ELSE IF Spreading THEN SpreadInv
  ELSE IF mpc = "drain" THEN DrainInv
  ELSE RestInv

CalmInv == calm => leftover = 0 /\ BooksKept /\ Stage
WaitInv == BooksTyped /\ ThreadsKnown /\ Counted /\ CalmInv

----------------------------------------------------------------------------
(* The books *)

\* A command is read for a user who is local, and is not answered yet.
LEMMA CommandsRead ==
  ASSUME NEW c \in Commands
  PROVE  /\ ~c.ok /\ c # NoCommand
         /\ c.kind = "join-group" => Local(c.who)
<1>1. \A d \in [kind : {"login"}, who : Users, arg : {NoOne}, ok : {FALSE}] :
         ~d.ok /\ d.kind = "login"
  OBVIOUS
<1>2. \A d \in [kind : {"logout", "delete"}, who : Here, arg : {NoOne}, ok : {FALSE}] :
         ~d.ok /\ d.kind \in {"logout", "delete"}
  OBVIOUS
<1>3. \A d \in [kind : {"send"}, who : Here, arg : Users, ok : {FALSE}] :
         ~d.ok /\ d.kind = "send"
  OBVIOUS
<1>4. \A d \in [kind : {"join-group", "send-group"}, who : Here, arg : Groups, ok : {FALSE}] :
         ~d.ok /\ d.kind \in {"join-group", "send-group"} /\ Local(d.who)
  BY DEF Here
<1>5. \A d \in [kind : {"other", "empty"}, who : {NoOne}, arg : {NoOne}, ok : {FALSE}] :
         ~d.ok /\ d.kind \in {"other", "empty"}
  OBVIOUS
<1>6. NoCommand.kind = "none"
  BY DEF NoCommand
<1> QED
  BY <1>1, <1>2, <1>3, <1>4, <1>5, <1>6 DEF Commands

\* What a step of a thread leaves alone.
LEMMA ThreadFrame ==
  ASSUME Typed, NEW u \in Users, ThreadStep(u)
  PROVE  /\ UNCHANGED <<mpc, cmd, event, quantity, joined, stop, member, leftover, calm>>
         /\ \A v \in Users : v # u =>
              UNCHANGED <<tpc[v], cur[v], held[v], done[v], priv[v], pub[v]>>
<1>0. ThreadsTyped /\ MailTyped
  BY DEF Typed
<1>1. UNCHANGED <<mpc, cmd, event, quantity, joined, stop, member, leftover, calm>>
  BY DEF ThreadStep, Run, Receive, Acquire, Release, PrintMessage, SetDone, GetCounter,
     SetTopicDone, PutCounter, StopConsuming, At, Move, main, books
<1>2. \A v \in Users : v # u => tpc'[v] = tpc[v]
  <2>1. \E p : tpc' = [tpc EXCEPT ![u] = p]
    BY DEF ThreadStep, Run, Receive, Acquire, Release, PrintMessage, SetDone, GetCounter,
       SetTopicDone, PutCounter, StopConsuming, At, Move
  <2> QED
    BY <1>0, <2>1 DEF ThreadsTyped
<1>3. \A v \in Users : v # u => cur'[v] = cur[v]
  <2>1. cur' = cur \/ \E m : cur' = [cur EXCEPT ![u] = m]
    BY DEF ThreadStep, Run, Receive, Acquire, Release, PrintMessage, SetDone, GetCounter,
       SetTopicDone, PutCounter, StopConsuming
  <2> QED
    BY <1>0, <2>1 DEF ThreadsTyped
<1>4. \A v \in Users : v # u => held'[v] = held[v]
  <2>1. held' = held \/ \E n : held' = [held EXCEPT ![u] = n]
    BY DEF ThreadStep, Run, Receive, Acquire, Release, PrintMessage, SetDone, GetCounter,
       SetTopicDone, PutCounter, StopConsuming
  <2> QED
    BY <1>0, <2>1 DEF ThreadsTyped
<1>5. \A v \in Users : v # u => done'[v] = done[v]
  <2>1. done' = done \/ done' = [done EXCEPT ![u] = TRUE]
    BY DEF ThreadStep, Run, Receive, Acquire, Release, PrintMessage, SetDone, GetCounter,
       SetTopicDone, PutCounter, StopConsuming
  <2> QED
    BY <1>0, <2>1 DEF ThreadsTyped
<1>6. \A v \in Users : v # u => priv'[v] = priv[v] /\ pub'[v] = pub[v]
  <2>1. CASE UNCHANGED mail
    BY <2>1 DEF mail
  <2>2. CASE Receive(u)
    BY <1>0, <2>2 DEF Receive, MailTyped
  <2>3. CASE StopConsuming(u)
    BY <1>0, <2>3 DEF StopConsuming, MailTyped
  <2> QED
    BY <2>1, <2>2, <2>3 DEF ThreadStep, Run, Acquire, Release, PrintMessage, SetDone,
       GetCounter, SetTopicDone, PutCounter
<1> QED
  BY <1>1, <1>2, <1>3, <1>4, <1>5, <1>6

LEMMA NextBooksTyped ==
  ASSUME Typed, BooksTyped, [Next]_vars
  PROVE  BooksTyped'
<1> USE DEF BooksTyped
<1>0. ASSUME NEW f \in [Users -> SUBSET Groups], NEW x, NEW S \in SUBSET Groups
      PROVE  /\ [f EXCEPT ![x] = S] \in [Users -> SUBSET Groups]
             /\ [f EXCEPT ![x] = @ \cup S] \in [Users -> SUBSET Groups]
  BY <1>0
<1>1. \A u \in Users : member[u] \in SUBSET Groups
  OBVIOUS
<1>2. CASE Serve
  <2>1. UNCHANGED <<joined, subs>>
    BY <1>2 DEF Serve, books
  <2>2. \/ member' = member
        \/ member' = [member EXCEPT ![cmd.who] = {}]
        \/ cmd.kind = "join-group" /\ member' = [member EXCEPT ![cmd.who] = @ \cup {cmd.arg}]
    BY <1>2 DEF Serve
  <2>3. cmd.kind = "join-group" => {cmd.arg} \in SUBSET Groups
    BY DEF Typed, CommandTyped, Worded
  <2> QED
    BY <1>0, <2>1, <2>2, <2>3
<1>3. CASE ShowLogin \/ CountTopics
  <2>1. /\ member' = member
        /\ joined' = joined \/ joined' = [joined EXCEPT ![cmd.who] = member[cmd.who]]
        /\ subs' = subs \/ subs' = [subs EXCEPT ![cmd.who] = member[cmd.who]]
    BY <1>3 DEF ShowLogin, CountTopics, GoOn, Finish, books
  <2>2. member[cmd.who] \in SUBSET Groups
    BY <1>1, <1>3 DEF ShowLogin, CountTopics, Shown, Typed, CommandTyped, Worded
  <2>3. joined' \in [Users -> SUBSET Groups]
    BY <1>0, <2>1, <2>2
  <2>4. subs' \in [Users -> SUBSET Groups]
    BY <1>0, <2>1, <2>2
  <2> QED
    BY <2>1, <2>3, <2>4
<1>4. CASE ShowJoinGroup
  <2>1. /\ member' = member
        /\ joined' = [joined EXCEPT ![cmd.who] = @ \cup {cmd.arg}]
        /\ subs' = [subs EXCEPT ![cmd.who] = @ \cup {cmd.arg}]
    BY <1>4 DEF ShowJoinGroup, Finish
  <2>2. {cmd.arg} \in SUBSET Groups
    BY <1>4 DEF ShowJoinGroup, Shown, Typed, CommandTyped, Worded
  <2> QED
    BY <1>0, <2>1, <2>2
<1>5. CASE JoinThread
  <2>1. UNCHANGED <<member, subs>> /\ joined' = [joined EXCEPT ![cmd.who] = {}]
    BY <1>5 DEF JoinThread, Finish
  <2> QED
    BY <1>0, <2>1
<1>6. CASE StartAgain
  BY <1>6 DEF StartAgain
<1>7. CASE MainStep
  BY <1>2, <1>3, <1>4, <1>5, <1>6, <1>7 DEF MainStep, OwnStep, ShowAnswer, ShowLogout, ShowSend,
     ShowSendGroup, OpenSemaphore, WaitEnds, PutQuantity, GroupNotCounted, Except,
     GroupWaitEnds, DrainCounter, CounterAway, TakeSemaphore, ExitJoin, ExitStop, GoOn,
     Finish, books
<1>8. ASSUME NEW u \in Users, NEW g \in Groups, JoinElsewhere(u, g) PROVE BooksTyped'
  <2>1. UNCHANGED <<joined, subs>> /\ member' = [member EXCEPT ![u] = @ \cup {g}]
    BY <1>8 DEF JoinElsewhere, books
  <2> QED
    BY <1>0, <2>1
<1>9. CASE Environment
  BY <1>8, <1>9 DEF Environment, ReadCommand, Exit, ConnectionFails, Except, RemoteMessage,
     RunFails, Move, GoOn, books
<1>10. CASE \E u \in Users : ThreadStep(u)
  <2>1. UNCHANGED <<joined, member>>
    BY <1>10, ThreadFrame
  <2>2. subs' = subs \/ \E u \in Users : subs' = [subs EXCEPT ![u] = {}]
    BY <1>10 DEF ThreadStep, Run, Receive, Acquire, Release, PrintMessage, SetDone,
       GetCounter, SetTopicDone, PutCounter, StopConsuming
  <2> QED
    BY <1>0, <2>1, <2>2
<1> QED
  BY <1>7, <1>9, <1>10 DEF Next, vars, books

\* The main thread's place at a thread's end, and what it knows of a command.
LEMMA NextThreadsKnown ==
  ASSUME Typed, BooksTyped, ThreadsKnown, [Next]_vars
  PROVE  ThreadsKnown'
<1> DEFINE Ending(u) == stop[u] # "no" \/ tpc[u] = "ended" =>
                          mpc \in {"join", "exit-join"} /\ cmd.who = u
           Away(u) == tpc[u] \in {"off", "ended"} => subs[u] = {}
           Empty(u) == tpc[u] \notin Reading => cur[u].age = "other"
           Words == /\ mpc = "sent" => ~cmd.ok
                    /\ cmd.kind = "join-group" =>
                         /\ mpc \in {"sent", "replied"} => Local(cmd.who)
                         /\ mpc = "replied" /\ cmd.ok => cmd.arg \in member[cmd.who]
<1>0. /\ ThreadsTyped /\ MailTyped /\ CommandTyped /\ Words
      /\ \A u \in Users : Ending(u) /\ Away(u) /\ Empty(u)
  BY DEF Typed, ThreadsKnown
<1>1. \A u \in Users : Ending(u)'
  <2>1. ASSUME mpc \notin {"join", "exit-join"}, UNCHANGED <<stop, tpc>>
        PROVE  \A u \in Users : Ending(u)'
    BY <1>0, <2>1
  <2>2. CASE ShowLogin
    <3>1. mpc = "replied" /\ stop' = stop
          /\ (tpc' = tpc \/ tpc' = [tpc EXCEPT ![cmd.who] = "starting"])
      BY <2>2 DEF ShowLogin, Shown
    <3> QED
      BY <1>0, <3>1 DEF ThreadsTyped
  <2>3. CASE ShowLogout
    <3>1. /\ mpc = "replied" /\ mpc' = "join" /\ cmd' = cmd /\ tpc' = tpc
          /\ stop' = [stop EXCEPT ![cmd.who] = cmd.kind]
      BY <2>3 DEF ShowLogout, Shown, GoOn
    <3> QED
      BY <1>0, <3>1 DEF ThreadsTyped
  <2>4. CASE JoinThread \/ ExitJoin
    <3>1. /\ tpc' = [tpc EXCEPT ![cmd.who] = "off"]
          /\ stop' = [stop EXCEPT ![cmd.who] = "no"]
      BY <2>4 DEF JoinThread, ExitJoin, Joined
    <3> QED
      BY <1>0, <3>1 DEF ThreadsTyped
  <2>5. ASSUME NEW u \in Users, ExitStop(u) PROVE \A v \in Users : Ending(v)'
    <3>1. /\ mpc = "exit" /\ mpc' = "exit-join" /\ cmd' = [cmd EXCEPT !.who = u]
          /\ tpc' = tpc /\ stop' = [stop EXCEPT ![u] = "exit"]
      BY <2>5 DEF ExitStop
    <3>2. cmd'.who = u
      BY <1>0, <3>1 DEF CommandTyped, CommandSet
    <3> QED
      BY <1>0, <3>1, <3>2 DEF ThreadsTyped
  <2>6. CASE MainStep
    BY <2>1, <2>2, <2>3, <2>4, <2>5, <2>6 DEF MainStep, OwnStep, Serve, ShowAnswer, CountTopics,
       ShowJoinGroup, ShowSend, ShowSendGroup, OpenSemaphore, WaitEnds, PutQuantity,
       GroupNotCounted, Except, GroupWaitEnds, DrainCounter, CounterAway, TakeSemaphore,
       StartAgain, Shown
  <2>7. ASSUME NEW u \in Users, RunFails(u) PROVE \A v \in Users : Ending(v)'
    <3>1. UNCHANGED <<mpc, cmd, stop>> /\ tpc' = [tpc EXCEPT ![u] = "dead"]
      BY <2>7 DEF RunFails, Move, main
    <3> QED
      BY <1>0, <3>1 DEF ThreadsTyped
  <2>8. ASSUME UNCHANGED <<mpc, cmd, stop, tpc>> PROVE \A v \in Users : Ending(v)'
    BY <1>0, <2>8
  <2>9. CASE Environment
    BY <2>1, <2>7, <2>8, <2>9 DEF Environment, ReadCommand, Exit, ConnectionFails, Except,
       RemoteMessage, JoinElsewhere, main
  <2>10. ASSUME NEW u \in Users, ThreadStep(u) PROVE \A v \in Users : Ending(v)'
    <3>1. UNCHANGED <<mpc, cmd, stop>> /\ \A v \in Users : v # u => tpc'[v] = tpc[v]
      BY <2>10, ThreadFrame
    <3>2. tpc'[u] = "ended" => stop[u] # "no"
      BY <1>0, <2>10 DEF ThreadStep, Run, Receive, Acquire, Release, PrintMessage, SetDone,
         GetCounter, SetTopicDone, PutCounter, StopConsuming, At, Move, ThreadsTyped
    <3> QED
      BY <1>0, <3>1, <3>2
  <2> QED
    BY <2>6, <2>8, <2>9, <2>10 DEF Next, vars, main
<1>2. \A u \in Users : Away(u)'
  <2>0. \A u \in Users : Ending(u)
    BY <1>0
  <2>1. ASSUME UNCHANGED <<tpc, subs>> PROVE \A u \in Users : Away(u)'
    BY <1>0, <2>1
  <2>2. CASE ShowLogin
    <3>1. \/ UNCHANGED <<tpc, subs>>
          \/ /\ tpc' = [tpc EXCEPT ![cmd.who] = "starting"]
             /\ subs' = [subs EXCEPT ![cmd.who] = member[cmd.who]]
      BY <2>2 DEF ShowLogin
    <3> QED
      BY <1>0, <2>1, <3>1 DEF ThreadsTyped, BooksTyped
  <2>3. CASE JoinThread \/ ExitJoin
    <3>1. /\ tpc[cmd.who] = "ended" /\ tpc' = [tpc EXCEPT ![cmd.who] = "off"]
          /\ subs' = subs
      BY <2>3 DEF JoinThread, ExitJoin, Joined
    <3>2. \A u \in Users : tpc'[u] = tpc[u] \/ tpc[u] = "ended"
      BY <1>0, <3>1 DEF ThreadsTyped
    <3> QED
      BY <1>0, <3>1, <3>2
  <2>4. CASE ShowJoinGroup
    <3>1. /\ tpc' = tpc /\ subs' = [subs EXCEPT ![cmd.who] = @ \cup {cmd.arg}]
          /\ mpc = "replied" /\ cmd.kind = "join-group" /\ cmd.who \in Users
      BY <2>4 DEF ShowJoinGroup, Shown, Typed, CommandTyped, Worded
    <3>2. tpc[cmd.who] \notin {"off", "ended"}
      BY <1>0, <3>1 DEF Local
    <3>3. \A u \in Users : u # cmd.who => subs'[u] = subs[u]
      BY <3>1 DEF BooksTyped
    <3> QED
      BY <1>0, <3>1, <3>2, <3>3
  <2>5. CASE MainStep
    BY <2>1, <2>2, <2>3, <2>4, <2>5 DEF MainStep, OwnStep, Serve, ShowAnswer, CountTopics,
       ShowLogout, ShowSend, ShowSendGroup, OpenSemaphore, WaitEnds, PutQuantity,
       GroupNotCounted, Except, GroupWaitEnds, DrainCounter, CounterAway, TakeSemaphore,
       StartAgain, ExitStop
  <2>6. ASSUME NEW u \in Users, RunFails(u) PROVE \A v \in Users : Away(v)'
    <3>1. subs' = subs /\ tpc' = [tpc EXCEPT ![u] = "dead"]
      BY <2>6 DEF RunFails, Move
    <3> QED
      BY <1>0, <3>1 DEF ThreadsTyped
  <2>7. CASE Environment
    BY <2>1, <2>6, <2>7 DEF Environment, ReadCommand, Exit, ConnectionFails, Except,
       RemoteMessage, JoinElsewhere
  <2>8. ASSUME NEW u \in Users, ThreadStep(u) PROVE \A v \in Users : Away(v)'
    <3>1. \A v \in Users : v # u => tpc'[v] = tpc[v]
      BY <2>8, ThreadFrame
    <3>2. CASE StopConsuming(u)
      <4>1. subs' = [subs EXCEPT ![u] = {}]
        BY <3>2 DEF StopConsuming
      <4>2. subs'[u] = {} /\ \A v \in Users : v # u => subs'[v] = subs[v]
        BY <4>1 DEF BooksTyped
      <4> QED
        BY <1>0, <3>1, <4>2
    <3>3. CASE ~StopConsuming(u)
      <4>1. subs' = subs
        BY <2>8, <3>3 DEF ThreadStep, Run, Receive, Acquire, Release, PrintMessage,
           SetDone, GetCounter, SetTopicDone, PutCounter
      <4>2. tpc'[u] \notin {"off", "ended"}
        BY <1>0, <2>8, <3>3 DEF ThreadStep, Run, Receive, Acquire, Release, PrintMessage,
           SetDone, GetCounter, SetTopicDone, PutCounter, At, Move, ThreadsTyped
      <4> QED
        BY <1>0, <3>1, <4>1, <4>2
    <3> QED
      BY <3>2, <3>3
  <2> QED
    BY <2>1, <2>5, <2>7, <2>8 DEF Next, vars
<1>3. \A u \in Users : Empty(u)'
  <2>1. ASSUME NEW u \in Users PROVE (tpc'[u] \notin Reading => cur'[u].age = "other")
    <3>1. ASSUME cur'[u].age = cur[u].age, tpc[u] \notin Reading \/ tpc'[u] = tpc[u]
          PROVE  tpc'[u] \notin Reading => cur'[u].age = "other"
      BY <1>0, <3>1
    <3>2. ASSUME AgeMessages(Over) PROVE cur'[u].age = "other"
      BY <1>0, <3>2, AgedOver
    <3>3. ASSUME AgeMessages(Answered), tpc' = tpc
          PROVE  tpc'[u] \notin Reading => cur'[u].age = "other"
      <4>1. cur'[u].age = Answered(cur[u].age)
        BY <1>0, <3>3, AgedAnswered
      <4>2. Answered("other") = "other"
        BY DEF Answered
      <4> QED
        BY <1>0, <3>3, <4>1, <4>2
    <3>4. ASSUME cur' = cur, tpc' = tpc \/ \E v \in Users : tpc' = [tpc EXCEPT ![v] = "starting"] /\ tpc[v] = "off"
          PROVE  tpc'[u] \notin Reading => cur'[u].age = "other"
      BY <1>0, <3>4 DEF ThreadsTyped, Reading
    <3>5. CASE MainStep
      <4>1. CASE ShowAnswer \/ CountTopics \/ JoinThread \/ ShowJoinGroup \/ TakeSemaphore
                 \/ GroupNotCounted \/ CounterAway
        BY <3>2, <4>1 DEF ShowAnswer, CountTopics, JoinThread, ShowJoinGroup, TakeSemaphore,
           Finish, GroupNotCounted, CounterAway, Except
      <4>2. CASE ShowSend \/ ShowSendGroup
        BY <3>3, <4>2 DEF ShowSend, ShowSendGroup, OpenSemaphore
      <4>3. CASE ShowLogin
        <5>1. cmd.who \in Users
          BY <4>3 DEF ShowLogin, Shown, Typed, CommandTyped, Worded
        <5> QED
          BY <3>4, <4>3, <5>1 DEF ShowLogin, Local
      <4>4. CASE ExitJoin
        <5>1. cur' = cur /\ tpc[cmd.who] = "ended" /\ tpc' = [tpc EXCEPT ![cmd.who] = "off"]
          BY <4>4 DEF ExitJoin, Joined
        <5>2. tpc'[u] = tpc[u] \/ tpc[u] \notin Reading
          BY <1>0, <5>1 DEF ThreadsTyped, Reading
        <5> QED
          BY <1>0, <5>1, <5>2
      <4>5. CASE Serve \/ ShowLogout \/ WaitEnds \/ PutQuantity \/ GroupWaitEnds
                 \/ DrainCounter \/ StartAgain \/ \E v \in Users : ExitStop(v)
        <5>1. cur' = cur /\ tpc' = tpc
          BY <4>5 DEF Serve, ShowLogout, WaitEnds, PutQuantity, GroupWaitEnds, DrainCounter,
             StartAgain, ExitStop
        <5> QED
          BY <3>4, <5>1
      <4> QED
        BY <3>5, <4>1, <4>2, <4>3, <4>4, <4>5 DEF MainStep, OwnStep
    <3>6. CASE Environment
      <4>1. CASE ConnectionFails
        BY <3>2, <4>1 DEF ConnectionFails, Except
      <4>2. ASSUME NEW v \in Users, RunFails(v)
            PROVE  tpc'[u] \notin Reading => cur'[u].age = "other"
        <5>1. cur' = cur /\ tpc[v] = "starting" /\ tpc' = [tpc EXCEPT ![v] = "dead"]
          BY <4>2 DEF RunFails, Move
        <5>2. tpc'[u] = tpc[u] \/ tpc[u] \notin Reading
          BY <1>0, <5>1 DEF ThreadsTyped, Reading
        <5> QED
          BY <1>0, <5>1, <5>2
      <4> QED
        BY <3>4, <3>6, <4>1, <4>2 DEF Environment, ReadCommand, Exit, RemoteMessage,
           JoinElsewhere
    <3>7. ASSUME NEW v \in Users, ThreadStep(v)
          PROVE  tpc'[u] \notin Reading => cur'[u].age = "other"
      <4>1. CASE u # v
        BY <1>0, <3>7, <4>1, ThreadFrame
      <4>2. CASE u = v /\ PrintMessage(u)
        <5>1. cur' = [cur EXCEPT ![u] = NoMessage]
          BY <4>2 DEF PrintMessage
        <5> QED
          BY <1>0, <5>1, NoMessageTyped DEF ThreadsTyped
      <4>3. CASE u = v /\ Receive(u)
        <5>1. tpc'[u] \in Reading
          BY <1>0, <4>3 DEF Receive, At, Move, Reading, ThreadsTyped
        <5> QED
          BY <5>1
      <4>4. CASE u = v /\ ~PrintMessage(u) /\ ~Receive(u)
        <5>1. cur' = cur
          BY <3>7, <4>4 DEF ThreadStep, Run, Acquire, Release, SetDone, GetCounter,
             SetTopicDone, PutCounter, StopConsuming
        <5>2. tpc'[u] \in Reading \/ tpc[u] \notin Reading
          BY <1>0, <3>7, <4>4 DEF ThreadStep, Run, Acquire, Release, SetDone, GetCounter,
             SetTopicDone, PutCounter, StopConsuming, At, Move, Reading, ThreadsTyped
        <5> QED
          BY <1>0, <5>1, <5>2
      <4> QED
        BY <4>1, <4>2, <4>3, <4>4
    <3> QED
      BY <3>4, <3>5, <3>6, <3>7 DEF Next, vars
  <2> QED
    BY <2>1
<1>4. Words'
  <2>1. CASE mpc' \notin {"sent", "replied"}
    BY <2>1
  <2>2. ASSUME NEW c \in Commands, ReadCommand(c) PROVE Words'
    <3>1. mpc' = "sent" /\ cmd' = c /\ tpc' = tpc
      BY <2>2 DEF ReadCommand
    <3> QED
      BY <3>1, CommandsRead DEF Local
  <2>3. CASE Serve
    <3>1. mpc = "sent" /\ mpc' = "replied" /\ tpc' = tpc /\ ~cmd.ok
      BY <1>0, <2>3 DEF Serve
    <3>2. CASE cmd' = cmd
      BY <1>0, <3>1, <3>2 DEF Local
    <3>3. CASE cmd' # cmd
      <4>1. cmd' = [cmd EXCEPT !.ok = TRUE]
        BY <2>3, <3>3 DEF Serve
      <4>2. cmd'.kind = cmd.kind /\ cmd'.who = cmd.who /\ cmd'.arg = cmd.arg
        BY <1>0, <4>1 DEF CommandTyped, CommandSet
      <4>3. cmd.kind = "join-group" =>
              member' = [member EXCEPT ![cmd.who] = @ \cup {cmd.arg}] /\ cmd.who \in Users
        BY <1>0, <2>3, <3>3 DEF Serve, CommandTyped, Worded
      <4>4. cmd.kind = "join-group" => cmd.arg \in member'[cmd.who]
        BY <4>3 DEF BooksTyped
      <4> QED
        BY <1>0, <3>1, <4>2, <4>4 DEF Local
    <3> QED
      BY <3>2, <3>3
  <2>4. ASSUME UNCHANGED <<mpc, cmd>>,
               \A u \in Users : member[u] \subseteq member'[u],
               \A u \in Users : tpc[u] # "off" => tpc'[u] # "off"
        PROVE  Words'
    <3>1. cmd.kind = "join-group" => cmd.who \in Users
      BY <1>0 DEF CommandTyped, Worded
    <3> QED
      BY <1>0, <2>4, <3>1 DEF Local
  <2>5. CASE MainStep /\ ~Serve
    BY <2>1, <2>5 DEF MainStep, OwnStep, ShowAnswer, ShowLogin, CountTopics, ShowLogout,
       JoinThread, ShowJoinGroup, ShowSend, ShowSendGroup, OpenSemaphore, WaitEnds,
       PutQuantity, GroupNotCounted, Except, GroupWaitEnds, DrainCounter, CounterAway,
       TakeSemaphore, ExitJoin, StartAgain, ExitStop, GoOn, Finish
  <2>6. ASSUME NEW u \in Users, NEW g \in Groups, JoinElsewhere(u, g) PROVE Words'
    <3>1. UNCHANGED <<mpc, cmd, tpc>> /\ member' = [member EXCEPT ![u] = @ \cup {g}]
      BY <2>6 DEF JoinElsewhere, main
    <3> QED
      BY <2>4, <3>1 DEF BooksTyped
  <2>7. ASSUME NEW u \in Users, RunFails(u) PROVE Words'
    <3>1. UNCHANGED <<mpc, cmd, member>> /\ tpc' = [tpc EXCEPT ![u] = "dead"]
      BY <2>7 DEF RunFails, Move, main
    <3> QED
      BY <1>0, <2>4, <3>1 DEF ThreadsTyped
  <2>8. CASE RemoteMessage \/ UNCHANGED vars
    BY <2>4, <2>8 DEF RemoteMessage, vars, main
  <2>9. CASE Exit \/ ConnectionFails
    BY <2>1, <2>9 DEF Exit, GoOn, ConnectionFails, Except
  <2>10. ASSUME NEW u \in Users, ThreadStep(u) PROVE Words'
    <3>1. /\ UNCHANGED <<mpc, cmd, member>>
          /\ \A v \in Users : v # u => tpc'[v] = tpc[v]
      BY <2>10, ThreadFrame
    <3>2. tpc'[u] # "off"
      BY <1>0, <2>10 DEF ThreadStep, Run, Receive, Acquire, Release, PrintMessage, SetDone,
         GetCounter, SetTopicDone, PutCounter, StopConsuming, At, Move, ThreadsTyped
    <3> QED
      BY <2>4, <3>1, <3>2
  <2> QED
    BY <2>2, <2>3, <2>5, <2>6, <2>7, <2>8, <2>9, <2>10 DEF Next, Environment
<1> QED
  BY <1>1, <1>2, <1>3, <1>4 DEF ThreadsKnown

LEMMA SomeUsers ==
  ASSUME NEW S, NEW T \in SUBSET Users, NEW u \in Users
  PROVE  /\ S \subseteq T => Cardinality(S) <= Cardinality(T)
         /\ S \subseteq T \cup {u} => Cardinality(S) <= Cardinality(T) + 1
         /\ S = T \ {u} /\ u \in T => Cardinality(S) = Cardinality(T) - 1
         /\ Cardinality(T) \in Nat
         /\ Cardinality(T) <= 0 => T = {}
<1>1. IsFiniteSet(T) /\ IsFiniteSet(T \cup {u})
  BY FS_Subset, FS_AddElement, ClientAssumption
<1>2. /\ Cardinality(T) \in Nat /\ Cardinality(T \cup {u}) \in Nat
      /\ Cardinality(T \cup {u}) <= Cardinality(T) + 1
  BY <1>1, FS_CardinalityType, FS_AddElement
<1>3. S \subseteq T => Cardinality(S) \in Nat /\ Cardinality(S) <= Cardinality(T)
  BY <1>1, FS_Subset, FS_CardinalityType
<1>4. S \subseteq T \cup {u} =>
         Cardinality(S) \in Nat /\ Cardinality(S) <= Cardinality(T \cup {u})
  BY <1>1, FS_Subset, FS_CardinalityType
<1>5. S = T \ {u} /\ u \in T => Cardinality(S) = Cardinality(T) - 1
  BY <1>1, FS_RemoveElement
<1>6. Cardinality(T) <= 0 => T = {}
  BY <1>1, <1>2, FS_EmptySet
<1> QED
  BY <1>2, <1>3, <1>4, <1>5, <1>6

\* A group's count is never below the number of the local users who share it.
LEMMA NextCounted ==
  ASSUME Typed, BooksTyped, Counted, [Next]_vars
  PROVE  Counted'
<1>0. /\ \A g \in Groups : Sharers(g) \in SUBSET Users /\ quantity[g] \in Nat
      /\ \A g \in Groups : Cardinality(Sharers(g)) <= quantity[g]
  BY DEF Sharers, Counted, Typed, SharedTyped
<1>1. ASSUME quantity' = quantity, \A g \in Groups : Sharers(g)' \subseteq Sharers(g)
      PROVE  Counted'
  <2> SUFFICES ASSUME NEW g \in Groups
               PROVE  Cardinality(Sharers(g)') <= quantity'[g]
    BY DEF Counted
  <2>1. /\ Cardinality(Sharers(g)') <= Cardinality(Sharers(g))
        /\ Cardinality(Sharers(g)) \in Nat /\ Cardinality(Sharers(g)') \in Nat
    <3>1. CASE Users = {}
      BY <3>1, <1>1, FS_EmptySet DEF Sharers
    <3>2. CASE Users # {}
      <4>1. PICK u \in Users : TRUE
        BY <3>2
      <4>2. Sharers(g)' \in SUBSET Users
        BY DEF Sharers
      <4> QED
        BY <1>0, <1>1, <4>1, <4>2, SomeUsers
    <3> QED
      BY <3>1, <3>2
  <2> QED
    BY <1>0, <1>1, <2>1
<1>2. ASSUME UNCHANGED <<quantity, joined>>,
             (mpc # "join" /\ mpc' # "join") \/ UNCHANGED <<mpc, cmd>>
      PROVE  Counted'
  BY <1>1, <1>2 DEF Sharers
<1>3. CASE CountTopics
  <2> DEFINE u == cmd.who
  <2>1. /\ mpc = "launch" /\ mpc' = "idle"
        /\ joined' = [joined EXCEPT ![u] = member[u]]
        /\ quantity' = [g \in Groups |-> quantity[g] + IF g \in member[u] THEN 1 ELSE 0]
    BY <1>3 DEF CountTopics, Finish
  <2>2. u \in Users
    BY <1>3 DEF CountTopics, Typed, CommandTyped, Worded
  <2> HIDE DEF u
  <2> SUFFICES ASSUME NEW g \in Groups
               PROVE  Cardinality(Sharers(g)') <= quantity'[g]
    BY DEF Counted
  <2>3. quantity'[g] = quantity[g] + IF g \in member[u] THEN 1 ELSE 0
    BY <2>1
  <2>4. CASE g \in member[u]
    <3>1. Sharers(g)' \subseteq Sharers(g) \cup {u}
      BY <2>1 DEF Sharers, BooksTyped
    <3>2. Cardinality(Sharers(g)') <= Cardinality(Sharers(g)) + 1
      BY <1>0, <2>2, <3>1, SomeUsers
    <3>3. Cardinality(Sharers(g)) \in Nat /\ Cardinality(Sharers(g)') \in Nat
      BY <1>0, <2>2, SomeUsers DEF Sharers
    <3> QED
      BY <1>0, <2>3, <2>4, <3>2, <3>3
  <2>5. CASE g \notin member[u]
    <3>1. Sharers(g)' \subseteq Sharers(g)
      BY <2>1, <2>2, <2>5 DEF Sharers, BooksTyped
    <3>2. /\ Cardinality(Sharers(g)') <= Cardinality(Sharers(g))
          /\ Cardinality(Sharers(g)) \in Nat /\ Cardinality(Sharers(g)') \in Nat
      BY <1>0, <2>2, <3>1, SomeUsers DEF Sharers
    <3> QED
      BY <1>0, <2>3, <2>5, <3>2
  <2> QED
    BY <2>4, <2>5
<1>4. CASE ShowLogout
  <2> DEFINE u == cmd.who
  <2>1. /\ mpc = "replied" /\ mpc' = "join" /\ cmd' = cmd /\ joined' = joined
        /\ quantity' = [g \in Groups |->
                      IF g \in joined[u] /\ quantity[g] > 0 THEN quantity[g] - 1
                      ELSE quantity[g]]
    BY <1>4 DEF ShowLogout, Shown, GoOn
  <2>2. u \in Users
    BY <1>4 DEF ShowLogout, Shown, Typed, CommandTyped, Worded
  <2>3. \A g \in Groups : Sharers(g)' = Sharers(g) \ {u}
    BY <2>1 DEF Sharers
  <2>4. \A g \in Groups : u \in Sharers(g) <=> g \in joined[u]
    BY <2>1, <2>2 DEF Sharers
  <2> HIDE DEF u
  <2> SUFFICES ASSUME NEW g \in Groups
               PROVE  Cardinality(Sharers(g)') <= quantity'[g]
    BY DEF Counted
  <2>5. quantity'[g] = IF g \in joined[u] /\ quantity[g] > 0 THEN quantity[g] - 1
                       ELSE quantity[g]
    BY <2>1
  <2>6. CASE g \in joined[u]
    <3>1. Cardinality(Sharers(g)') = Cardinality(Sharers(g)) - 1
      BY <1>0, <2>2, <2>3, <2>4, <2>6, SomeUsers
    <3>2. Cardinality(Sharers(g)) \in Nat /\ Cardinality(Sharers(g)') \in Nat
      BY <1>0, <2>2, SomeUsers DEF Sharers
    <3> QED
      BY <1>0, <2>5, <2>6, <3>1, <3>2
  <2>7. CASE g \notin joined[u]
    <3>1. Sharers(g)' = Sharers(g)
      BY <2>3, <2>4, <2>7
    <3> QED
      BY <1>0, <2>5, <2>7, <3>1
  <2> QED
    BY <2>6, <2>7
<1>5. CASE JoinThread
  <2>1. /\ mpc = "join" /\ mpc' = "idle" /\ quantity' = quantity
        /\ joined' = [joined EXCEPT ![cmd.who] = {}]
    BY <1>5 DEF JoinThread, Finish
  <2>2. \A g \in Groups : Sharers(g)' \subseteq Sharers(g)
    BY <2>1 DEF Sharers, BooksTyped
  <2> QED
    BY <1>1, <2>1, <2>2
<1>6. CASE ShowJoinGroup
  <2> DEFINE u == cmd.who
             h == cmd.arg
  <2>1. /\ mpc = "replied" /\ mpc' = "idle"
        /\ joined' = [joined EXCEPT ![u] = @ \cup {h}]
        /\ quantity' = [quantity EXCEPT ![h] = @ + 1]
    BY <1>6 DEF ShowJoinGroup, Shown, Finish
  <2>2. u \in Users /\ h \in Groups
    BY <1>6 DEF ShowJoinGroup, Shown, Typed, CommandTyped, Worded
  <2> HIDE DEF u, h
  <2> SUFFICES ASSUME NEW g \in Groups
               PROVE  Cardinality(Sharers(g)') <= quantity'[g]
    BY DEF Counted
  <2>3. quantity'[g] = IF g = h THEN quantity[g] + 1 ELSE quantity[g]
    BY <2>1 DEF Typed, SharedTyped
  <2>4. CASE g = h
    <3>1. Sharers(g)' \subseteq Sharers(g) \cup {u}
      BY <2>1, <2>2 DEF Sharers, BooksTyped
    <3>2. Cardinality(Sharers(g)') <= Cardinality(Sharers(g)) + 1
      BY <1>0, <2>2, <3>1, SomeUsers
    <3>3. Cardinality(Sharers(g)) \in Nat /\ Cardinality(Sharers(g)') \in Nat
      BY <1>0, <2>2, SomeUsers DEF Sharers
    <3> QED
      BY <1>0, <2>3, <2>4, <3>2, <3>3
  <2>5. CASE g # h
    <3>1. Sharers(g)' \subseteq Sharers(g)
      BY <2>1, <2>2, <2>5 DEF Sharers, BooksTyped
    <3>2. /\ Cardinality(Sharers(g)') <= Cardinality(Sharers(g))
          /\ Cardinality(Sharers(g)) \in Nat /\ Cardinality(Sharers(g)') \in Nat
      BY <1>0, <2>2, <3>1, SomeUsers DEF Sharers
    <3> QED
      BY <1>0, <2>3, <2>5, <3>2
  <2> QED
    BY <2>4, <2>5
<1>7. CASE StartAgain
  <2>1. \A g \in Groups : Sharers(g)' = {} /\ quantity'[g] = 0
    BY <1>7 DEF StartAgain, Sharers
  <2> QED
    BY <2>1, FS_EmptySet DEF Counted
<1>8. CASE MainStep
  BY <1>2, <1>3, <1>4, <1>5, <1>6, <1>7, <1>8 DEF MainStep, OwnStep, Serve, ShowAnswer, ShowLogin,
     ShowSend, ShowSendGroup, OpenSemaphore, WaitEnds, PutQuantity, GroupNotCounted, Except,
     GroupWaitEnds, DrainCounter, CounterAway, TakeSemaphore, ExitJoin, ExitStop, GoOn,
     Finish, Shown, books
<1>9. CASE Environment
  BY <1>2, <1>9 DEF Environment, ReadCommand, Exit, ConnectionFails, Except, RemoteMessage,
     RunFails, Move, JoinElsewhere, GoOn, books, main
<1>10. CASE \E u \in Users : ThreadStep(u)
  BY <1>2, <1>10, ThreadFrame
<1> QED
  BY <1>2, <1>8, <1>9, <1>10 DEF Next, vars, books, main

\* Once something has gone wrong it has; what goes wrong is not among the steps
\* of a calm history.
LEMMA Calmly ==
  ASSUME calm', [Next]_vars
  PROVE  /\ calm
         /\ ~ConnectionFails /\ ~GroupNotCounted /\ ~CounterAway /\ ~RemoteMessage
         /\ WaitEnds => done[cmd.arg]
         /\ GroupWaitEnds => topicDone
<1>1. /\ ~ConnectionFails /\ ~GroupNotCounted /\ ~CounterAway /\ ~RemoteMessage
      /\ WaitEnds => done[cmd.arg]
      /\ GroupWaitEnds => topicDone
  BY DEF ConnectionFails, GroupNotCounted, CounterAway, Except, RemoteMessage, WaitEnds,
     GroupWaitEnds
<1>2. CASE MainStep
  BY <1>1, <1>2 DEF MainStep, OwnStep, Serve, ShowAnswer, ShowLogin, CountTopics, ShowLogout,
     JoinThread, ShowJoinGroup, ShowSend, ShowSendGroup, OpenSemaphore, WaitEnds,
     PutQuantity, GroupWaitEnds, DrainCounter, TakeSemaphore, ExitJoin, StartAgain,
     ExitStop, GoOn, Finish, history
<1>3. CASE Environment
  BY <1>1, <1>3 DEF Environment, ReadCommand, Exit, RunFails, Move, JoinElsewhere, GoOn,
     history
<1>4. CASE \E u \in Users : ThreadStep(u)
  BY <1>1, <1>4 DEF ThreadStep, Run, Receive, Acquire, Release, PrintMessage, SetDone,
     GetCounter, SetTopicDone, PutCounter, StopConsuming, At, Move
<1> QED
  BY <1>1, <1>2, <1>3, <1>4 DEF Next, vars, history

\* A thread's queues are for groups that are counted.
LEMMA NextBooksKept ==
  ASSUME Typed, BooksTyped, ThreadsKnown, BooksKept, calm', [Next]_vars
  PROVE  BooksKept'
<1> DEFINE Queues(u) ==
             subs[u] \subseteq IF mpc = "launch" /\ cmd.who = u THEN member[u] ELSE joined[u]
           Members(u) == Deleted(u) \/ joined[u] \subseteq member[u]
<1>0. \A u \in Users : Queues(u) /\ Members(u)
  BY DEF BooksKept
<1> SUFFICES \A u \in Users : Queues(u)' /\ Members(u)'
  BY DEF BooksKept
<1>1. ASSUME UNCHANGED <<joined, subs, member>>, mpc # "launch", mpc' # "launch",
             \/ mpc \notin {"replied", "join"}
             \/ cmd.kind # "delete"
             \/ mpc = "replied" /\ ~cmd.ok
      PROVE  \A u \in Users : Queues(u)' /\ Members(u)'
  BY <1>0, <1>1 DEF Deleted
<1>2. CASE Serve
  <2>1. mpc = "sent" /\ mpc' = "replied" /\ UNCHANGED <<joined, subs>>
    BY <1>2 DEF Serve, books
  <2>2. \A u \in Users : Queues(u)' /\ joined[u] \subseteq member[u]
    BY <1>0, <2>1 DEF Deleted
  <2>3. CASE member' = member
    BY <2>1, <2>2, <2>3
  <2>4. CASE cmd.kind = "delete" /\ member' # member
    <3>1. cmd' = [cmd EXCEPT !.ok = TRUE] /\ member' = [member EXCEPT ![cmd.who] = {}]
      BY <1>2, <2>4 DEF Serve
    <3>2. cmd'.kind = "delete" /\ cmd'.who = cmd.who /\ cmd'.ok
      BY <2>4, <3>1 DEF Typed, CommandTyped, CommandSet
    <3>3. \A u \in Users : u # cmd.who => member'[u] = member[u]
      BY <3>1 DEF BooksTyped
    <3>4. \A u \in Users : u = cmd.who => Deleted(u)'
      BY <2>1, <3>2 DEF Deleted
    <3> QED
      BY <2>1, <2>2, <3>3, <3>4
  <2>5. CASE cmd.kind # "delete" /\ member' # member
    <3>1. member' = [member EXCEPT ![cmd.who] = @ \cup {cmd.arg}]
      BY <1>2, <2>5 DEF Serve
    <3>2. \A u \in Users : member[u] \subseteq member'[u]
      BY <3>1 DEF BooksTyped
    <3> QED
      BY <2>1, <2>2, <3>2
  <2> QED
    BY <2>3, <2>4, <2>5
<1>3. CASE ShowLogin
  <2> DEFINE x == cmd.who
  <2>1. /\ mpc = "replied" /\ mpc' = "launch" /\ cmd' = cmd /\ cmd.kind = "login"
        /\ UNCHANGED <<joined, member>> /\ x \in Users
        /\ subs' = subs \/ subs' = [subs EXCEPT ![x] = member[x]]
    BY <1>3 DEF ShowLogin, GoOn, Shown, books, Typed, CommandTyped, Worded
  <2>2. \A u \in Users : joined[u] \subseteq member[u] /\ subs[u] \subseteq joined[u]
    BY <1>0, <2>1 DEF Deleted
  <2>3. subs'[x] \subseteq member[x] /\ \A u \in Users : u # x => subs'[u] = subs[u]
    BY <2>1, <2>2 DEF BooksTyped
  <2> QED
    BY <2>1, <2>2, <2>3
<1>4. CASE CountTopics
  <2> DEFINE x == cmd.who
  <2>1. /\ mpc = "launch" /\ mpc' = "idle" /\ UNCHANGED <<subs, member>> /\ x \in Users
        /\ joined' = [joined EXCEPT ![x] = member[x]]
    BY <1>4 DEF CountTopics, Finish, Typed, CommandTyped, Worded
  <2>2. joined'[x] = member[x] /\ \A u \in Users : u # x => joined'[u] = joined[u]
    BY <2>1 DEF BooksTyped
  <2> QED
    BY <1>0, <2>1, <2>2 DEF Deleted
<1>5. CASE ShowLogout
  <2>1. /\ mpc = "replied" /\ mpc' = "join" /\ cmd' = cmd
        /\ UNCHANGED <<joined, subs, member>>
    BY <1>5 DEF ShowLogout, GoOn, Shown
  <2> QED
    BY <1>0, <2>1 DEF Deleted
<1>6. CASE JoinThread
  <2> DEFINE x == cmd.who
  <2>1. /\ mpc = "join" /\ mpc' = "idle" /\ UNCHANGED <<subs, member>> /\ x \in Users
        /\ joined' = [joined EXCEPT ![x] = {}] /\ tpc[x] = "ended"
    BY <1>6 DEF JoinThread, Joined, Finish, Typed, CommandTyped, Worded
  <2>2. subs[x] = {}
    BY <2>1 DEF ThreadsKnown
  <2>3. joined'[x] = {} /\ \A u \in Users : u # x => joined'[u] = joined[u]
    BY <2>1 DEF BooksTyped
  <2> QED
    BY <1>0, <2>1, <2>2, <2>3 DEF Deleted
<1>7. CASE ShowJoinGroup
  <2> DEFINE x == cmd.who
             g == cmd.arg
  <2>1. /\ mpc = "replied" /\ mpc' = "idle" /\ cmd.kind = "join-group" /\ cmd.ok
        /\ member' = member /\ x \in Users
        /\ subs' = [subs EXCEPT ![x] = @ \cup {g}]
        /\ joined' = [joined EXCEPT ![x] = @ \cup {g}]
    BY <1>7 DEF ShowJoinGroup, Shown, Finish, Typed, CommandTyped, Worded
  <2>2. g \in member[x]
    BY <2>1 DEF ThreadsKnown
  <2>3. /\ subs'[x] = subs[x] \cup {g} /\ joined'[x] = joined[x] \cup {g}
        /\ \A u \in Users : u # x => joined'[u] = joined[u] /\ subs'[u] = subs[u]
    BY <2>1 DEF BooksTyped
  <2>4. \A u \in Users : joined[u] \subseteq member[u] /\ subs[u] \subseteq joined[u]
    BY <1>0, <2>1 DEF Deleted
  <2> QED
    BY <2>1, <2>2, <2>3, <2>4
<1>8. CASE StartAgain
  <2>1. /\ mpc = "exit" /\ mpc' = "idle" /\ UNCHANGED <<subs, member>>
        /\ joined' = [u \in Users |-> {}] /\ \A u \in Users : tpc[u] = "off"
    BY <1>8 DEF StartAgain, Local
  <2>2. \A u \in Users : subs[u] = {}
    BY <2>1 DEF ThreadsKnown
  <2> QED
    BY <2>1, <2>2
<1>9. CASE ShowAnswer
  <2>1. /\ UNCHANGED <<joined, subs, member>> /\ mpc = "replied" /\ mpc' = "idle"
        /\ ~cmd.ok \/ cmd.kind # "delete"
    BY <1>9 DEF ShowAnswer, Finish, books
  <2> QED
    BY <1>1, <2>1
<1>10. CASE ShowSend \/ ShowSendGroup
  <2>1. /\ UNCHANGED <<joined, subs, member>> /\ mpc = "replied" /\ mpc' # "launch"
        /\ cmd.kind # "delete"
    BY <1>10 DEF ShowSend, ShowSendGroup, OpenSemaphore, Shown, GoOn, books
  <2> QED
    BY <1>1, <2>1
<1>11. CASE WaitEnds \/ PutQuantity \/ GroupWaitEnds \/ DrainCounter \/ TakeSemaphore
            \/ ExitJoin \/ \E u \in Users : ExitStop(u)
  <2>1. /\ UNCHANGED <<joined, subs, member>>
        /\ mpc \notin {"replied", "join", "launch"} /\ mpc' # "launch"
    BY <1>11 DEF WaitEnds, PutQuantity, GroupWaitEnds, DrainCounter, TakeSemaphore,
       ExitJoin, ExitStop, GoOn, Finish, books
  <2> QED
    BY <1>1, <2>1
<1>12. CASE MainStep
  BY <1>2, <1>3, <1>4, <1>5, <1>6, <1>7, <1>8, <1>9, <1>10, <1>11, <1>12, Calmly
     DEF MainStep, OwnStep
<1>13. ASSUME UNCHANGED <<joined, subs, member, mpc, cmd>>
       PROVE  \A u \in Users : Queues(u)' /\ Members(u)'
  BY <1>0, <1>13 DEF Deleted
<1>14. ASSUME NEW v \in Users, NEW g \in Groups, JoinElsewhere(v, g)
       PROVE  \A u \in Users : Queues(u)' /\ Members(u)'
  <2>1. /\ UNCHANGED <<joined, subs, mpc, cmd>> /\ mpc = "idle"
        /\ member' = [member EXCEPT ![v] = @ \cup {g}]
    BY <1>14 DEF JoinElsewhere, books, main
  <2>2. \A u \in Users : member[u] \subseteq member'[u]
    BY <2>1 DEF BooksTyped
  <2> QED
    BY <1>0, <2>1, <2>2 DEF Deleted
<1>15. CASE Exit \/ \E c \in Commands : ReadCommand(c)
  <2>1. /\ UNCHANGED <<joined, subs, member>> /\ mpc = "idle"
        /\ mpc' \in {"sent", "exit"}
    BY <1>15 DEF Exit, ReadCommand, GoOn, books
  <2> QED
    BY <1>1, <2>1
<1>16. CASE Environment
  BY <1>13, <1>14, <1>15, <1>16, Calmly DEF Environment, RunFails, Move, main, books
<1>17. ASSUME NEW v \in Users, ThreadStep(v)
       PROVE  \A u \in Users : Queues(u)' /\ Members(u)'
  <2>1. UNCHANGED <<joined, member, mpc, cmd>>
    BY <1>17, ThreadFrame
  <2>2. subs' = subs \/ subs' = [subs EXCEPT ![v] = {}]
    BY <1>17 DEF ThreadStep, Run, Receive, Acquire, Release, PrintMessage, SetDone,
       GetCounter, SetTopicDone, PutCounter, StopConsuming
  <2>3. \A u \in Users : subs'[u] \subseteq subs[u]
    BY <2>2 DEF BooksTyped
  <2> QED
    BY <1>0, <2>1, <2>3 DEF Deleted
<1> QED
  BY <1>12, <1>13, <1>16, <1>17 DEF Next, vars, books, main

----------------------------------------------------------------------------
(* The stages of a send *)

\* Ageing moves no message.
LEMMA AgedStay ==
  ASSUME Typed, AgeMessages(Over) \/ AgeMessages(Answered), NEW u \in Users
  PROVE  /\ Len(priv'[u]) = Len(priv[u]) /\ (priv'[u] = <<>> <=> priv[u] = <<>>)
         /\ \A g \in Groups : /\ Len(pub'[u][g]) = Len(pub[u][g])
                              /\ pub'[u][g] = <<>> <=> pub[u][g] = <<>>
         /\ NoMail(u) => NoMail(u)'
         /\ cur'[u].kind = cur[u].kind
<1>0. ThreadsTyped /\ MailTyped
  BY DEF Typed
<1>1. MailTyped' /\ cur'[u].kind = cur[u].kind
  BY <1>0, AgedOver, AgedAnswered
<1>2. ASSUME NEW s \in Seq(Ages), NEW t \in Seq(Ages), DOMAIN s = 1..Len(t)
      PROVE  Len(s) = Len(t) /\ (s = <<>> <=> t = <<>>)
  <2>1. Len(s) \in Nat /\ Len(t) \in Nat /\ DOMAIN s = 1..Len(s)
    BY <1>2, LenProperties
  <2>2. Len(s) = Len(t)
    BY <1>2, <2>1
  <2> QED
    BY <1>2, <2>2, EmptySeq
<1>3. DOMAIN priv'[u] = 1..Len(priv[u]) /\ \A g \in Groups : DOMAIN pub'[u][g] = 1..Len(pub[u][g])
  BY DEF AgeMessages
<1>4. priv[u] \in Seq(Ages) /\ priv'[u] \in Seq(Ages)
      /\ \A g \in Groups : pub[u][g] \in Seq(Ages) /\ pub'[u][g] \in Seq(Ages)
  BY <1>0, <1>1 DEF MailTyped
<1>5. /\ Len(priv'[u]) = Len(priv[u]) /\ (priv'[u] = <<>> <=> priv[u] = <<>>)
      /\ \A g \in Groups : /\ Len(pub'[u][g]) = Len(pub[u][g])
                           /\ pub'[u][g] = <<>> <=> pub[u][g] = <<>>
  BY <1>2, <1>3, <1>4
<1> QED
  BY <1>1, <1>5 DEF NoMail

\* Where nothing is under way nobody need have printed anything.
LEMMA QuietStage ==
  ASSUME Typed', RestInv', mpc' # "drain", Spreading' => mpc' = "replied"
  PROVE  Stage'
<1>1. Len(<<>>) = 0
  BY EmptySeq
<1>2. CASE Sending'
  <2>1. cmd'.arg \in Users
    BY <1>2 DEF Sending, Typed, CommandTyped, Worded
  <2>2. Addressed(cmd.arg)'
    BY <1>1, <2>1 DEF RestInv, Quiet, NoMail, Addressed, Busy, Coming, Reading
  <2> QED
    BY <1>2, <2>2 DEF Stage, SendInv, RestInv
<1>3. CASE ~Sending' /\ Spreading'
  <2>0. cmd'.arg \in Groups
    BY <1>3 DEF Spreading, Typed, CommandTyped, Worded
  <2>1. \A u \in Users : Reached(u, cmd.arg)'
    BY <1>1, <2>0 DEF RestInv, Quiet, NoMail, Reached, Busy, Coming, Reading
  <2>2. Copies(cmd.arg)' = {}
    BY <2>0 DEF RestInv, Quiet, NoMail, Copies, Busy
  <2>3. mpc' # "group-wait" /\ ~topicDone'
    BY <1>3 DEF RestInv
  <2> QED
    BY <1>3, <2>1, <2>2, <2>3 DEF Stage, SpreadInv
<1> QED
  BY <1>2, <1>3 DEF Stage

\* A thread without a message has nothing to do with those who have one.
LEMMA QuietThread ==
  ASSUME Typed, NEW u \in Users, Quiet(u), ThreadStep(u)
  PROVE  Quiet(u)' /\ UNCHANGED <<topicDone, counter, held>>
<1>0. ThreadsTyped /\ MailTyped /\ tpc[u] \notin Busy
  BY DEF Typed, Quiet
<1>1. ~Receive(u)
  BY DEF Receive, Quiet, NoMail
<1>2. Run(u) \/ StopConsuming(u)
  BY <1>0, <1>1 DEF ThreadStep, Acquire, Release, PrintMessage, SetDone, GetCounter,
     SetTopicDone, PutCounter, At, Move, Busy, Coming, Reading
<1>3. CASE Run(u)
  <2>1. tpc'[u] = "on" /\ UNCHANGED <<priv, pub, done, topicDone, counter, held>>
    BY <1>0, <1>3 DEF Run, At, Move, ThreadsTyped, mail
  <2> QED
    BY <2>1 DEF Quiet, NoMail, Busy, Coming, Reading
<1>4. CASE StopConsuming(u)
  <2>1. tpc'[u] = "ended" /\ UNCHANGED <<done, topicDone, counter, held>>
    BY <1>0, <1>4 DEF StopConsuming, At, Move, ThreadsTyped
  <2>2. /\ pub' = [pub EXCEPT ![u] = [g \in Groups |-> <<>>]]
        /\ priv' = priv \/ priv' = [priv EXCEPT ![u] = <<>>]
    BY <1>4 DEF StopConsuming, Nothing
  <2>3. pub'[u] = [g \in Groups |-> <<>>] /\ priv'[u] = <<>>
    BY <1>0, <2>2 DEF MailTyped, Quiet, NoMail
  <2> QED
    BY <2>1, <2>3 DEF Quiet, NoMail, Busy, Coming, Reading
<1> QED
  BY <1>2, <1>3, <1>4

\* The main thread's and the environment's steps at rest.
LEMMA RestMain ==
  ASSUME Typed, Typed', ThreadsKnown, RestInv, ~Sending, ~Spreading, mpc # "drain",
         MainStep \/ Environment, ~Serve, [Next]_vars, calm'
  PROVE  Stage'
<1>0. ThreadsTyped /\ MailTyped /\ CommandTyped
  BY DEF Typed
<1>1. ASSUME UNCHANGED <<priv, pub>> \/ AgeMessages(Over),
             \A u \in Users : tpc'[u] = tpc[u] \/ tpc'[u] \in {"off", "starting", "dead"},
             \A u \in Users : done'[u] => done[u],
             topicDone' \in {topicDone, FALSE},
             mpc' \notin {"replied", "put", "group-wait", "drain"}
      PROVE  Stage'
  <2>1. \A u \in Users : NoMail(u)'
    <3>1. \A u \in Users : NoMail(u)
      BY DEF RestInv, Quiet
    <3>2. CASE UNCHANGED <<priv, pub>>
      BY <3>1, <3>2 DEF NoMail
    <3>3. CASE AgeMessages(Over)
      BY <3>1, <3>3, AgedStay
    <3> QED
      BY <1>1, <3>2, <3>3
  <2>2. RestInv'
    <3>1. ~topicDone'
      BY <1>1 DEF RestInv
    <3>2. \A u \in Users : ~done'[u]
      BY <1>1 DEF RestInv, Quiet
    <3>3. \A u \in Users : tpc'[u] \notin Busy
      BY <1>1 DEF RestInv, Quiet, Busy, Coming, Reading
    <3> QED
      BY <2>1, <3>1, <3>2, <3>3 DEF RestInv, Quiet
  <2>3. ~Spreading' /\ mpc' # "drain"
    BY <1>1 DEF Spreading
  <2> QED
    BY <2>2, <2>3, QuietStage
<1>2. CASE ShowAnswer \/ CountTopics \/ ShowJoinGroup \/ TakeSemaphore
  <2>1. /\ AgeMessages(Over) /\ UNCHANGED <<tpc, done, topicDone>> /\ mpc' = "idle"
    BY <1>2 DEF ShowAnswer, CountTopics, ShowJoinGroup, TakeSemaphore, Finish
  <2> QED
    BY <1>1, <2>1
<1>3. CASE ShowLogin
  <2>1. /\ UNCHANGED <<priv, pub, done, topicDone>> /\ mpc' = "launch"
        /\ tpc' = tpc \/ tpc' = [tpc EXCEPT ![cmd.who] = "starting"]
    BY <1>3 DEF ShowLogin, GoOn, mail
  <2>2. \A u \in Users : tpc'[u] = tpc[u] \/ tpc'[u] = "starting"
    BY <1>0, <2>1 DEF ThreadsTyped
  <2> QED
    BY <1>1, <2>1, <2>2
<1>4. CASE JoinThread \/ ExitJoin
  <2>1. /\ UNCHANGED <<priv, pub>> \/ AgeMessages(Over)
        /\ topicDone' = topicDone /\ mpc' \in {"idle", "exit"}
        /\ tpc' = [tpc EXCEPT ![cmd.who] = "off"] /\ done' = [done EXCEPT ![cmd.who] = FALSE]
    BY <1>4 DEF JoinThread, ExitJoin, Joined, Finish, shared, mail
  <2>2. \A u \in Users : tpc'[u] = tpc[u] \/ tpc'[u] = "off"
    BY <1>0, <2>1 DEF ThreadsTyped
  <2>3. \A u \in Users : done'[u] => done[u]
    BY <1>0, <2>1 DEF ThreadsTyped
  <2> QED
    BY <1>1, <2>1, <2>2, <2>3
<1>5. CASE ShowLogout \/ StartAgain \/ \E u \in Users : ExitStop(u)
  <2>1. /\ UNCHANGED <<priv, pub, tpc, done>> /\ topicDone' \in {topicDone, FALSE}
        /\ mpc' \in {"join", "idle", "exit-join"}
    <3>1. CASE ShowLogout
      BY <3>1 DEF ShowLogout, GoOn, mail
    <3>2. CASE StartAgain
      BY <3>2 DEF StartAgain, mail
    <3>3. CASE \E u \in Users : ExitStop(u)
      BY <3>3 DEF ExitStop, shared, mail
    <3> QED
      BY <1>5, <3>1, <3>2, <3>3
  <2> QED
    BY <1>1, <2>1
<1>6. CASE MainStep
  <2>1. ~ShowSend /\ ~ShowSendGroup /\ ~WaitEnds /\ ~PutQuantity /\ ~GroupWaitEnds
        /\ ~DrainCounter
    BY <1>0 DEF ShowSend, ShowSendGroup, WaitEnds, PutQuantity, GroupWaitEnds, DrainCounter,
       Shown, Sending, Spreading, CommandTyped
  <2> QED
    BY <1>2, <1>3, <1>4, <1>5, <1>6, <2>1, Calmly DEF MainStep, OwnStep
<1>7. CASE Exit \/ \E c \in Commands : ReadCommand(c)
  <2>1. /\ UNCHANGED <<priv, pub, tpc, done, topicDone>> /\ mpc' \in {"sent", "exit"}
    BY <1>7 DEF Exit, ReadCommand, GoOn, mail
  <2> QED
    BY <1>1, <2>1
<1>8. ASSUME NEW v \in Users, RunFails(v) PROVE Stage'
  <2>1. /\ UNCHANGED <<priv, pub, done, topicDone, mpc, cmd>>
        /\ tpc' = [tpc EXCEPT ![v] = "dead"]
    BY <1>8 DEF RunFails, Move, main, mail
  <2>2. \A u \in Users : tpc'[u] = tpc[u] \/ tpc'[u] = "dead"
    BY <1>0, <2>1 DEF ThreadsTyped
  <2>3. RestInv'
    BY <2>1, <2>2 DEF RestInv, Quiet, NoMail, Busy, Coming, Reading
  <2>4. ~Spreading' /\ mpc' # "drain"
    BY <2>1 DEF Spreading
  <2> QED
    BY <2>3, <2>4, QuietStage
<1>9. ASSUME NEW v \in Users, NEW g \in Groups, JoinElsewhere(v, g) PROVE Stage'
  <2>1. UNCHANGED <<priv, pub, done, topicDone, tpc>> /\ mpc' = "idle"
    BY <1>9 DEF JoinElsewhere, main, mail, shared
  <2> QED
    BY <1>1, <2>1
<1>10. CASE Environment
  BY <1>7, <1>8, <1>9, <1>10, Calmly DEF Environment
<1> QED
  BY <1>6, <1>10

\* The server's answer: a message goes to the queue of a thread at rest, or a
\* copy of it to that of each local member.
LEMMA RestServe ==
  ASSUME Typed, Typed', BooksTyped, ThreadsKnown, BooksKept, RestInv, Serve
  PROVE  Stage'
<1>0. ThreadsTyped /\ MailTyped /\ CommandTyped /\ MailTyped'
  BY DEF Typed
<1>1. /\ mpc = "sent" /\ mpc' = "replied" /\ ~cmd.ok
      /\ UNCHANGED <<tpc, done, topicDone, cur, joined>>
  BY DEF Serve, shared, books, ThreadsKnown
<1>2. CASE UNCHANGED <<priv, pub>>
  <2>1. RestInv'
    BY <1>1, <1>2 DEF RestInv, Quiet, NoMail
  <2> QED
    BY <1>1, <2>1, QuietStage
<1>3. ASSUME ~UNCHANGED <<priv, pub>>
      PROVE  /\ cmd' = [cmd EXCEPT !.ok = TRUE]
             /\ \/ cmd.kind = "send" /\ PublishPrivate(cmd.arg, "early")
                \/ cmd.kind = "send-group" /\ PublishPublic(cmd.arg, "early")
  BY <1>3 DEF Serve, mail
<1>4. ASSUME cmd' = [cmd EXCEPT !.ok = TRUE]
      PROVE  cmd'.ok /\ cmd'.kind = cmd.kind /\ cmd'.arg = cmd.arg
  BY <1>0, <1>4 DEF CommandTyped, CommandSet
<1>5. Append(<<>>, "early") = <<"early">> /\ Len(<<"early">>) = 1 /\ <<"early">> # <<>>
      /\ Len(<<>>) = 0
  OBVIOUS
<1>6. ASSUME cmd' = [cmd EXCEPT !.ok = TRUE], cmd.kind = "send",
             PublishPrivate(cmd.arg, "early")
      PROVE  Stage'
  <2>0. PICK x \in Users : x = cmd.arg
    BY <1>0, <1>6 DEF CommandTyped, Worded
  <2>1. cmd'.arg = x /\ cmd'.kind = "send" /\ cmd'.ok
    BY <1>4, <1>6, <2>0
  <2>2. /\ tpc[x] \notin {"off", "starting", "dead", "ended"} /\ pub' = pub
        /\ priv' = [priv EXCEPT ![x] = Append(@, "early")]
    BY <1>6, <2>0 DEF PublishPrivate, Bound
  <2>3. priv'[x] = Append(priv[x], "early") /\ \A u \in Users : u # x => priv'[u] = priv[u]
    BY <1>0, <2>2 DEF MailTyped
  <2>4. priv'[x] = <<"early">>
    BY <1>5, <2>1, <2>3 DEF RestInv, Quiet, NoMail
  <2>5. \A u \in Users : u # x => Quiet(u)'
    BY <1>1, <2>2, <2>3 DEF RestInv, Quiet, NoMail
  <2>6. tpc'[x] \notin Busy /\ ~done'[x] /\ \A g \in Groups : pub'[x][g] = <<>>
    BY <1>1, <2>1, <2>2 DEF RestInv, Quiet, NoMail
  <2>7. Addressed(x)'
    <3>1. Local(x)'
      BY <1>1, <2>2 DEF Local
    <3>2. Len(priv'[x]) <= 1
      BY <1>5, <2>4
    <3>3. tpc'[x] \notin Reading
      BY <2>6 DEF Busy, Coming
    <3> QED
      BY <2>6, <3>1, <3>2, <3>3 DEF Addressed
  <2>8. Addressed(cmd.arg)' /\ \A u \in Users : u # cmd'.arg => Quiet(u)'
    BY <2>1, <2>5, <2>7
  <2> QED
    BY <1>1, <2>1, <2>8 DEF Stage, Sending, SendInv, RestInv
<1>7. ASSUME cmd' = [cmd EXCEPT !.ok = TRUE], cmd.kind = "send-group",
             PublishPublic(cmd.arg, "early")
      PROVE  Stage'
  <2>0. PICK g \in Groups : g = cmd.arg
    BY <1>0, <1>7 DEF CommandTyped, Worded
  <2>1. cmd'.arg = g /\ cmd'.kind = "send-group" /\ cmd'.ok
    BY <1>4, <1>7, <2>0
  <2>2. /\ priv' = priv
        /\ \A u \in Users : pub'[u] = IF g \in subs[u] /\ Bound(u)
                             THEN [pub[u] EXCEPT ![g] = Append(@, "early")] ELSE pub[u]
    BY <1>7, <2>0 DEF PublishPublic
  <2>3. \A u \in Users : /\ \A h \in Groups : h # g => pub'[u][h] = <<>>
                         /\ pub'[u][g] = IF g \in subs[u] /\ Bound(u) THEN <<"early">> ELSE <<>>
    <3>1. \A u \in Users : pub[u] \in [Groups -> Seq(Ages)] /\ \A h \in Groups : pub[u][h] = <<>>
      BY <1>0 DEF MailTyped, RestInv, Quiet, NoMail
    <3>2. ASSUME NEW u \in Users
          PROVE  /\ \A h \in Groups : h # g => pub'[u][h] = <<>>
                 /\ pub'[u][g] = IF g \in subs[u] /\ Bound(u) THEN <<"early">> ELSE <<>>
      <4>1. CASE g \in subs[u] /\ Bound(u)
        <5>1. pub'[u] = [pub[u] EXCEPT ![g] = Append(@, "early")]
          BY <2>2, <4>1
        <5>2. pub'[u][g] = Append(pub[u][g], "early")
              /\ \A h \in Groups : h # g => pub'[u][h] = pub[u][h]
          BY <3>1, <5>1
        <5> QED
          BY <1>5, <3>1, <4>1, <5>2
      <4>2. CASE ~(g \in subs[u] /\ Bound(u))
        BY <2>2, <3>1, <4>2
      <4> QED
        BY <4>1, <4>2
    <3> QED
      BY <3>2
  <2>4. \A u \in Users : /\ priv'[u] = <<>> /\ ~done'[u] /\ tpc'[u] \notin Busy
    BY <1>1, <2>2 DEF RestInv, Quiet, NoMail
  <2>5. \A u \in Users : Len(pub'[u][g]) <= 1
    <3>1. \A u \in Users : pub'[u][g] = <<"early">> \/ pub'[u][g] = <<>>
      BY <2>3
    <3>2. Len(<<"early">>) <= 1 /\ Len(<<>>) <= 1
      BY <1>5
    <3> QED
      BY <3>1, <3>2
  <2>6. \A u \in Users : Reached(u, cmd.arg)'
    BY <2>1, <2>3, <2>4, <2>5 DEF Reached, Busy, Coming
  <2>7. \A u \in Users : subs[u] \subseteq joined[u]
    BY <1>1 DEF BooksKept
  <2>8. \A u \in Copies(cmd.arg)' : g \in joined'[u]
    BY <1>1, <2>1, <2>3, <2>4, <2>7 DEF Copies, Busy
  <2>9. ~Sending' /\ Spreading'
    BY <1>1, <2>1 DEF Sending, Spreading
  <2> QED
    BY <1>1, <2>1, <2>6, <2>8, <2>9 DEF Stage, SpreadInv, RestInv
<1> QED
  BY <1>2, <1>3, <1>6, <1>7

LEMMA RestThread ==
  ASSUME Typed, RestInv, NEW u \in Users, ThreadStep(u)
  PROVE  RestInv'
<1>1. Quiet(u)' /\ topicDone' = topicDone
  BY QuietThread DEF RestInv
<1>2. \A v \in Users : v # u => UNCHANGED <<tpc[v], done[v], priv[v], pub[v]>>
  BY ThreadFrame
<1>3. \A v \in Users : v # u => Quiet(v)'
  BY <1>2 DEF RestInv, Quiet, NoMail
<1>4. ~topicDone'
  BY <1>1 DEF RestInv
<1> QED
  BY <1>1, <1>3, <1>4 DEF RestInv

\* While a message of this client is under way, all that can happen around it is
\* that a thread fails to start.
LEMMA OnlyRunFails ==
  ASSUME Typed, calm', [Next]_vars, Environment,
         mpc \in {"replied", "wait", "put", "group-wait", "drain"}
  PROVE  \E v \in Users :
           /\ tpc[v] = "starting" /\ tpc' = [tpc EXCEPT ![v] = "dead"]
           /\ UNCHANGED <<main, priv, pub, cur, held, done, counter, topicDone, joined>>
<1>1. \E v \in Users : RunFails(v)
  BY Calmly DEF Environment, ReadCommand, Exit, JoinElsewhere
<1> QED
  BY <1>1 DEF RunFails, Move, books, mail

----------------------------------------------------------------------------
(* A direct message *)

LEMMA TailOfOne ==
  ASSUME NEW s \in Seq(Ages), s # <<>>, Len(s) <= 1
  PROVE  Tail(s) = <<>>
<1>1. Len(s) \in Nat /\ Tail(s) \in Seq(Ages) /\ Len(Tail(s)) = Len(s) - 1
  BY LenProperties, HeadTailProperties
<1>2. Len(Tail(s)) \in Nat
  BY <1>1, LenProperties
<1> QED
  BY <1>1, <1>2, EmptySeq

\* The message comes to the thread of the user it is for, which prints it and
\* sets its event.
LEMMA SendThread ==
  ASSUME Typed, ThreadsKnown, SendInv, cmd.kind = "send", mpc \notin {"join", "exit-join"},
         NEW u \in Users, ThreadStep(u)
  PROVE  SendInv'
<1>0. ThreadsTyped /\ MailTyped /\ cmd.arg \in Users
  BY DEF Typed, CommandTyped, Worded
<1>1. PICK x \in Users : x = cmd.arg
  BY <1>0
<1>2. /\ UNCHANGED cmd
      /\ \A v \in Users : v # u => UNCHANGED <<tpc[v], cur[v], done[v], priv[v], pub[v]>>
  BY ThreadFrame
<1>3. /\ ~topicDone /\ Addressed(x)
      /\ \A v \in Users : v # x => Quiet(v)
  BY <1>1 DEF SendInv
<1>4. ASSUME ~topicDone', Addressed(x)', \A v \in Users : v # x => Quiet(v)'
      PROVE  SendInv'
  BY <1>1, <1>2, <1>4 DEF SendInv
<1>5. CASE u # x
  <2>1. Quiet(u)' /\ topicDone' = topicDone
    BY <1>3, <1>5, QuietThread
  <2>2. Addressed(x)'
    BY <1>2, <1>3, <1>5 DEF Addressed, Quiet, NoMail, Local
  <2>3. \A v \in Users : v # x => Quiet(v)'
    BY <1>2, <1>3, <2>1 DEF Quiet, NoMail
  <2> QED
    BY <1>3, <1>4, <2>1, <2>2, <2>3
<1>6. CASE u = x
  <2>1. \A v \in Users : v # x => Quiet(v)'
    BY <1>2, <1>3, <1>6 DEF Quiet, NoMail
  <2>2. /\ \A g \in Groups : pub[x][g] = <<>>
        /\ Quiet(x) \/ Local(x)
        /\ Len(priv[x]) <= 1
        /\ priv[x] # <<>> => tpc[x] \notin Busy /\ ~done[x]
        /\ tpc[x] \in Busy => tpc[x] \in Reading \cup {"set-done"} /\ ~done[x]
        /\ tpc[x] \in Reading => cur[x].kind = "private"
    BY <1>3 DEF Addressed
  <2>3. stop[x] = "no"
    BY DEF ThreadsKnown
  <2>4. CASE Run(x)
    <3>1. tpc'[x] = "on" /\ UNCHANGED <<priv, pub, done, topicDone>>
      BY <1>0, <2>4 DEF Run, At, Move, ThreadsTyped, mail
    <3>2. Addressed(x)'
      BY <2>2, <3>1 DEF Addressed, Local, Busy, Coming, Reading
    <3> QED
      BY <1>3, <1>4, <2>1, <3>1, <3>2
  <2>5. CASE Receive(x)
    <3>1. /\ tpc'[x] \in {"acquire", "print"} /\ UNCHANGED <<done, topicDone>>
          /\ tpc[x] = "on"
      BY <1>0, <2>5 DEF Receive, At, Move, ThreadsTyped
    <3>2. /\ priv[x] # <<>> /\ pub' = pub /\ priv' = [priv EXCEPT ![x] = Tail(@)]
          /\ cur' = [cur EXCEPT ![x] = [kind |-> "private", age |-> Head(priv[x])]]
      BY <2>2, <2>5 DEF Receive
    <3>3. cur'[x].kind = "private"
      BY <1>0, <3>2 DEF ThreadsTyped
    <3>4. priv'[x] = <<>>
      <4>1. priv[x] \in Seq(Ages) /\ priv'[x] = Tail(priv[x])
        BY <1>0, <3>2 DEF MailTyped
      <4> QED
        BY <2>2, <3>2, <4>1, TailOfOne
    <3>5. Len(priv'[x]) <= 1
      BY <3>4
    <3>6. Addressed(x)'
      BY <2>2, <3>1, <3>2, <3>3, <3>4, <3>5 DEF Addressed, Local, Busy, Coming, Reading
    <3> QED
      BY <1>3, <1>4, <2>1, <3>1, <3>6
  <2>6. CASE Acquire(x) \/ Release(x)
    <3>1. /\ tpc[x] \in {"acquire", "release"} /\ tpc'[x] \in {"release", "print"}
          /\ UNCHANGED <<priv, pub, cur, done, topicDone>>
      BY <1>0, <2>6 DEF Acquire, Release, At, Move, ThreadsTyped, mail
    <3>2. Addressed(x)'
      BY <2>2, <3>1 DEF Addressed, Local, Busy, Coming, Reading
    <3> QED
      BY <1>3, <1>4, <2>1, <3>1, <3>2
  <2>7. CASE PrintMessage(x)
    <3>1. /\ tpc[x] = "print" /\ UNCHANGED <<priv, pub, done, topicDone>>
          /\ tpc'[x] = IF ~event THEN "on"
                       ELSE IF cur[x].kind = "private" THEN "set-done" ELSE "get"
      BY <1>0, <2>7 DEF PrintMessage, At, Move, ThreadsTyped, mail
    <3>2. tpc'[x] \in {"on", "set-done"}
      BY <2>2, <3>1 DEF Reading
    <3>3. Addressed(x)'
      BY <2>2, <3>1, <3>2 DEF Addressed, Local, Busy, Coming, Reading
    <3> QED
      BY <1>3, <1>4, <2>1, <3>1, <3>3
  <2>8. CASE SetDone(x)
    <3>1. /\ tpc[x] = "set-done" /\ tpc'[x] = "on" /\ UNCHANGED <<priv, pub, topicDone>>
      BY <1>0, <2>8 DEF SetDone, At, Move, ThreadsTyped, mail
    <3>2. priv[x] = <<>>
      BY <2>2, <3>1 DEF Busy
    <3>3. Addressed(x)'
      BY <2>2, <3>1, <3>2 DEF Addressed, Local, Busy, Coming, Reading
    <3> QED
      BY <1>3, <1>4, <2>1, <3>1, <3>3
  <2>9. ~GetCounter(x) /\ ~SetTopicDone(x) /\ ~PutCounter(x) /\ ~StopConsuming(x)
    BY <2>2, <2>3 DEF GetCounter, SetTopicDone, PutCounter, StopConsuming, At, Move, Busy,
       Coming, Reading
  <2> QED
    BY <1>6, <2>4, <2>5, <2>6, <2>7, <2>8, <2>9 DEF ThreadStep
<1> QED
  BY <1>5, <1>6

\* The answer opens the semaphore; the wait ends once the thread has set its
\* event, and nothing is under way then.
LEMMA SendMain ==
  ASSUME Typed, Typed', SendInv, Sending, MainStep \/ Environment, [Next]_vars, calm'
  PROVE  Stage'
<1>0. ThreadsTyped /\ MailTyped /\ CommandTyped
  BY DEF Typed
<1>1. PICK x \in Users : x = cmd.arg
  BY DEF Sending, Typed, CommandTyped, Worded
<1>2. /\ ~topicDone /\ Addressed(x)
      /\ \A v \in Users : v # x => Quiet(v)
  BY <1>1 DEF SendInv
<1>3. cmd.kind = "send" /\ (mpc = "wait" \/ (mpc = "replied" /\ cmd.ok))
  BY DEF Sending
<1>4. ASSUME RestInv', mpc' \in {"idle", "take"} PROVE Stage'
  BY <1>4, QuietStage DEF Spreading
<1>5. CASE ShowAnswer
  <2>1. /\ ~Local(x) /\ mpc' = "idle" /\ AgeMessages(Over)
        /\ UNCHANGED <<tpc, done, topicDone>>
    BY <1>1, <1>3, <1>5 DEF ShowAnswer, Finish
  <2>2. \A v \in Users : Quiet(v)
    BY <1>2, <2>1 DEF Addressed
  <2>3. \A v \in Users : NoMail(v)'
    BY <2>1, <2>2, AgedStay DEF Quiet
  <2>4. RestInv'
    BY <1>2, <2>1, <2>2, <2>3 DEF RestInv, Quiet
  <2> QED
    BY <1>4, <2>1, <2>4
<1>6. CASE ShowSend
  <2>1. /\ mpc' = "wait" /\ cmd' = cmd /\ AgeMessages(Answered)
        /\ UNCHANGED <<tpc, done, topicDone>>
    BY <1>6 DEF ShowSend, OpenSemaphore, GoOn
  <2>2. \A v \in Users : /\ Len(priv'[v]) = Len(priv[v])
                         /\ priv'[v] = <<>> <=> priv[v] = <<>>
                         /\ \A g \in Groups : pub'[v][g] = <<>> <=> pub[v][g] = <<>>
                         /\ NoMail(v) => NoMail(v)'
                         /\ cur'[v].kind = cur[v].kind
    BY <2>1, AgedStay
  <2>3. \A v \in Users : v # x => Quiet(v)'
    BY <1>2, <2>1, <2>2 DEF Quiet
  <2>4. Quiet(x) => Quiet(x)'
    BY <2>1, <2>2 DEF Quiet
  <2>5. Addressed(x)'
    BY <1>2, <2>1, <2>2, <2>4 DEF Addressed, Local
  <2>6. SendInv'
    BY <1>1, <1>2, <2>1, <2>3, <2>5 DEF SendInv
  <2> QED
    BY <1>3, <2>1, <2>6 DEF Stage, Sending
<1>7. CASE WaitEnds
  <2>1. /\ mpc' = "take" /\ done[x] /\ UNCHANGED <<priv, pub, tpc, topicDone>>
        /\ done' = [done EXCEPT ![x] = FALSE]
    BY <1>1, <1>7, Calmly DEF WaitEnds, GoOn, mail
  <2>2. NoMail(x) /\ tpc[x] \notin Busy
    BY <1>2, <2>1 DEF Addressed, NoMail
  <2>3. ~done'[x] /\ \A v \in Users : v # x => done'[v] = done[v]
    BY <1>0, <2>1 DEF ThreadsTyped
  <2>4. RestInv'
    BY <1>2, <2>1, <2>2, <2>3 DEF RestInv, Quiet, NoMail
  <2> QED
    BY <1>4, <2>1, <2>4
<1>8. CASE MainStep
  <2>1. /\ ~Serve /\ ~ShowLogin /\ ~CountTopics /\ ~ShowLogout /\ ~JoinThread
        /\ ~ShowJoinGroup /\ ~ShowSendGroup /\ ~PutQuantity /\ ~GroupNotCounted
        /\ ~GroupWaitEnds /\ ~DrainCounter /\ ~CounterAway /\ ~TakeSemaphore
        /\ ~ExitJoin /\ ~StartAgain /\ \A u \in Users : ~ExitStop(u)
    BY <1>3 DEF Serve, ShowLogin, CountTopics, ShowLogout, JoinThread, ShowJoinGroup,
       ShowSendGroup, PutQuantity, GroupNotCounted, GroupWaitEnds, DrainCounter,
       CounterAway, TakeSemaphore, ExitJoin, StartAgain, ExitStop, Shown
  <2> QED
    BY <1>5, <1>6, <1>7, <1>8, <2>1 DEF MainStep, OwnStep
<1>9. CASE Environment
  <2>1. PICK v \in Users :
           /\ tpc[v] = "starting" /\ tpc' = [tpc EXCEPT ![v] = "dead"]
           /\ UNCHANGED <<main, priv, pub, cur, done, topicDone>>
    BY <1>3, <1>9, OnlyRunFails
  <2>2. tpc'[v] = "dead" /\ \A u \in Users : u # v => tpc'[u] = tpc[u]
    BY <1>0, <2>1 DEF ThreadsTyped
  <2>3. \A u \in Users : /\ Quiet(u) => Quiet(u)'
                         /\ Addressed(u) => Addressed(u)'
    BY <2>1, <2>2 DEF Quiet, Addressed, NoMail, Local, Busy, Coming, Reading
  <2>4. SendInv' /\ Sending'
    BY <1>1, <1>2, <2>1, <2>3 DEF SendInv, Sending, main
  <2> QED
    BY <2>4 DEF Stage
<1> QED
  BY <1>8, <1>9

----------------------------------------------------------------------------
(* A message to a group *)

\* As long as nothing was left over, the counter is in one place: in the queue,
\* or with one thread, and only between the put and the end of the drain.
LEMMA CounterSomewhere ==
  ASSUME Typed, TokensConserved, leftover = 0
  PROVE  /\ \A u \in Users : tpc[u] \in Counting =>
              mpc \in {"group-wait", "drain"} /\ counter = <<>>
         /\ counter # <<>> => mpc \in {"group-wait", "drain"} /\ Len(counter) = 1
         /\ \A u, v \in Users : tpc[u] \in Counting /\ tpc[v] \in Counting => u = v
<1> DEFINE S == {u \in Users : tpc[u] \in Counting}
<1>1. counter \in Seq(Nat) /\ Len(counter) \in Nat /\ (Len(counter) = 0 => counter = <<>>)
      /\ (counter = <<>> => Len(counter) = 0)
  BY LenProperties, EmptySeq DEF Typed, SharedTyped
<1>2. IsFiniteSet(S) /\ Cardinality(S) \in Nat /\ (Cardinality(S) = 0 <=> S = {})
  BY FS_Subset, FS_CardinalityType, FS_EmptySet, ClientAssumption
<1>3. Len(counter) + Cardinality(S) = IF mpc \in {"group-wait", "drain"} THEN 1 ELSE 0
  <2>1. Holders(Counting) = Cardinality(S)
    BY DEF Holders
  <2>2. Window({"group-wait", "drain"}) = IF mpc \in {"group-wait", "drain"} THEN 1 ELSE 0
    BY DEF Window
  <2>3. Len(counter) + Holders(Counting) = leftover + Window({"group-wait", "drain"})
    BY DEF TokensConserved, Counting
  <2> HIDE DEF S
  <2> QED
    BY <1>1, <1>2, <2>1, <2>2, <2>3
<1>4. \A u, v \in Users : tpc[u] \in Counting /\ tpc[v] \in Counting => u = v
  <2> SUFFICES ASSUME NEW u \in Users, NEW v \in Users, u \in S, v \in S, u # v
               PROVE  FALSE
    OBVIOUS
  <2> HIDE DEF S
  <2>1. /\ IsFiniteSet(S \ {u}) /\ Cardinality(S \ {u}) = Cardinality(S) - 1
        /\ Cardinality(S \ {u}) \in Nat
    BY <1>2, FS_RemoveElement, FS_CardinalityType
  <2>2. Cardinality(S \ {u}) # 0
    BY <2>1, FS_EmptySet
  <2> QED
    BY <1>1, <1>2, <1>3, <2>1, <2>2
<1>5. \A u \in Users : tpc[u] \in Counting => S # {}
  OBVIOUS
<1> HIDE DEF S
<1> DEFINE n == Len(counter)
           c == Cardinality(S)
<1>6. /\ n \in Nat /\ c \in Nat
      /\ n + c = 0 \/ (mpc \in {"group-wait", "drain"} /\ n + c = 1)
  BY <1>1, <1>2, <1>3
<1>7. /\ n # 0 => mpc \in {"group-wait", "drain"} /\ n = 1
      /\ c # 0 => mpc \in {"group-wait", "drain"} /\ n = 0
  <2> HIDE DEF n, c
  <2>1. CASE n + c = 0
    <3>1. n = 0 /\ c = 0
      BY <1>6, <2>1
    <3> QED
      BY <3>1
  <2>2. CASE mpc \in {"group-wait", "drain"} /\ n + c = 1
    <3>1. (n = 1 /\ c = 0) \/ (n = 0 /\ c = 1)
      BY <1>6, <2>2
    <3> QED
      BY <2>2, <3>1
  <2> QED
    BY <1>6, <2>1, <2>2
<1>8. /\ counter # <<>> => n # 0
      /\ n = 0 => counter = <<>>
      /\ S # {} => c # 0
  BY <1>1, <1>2
<1> QED
  BY <1>4, <1>5, <1>7, <1>8

\* What a thread does with its copy of the message.
LEMMA CopyMoves ==
  ASSUME Typed, ThreadsKnown, mpc \notin {"join", "exit-join"}, NEW g \in Groups,
         \A v \in Users : Reached(v, g), NEW u \in Users, ThreadStep(u)
  PROVE  /\ \A v \in Users : Reached(v, g)'
         /\ Copies(g)' \subseteq Copies(g)
         /\ GetCounter(u) => Copies(g)' = Copies(g) \ {u} /\ u \in Copies(g)
         /\ ~SetDone(u) /\ ~StopConsuming(u)
<1>0. ThreadsTyped /\ MailTyped
  BY DEF Typed
<1>1. \A v \in Users : v # u => UNCHANGED <<tpc[v], cur[v], done[v], priv[v], pub[v]>>
  BY ThreadFrame
<1>2. \A v \in Users : v # u => Reached(v, g)'
  BY <1>1 DEF Reached
<1>3. \A v \in Users : v # u => (v \in Copies(g)' <=> v \in Copies(g))
  BY <1>1 DEF Copies
<1>4. /\ priv[u] = <<>> /\ ~done[u]
      /\ \A h \in Groups : h # g => pub[u][h] = <<>>
      /\ Len(pub[u][g]) <= 1
      /\ pub[u][g] # <<>> => tpc[u] \notin Busy
      /\ tpc[u] # "set-done"
      /\ tpc[u] \in Reading => cur[u].kind = "public"
  BY DEF Reached
<1>5. ~SetDone(u) /\ ~StopConsuming(u)
  BY <1>4 DEF SetDone, StopConsuming, At, Move, ThreadsKnown
<1>6. ASSUME UNCHANGED <<priv, pub, done>>, pub[u][g] # <<>> => tpc'[u] \notin Busy,
             tpc'[u] # "set-done", tpc'[u] \in Reading => cur'[u].kind = "public",
             tpc'[u] \in Coming => tpc[u] \in Coming
      PROVE  Reached(u, g)' /\ (u \in Copies(g)' => u \in Copies(g))
  <2>1. Reached(u, g)'
    BY <1>4, <1>6 DEF Reached
  <2> QED
    BY <1>6, <2>1 DEF Copies
<1>7. ASSUME Run(u) \/ SetTopicDone(u) \/ PutCounter(u)
      PROVE  Reached(u, g)' /\ (u \in Copies(g)' => u \in Copies(g))
  <2>1. /\ UNCHANGED <<priv, pub, done>> /\ tpc'[u] \in {"on", "put-back"}
        /\ tpc[u] = "set-topic-done" \/ tpc'[u] = "on"
    BY <1>0, <1>7 DEF Run, SetTopicDone, PutCounter, At, Move, ThreadsTyped, mail
  <2>2. pub[u][g] # <<>> => tpc'[u] \notin Busy
    BY <1>4, <2>1 DEF Busy, Coming, Reading
  <2>3. tpc'[u] \notin Coming /\ tpc'[u] \notin Reading /\ tpc'[u] # "set-done"
    BY <2>1 DEF Coming, Reading
  <2>4. UNCHANGED <<priv, pub, done>>
    BY <2>1
  <2> QED
    BY <1>6, <2>2, <2>3, <2>4
<1>8. ASSUME Receive(u)
      PROVE  Reached(u, g)' /\ (u \in Copies(g)' => u \in Copies(g))
  <2>1. tpc[u] = "on" /\ tpc'[u] \in {"acquire", "print"} /\ done' = done
    BY <1>0, <1>8 DEF Receive, At, Move, ThreadsTyped
  <2>2. /\ pub[u][g] # <<>> /\ priv' = priv /\ pub' = [pub EXCEPT ![u][g] = Tail(@)]
        /\ cur' = [cur EXCEPT ![u] = [kind |-> "public", age |-> Head(pub[u][g])]]
    BY <1>4, <1>8 DEF Receive
  <2>3. /\ pub'[u][g] = Tail(pub[u][g])
        /\ \A h \in Groups : h # g => pub'[u][h] = pub[u][h]
    BY <1>0, <2>2 DEF MailTyped
  <2>4. pub'[u][g] = <<>>
    BY <1>0, <1>4, <2>2, <2>3, TailOfOne DEF MailTyped
  <2>5. cur'[u].kind = "public"
    BY <1>0, <2>2 DEF ThreadsTyped
  <2>6. Len(pub'[u][g]) <= 1
    BY <2>4
  <2>7. Reached(u, g)'
    BY <1>4, <2>1, <2>2, <2>3, <2>4, <2>5, <2>6 DEF Reached
  <2>8. u \in Copies(g)
    BY <2>2 DEF Copies
  <2> QED
    BY <2>7, <2>8
<1>9. ASSUME Acquire(u) \/ Release(u) \/ PrintMessage(u)
      PROVE  Reached(u, g)' /\ (u \in Copies(g)' => u \in Copies(g))
  <2>1. /\ UNCHANGED <<priv, pub, done>> /\ tpc[u] \in Reading
        /\ tpc'[u] \in Reading \cup {"on", "set-done", "get"}
        /\ tpc'[u] = "set-done" => cur[u].kind = "private"
        /\ tpc'[u] \in Reading => cur' = cur
    <3>1. CASE Acquire(u) \/ Release(u)
      BY <1>0, <3>1 DEF Acquire, Release, At, Move, ThreadsTyped, mail, Reading
    <3>2. CASE PrintMessage(u)
      <4>1. /\ tpc[u] = "print" /\ UNCHANGED <<priv, pub, done>>
            /\ tpc'[u] = IF ~event THEN "on"
                         ELSE IF cur[u].kind = "private" THEN "set-done" ELSE "get"
        BY <1>0, <3>2 DEF PrintMessage, At, Move, ThreadsTyped, mail
      <4> QED
        BY <4>1 DEF Reading
    <3> QED
      BY <1>9, <3>1, <3>2
  <2>2. pub[u][g] = <<>>
    BY <1>4, <2>1 DEF Busy, Coming
  <2>3. tpc'[u] # "set-done" /\ (tpc'[u] \in Reading => cur'[u].kind = "public")
    BY <1>4, <2>1
  <2>4. tpc[u] \in Coming /\ UNCHANGED <<priv, pub, done>>
    BY <2>1 DEF Coming
  <2> QED
    BY <1>6, <2>2, <2>3, <2>4
<1>10. CASE GetCounter(u)
  <2>1. /\ UNCHANGED <<priv, pub, done>> /\ tpc[u] = "get"
        /\ tpc'[u] \in {"set-topic-done", "put-back"}
    BY <1>0, <1>10 DEF GetCounter, At, Move, ThreadsTyped, mail
  <2>2. pub[u][g] = <<>>
    BY <1>4, <2>1 DEF Busy, Coming
  <2>3. Reached(u, g)' /\ u \in Copies(g) /\ u \notin Copies(g)'
    <3>1. u \in Copies(g)
      BY <2>1 DEF Copies, Coming
    <3>2. u \notin Copies(g)'
      BY <2>1, <2>2 DEF Copies, Coming, Reading
    <3>3. Reached(u, g)'
      BY <1>4, <2>1, <2>2 DEF Reached, Reading
    <3> QED
      BY <3>1, <3>2, <3>3
  <2>4. \A v \in Users : Reached(v, g)'
    BY <1>2, <2>3
  <2>5. Copies(g) \subseteq Users /\ Copies(g)' \subseteq Users
    BY DEF Copies
  <2>6. Copies(g)' = Copies(g) \ {u}
    BY <1>3, <2>3, <2>5
  <2> QED
    BY <1>5, <2>3, <2>4, <2>6
<1>11. CASE ~GetCounter(u)
  <2>1. Reached(u, g)' /\ (u \in Copies(g)' => u \in Copies(g))
    BY <1>5, <1>7, <1>8, <1>9, <1>11 DEF ThreadStep
  <2>2. Copies(g)' \subseteq Users
    BY DEF Copies
  <2> QED
    BY <1>2, <1>3, <1>5, <1>11, <2>1, <2>2
<1> QED
  BY <1>10, <1>11

\* There are finitely many copies, and a counter of at least their number goes
\* down only when there is one less.
LEMMA CopiesFinite ==
  ASSUME NEW g \in Groups
  PROVE  /\ IsFiniteSet(Copies(g)) /\ Cardinality(Copies(g)) \in Nat
         /\ Cardinality(Copies(g)) = 0 <=> Copies(g) = {}
BY FS_Subset, FS_CardinalityType, FS_EmptySet, ClientAssumption DEF Copies

LEMMA CopiesShrink ==
  ASSUME NEW S, NEW T \in SUBSET S, IsFiniteSet(S)
  PROVE  /\ IsFiniteSet(T) /\ Cardinality(T) \in Nat /\ Cardinality(S) \in Nat
         /\ Cardinality(T) <= Cardinality(S)
         /\ Cardinality(T) <= 0 => T = {}
         /\ \A u \in S : T = S \ {u} => Cardinality(T) = Cardinality(S) - 1
<1>1. IsFiniteSet(T) /\ Cardinality(T) <= Cardinality(S)
  BY FS_Subset
<1>2. Cardinality(T) \in Nat /\ Cardinality(S) \in Nat /\ (Cardinality(T) = 0 => T = {})
  BY <1>1, FS_CardinalityType, FS_EmptySet
<1>3. \A u \in S : T = S \ {u} => Cardinality(T) = Cardinality(S) - 1
  BY FS_RemoveElement
<1> QED
  BY <1>1, <1>2, <1>3

\* The threads pass the counter on: it is never less than the number of copies
\* that have yet to be counted.
LEMMA PassingOn ==
  ASSUME Typed, TokensConserved, leftover = 0,
         NEW S, NEW T \in SUBSET S, IsFiniteSet(S), S \subseteq Users, Passing(S),
         NEW u \in Users, ThreadStep(u), ~SetDone(u), ~StopConsuming(u),
         GetCounter(u) => T = S \ {u} /\ u \in S
  PROVE  /\ \A i \in DOMAIN counter' : Cardinality(T) <= counter'[i]
         /\ \A v \in Users : tpc'[v] \in Counting => Cardinality(T) <= held'[v]
         /\ \A v \in Users : tpc'[v] = "set-topic-done" =>
              /\ T = {} /\ ~topicDone'
              /\ \A x \in Users : tpc'[x] = "set-topic-done" => x = v
         /\ topicDone' => T = {}
<1>0. ThreadsTyped /\ counter \in Seq(Nat) /\ held \in [Users -> Int]
  BY DEF Typed, SharedTyped, ThreadsTyped
<1>1. /\ Cardinality(T) \in Nat /\ Cardinality(S) \in Nat
      /\ Cardinality(T) <= Cardinality(S)
      /\ Cardinality(T) <= 0 => T = {}
      /\ \A x \in S : T = S \ {x} => Cardinality(T) = Cardinality(S) - 1
  BY CopiesShrink
<1>2. /\ \A i \in DOMAIN counter : Cardinality(S) <= counter[i]
      /\ \A v \in Users : tpc[v] \in Counting => Cardinality(S) <= held[v]
      /\ \A v \in Users : tpc[v] = "set-topic-done" =>
           /\ S = {} /\ ~topicDone
           /\ \A x \in Users : tpc[x] = "set-topic-done" => x = v
      /\ topicDone => S = {}
  BY DEF Passing, Counting
<1>3. DOMAIN counter = 1..Len(counter) /\ Len(counter) \in Nat
      /\ \A i \in DOMAIN counter : counter[i] \in Nat
  BY <1>0, LenProperties, ElementOfSeq
<1>4. \A v \in Users : v # u => tpc'[v] = tpc[v] /\ held'[v] = held[v]
  BY ThreadFrame
<1>5. /\ \A i \in DOMAIN counter : Cardinality(T) <= counter[i]
      /\ \A v \in Users : tpc[v] \in Counting => Cardinality(T) <= held[v]
      /\ S = {} => T = {}
  <2>1. \A i \in DOMAIN counter : Cardinality(T) <= counter[i]
    BY <1>1, <1>2, <1>3
  <2>2. \A v \in Users : held[v] \in Int
    BY <1>0
  <2>3. \A v \in Users : tpc[v] \in Counting => Cardinality(T) <= held[v]
    BY <1>1, <1>2, <2>2
  <2> QED
    BY <2>1, <2>3
<1>6. CASE Run(u) \/ Receive(u) \/ Acquire(u) \/ Release(u) \/ PrintMessage(u)
  <2>1. /\ UNCHANGED <<counter, topicDone, held>> /\ tpc'[u] \notin Counting
    <3>1. CASE PrintMessage(u)
      <4>1. /\ UNCHANGED <<counter, topicDone, held>>
            /\ tpc'[u] = IF ~event THEN "on"
                         ELSE IF cur[u].kind = "private" THEN "set-done" ELSE "get"
        BY <1>0, <3>1 DEF PrintMessage, At, Move, ThreadsTyped
      <4> QED
        BY <4>1 DEF Counting
    <3>2. CASE Run(u) \/ Receive(u) \/ Acquire(u) \/ Release(u)
      BY <1>0, <3>2 DEF Run, Receive, Acquire, Release, At, Move, ThreadsTyped, Counting
    <3> QED
      BY <1>6, <3>1, <3>2
  <2>2. \A v \in Users : tpc'[v] \in Counting => v # u /\ tpc[v] \in Counting
    BY <1>4, <2>1
  <2>3. \A v \in Users : tpc'[v] = "set-topic-done" => v # u /\ tpc[v] = "set-topic-done"
    BY <1>4, <2>1 DEF Counting
  <2> QED
    BY <1>2, <1>4, <1>5, <2>1, <2>2, <2>3
<1>7. CASE GetCounter(u)
  <2>1. /\ counter # <<>> /\ counter' = Front(counter) /\ topicDone' = topicDone
        /\ held'[u] = Last(counter) - 1
        /\ tpc'[u] = IF Last(counter) = 1 THEN "set-topic-done" ELSE "put-back"
    BY <1>0, <1>7 DEF GetCounter, At, Move, ThreadsTyped
  <2>2. /\ Len(counter) = 1 /\ \A v \in Users : tpc[v] \notin Counting
    BY <2>1, CounterSomewhere
  <2>3. counter' = <<>> /\ Last(counter) = counter[1] /\ 1 \in DOMAIN counter
    <3>1. Front(counter) \in Seq(Nat) /\ Len(Front(counter)) = Len(counter) - 1
      BY <1>0, <2>1, FrontTyped
    <3>2. Front(counter) = <<>>
      <4>1. Len(Front(counter)) = 0
        BY <2>2, <3>1
      <4> QED
        BY <3>1, <4>1, EmptySeq
    <3>3. Last(counter) = counter[1] /\ 1 \in DOMAIN counter
      BY <1>3, <2>2 DEF Last
    <3> QED
      BY <2>1, <3>2, <3>3
  <2>4. \A i \in DOMAIN counter' : Cardinality(T) <= counter'[i]
    BY <2>3, EmptySeq
  <2>5. T = S \ {u} /\ u \in S /\ Cardinality(T) = Cardinality(S) - 1
    BY <1>1, <1>7
  <2>6. Last(counter) \in Nat /\ Cardinality(S) <= Last(counter)
    BY <1>2, <1>3, <2>3
  <2>7. Cardinality(T) <= held'[u]
    BY <1>1, <2>1, <2>5, <2>6
  <2>8. Last(counter) = 1 => T = {}
    <3>1. Last(counter) = 1 => Cardinality(T) <= 0
      BY <1>1, <2>5, <2>6
    <3> QED
      BY <1>1, <3>1
  <2>9. ~topicDone
    BY <1>2, <2>5
  <2>10. \A v \in Users : tpc'[v] \in Counting => v = u
    BY <1>4, <2>2
  <2>11. \A v \in Users : tpc'[v] = "set-topic-done" => v = u /\ Last(counter) = 1
    BY <2>1, <2>10 DEF Counting
  <2> QED
    BY <2>1, <2>4, <2>7, <2>8, <2>9, <2>10, <2>11
<1>8. CASE SetTopicDone(u)
  <2>1. /\ tpc[u] = "set-topic-done" /\ tpc'[u] = "put-back" /\ topicDone' = TRUE
        /\ UNCHANGED <<counter, held>>
    BY <1>0, <1>8 DEF SetTopicDone, At, Move, ThreadsTyped
  <2>2. S = {} /\ \A v \in Users : tpc[v] = "set-topic-done" => v = u
    BY <1>2, <2>1
  <2>3. \A v \in Users : tpc'[v] # "set-topic-done"
    BY <1>4, <2>1, <2>2
  <2>4. \A v \in Users : tpc'[v] \in Counting => tpc[v] \in Counting
    BY <1>4, <2>1 DEF Counting
  <2> QED
    BY <1>5, <2>1, <2>2, <2>3, <2>4
<1>9. CASE PutCounter(u)
  <2> DEFINE n == IF held[u] > 0 THEN held[u] ELSE 0
  <2>1. /\ tpc[u] = "put-back" /\ tpc'[u] = "on" /\ topicDone' = topicDone
        /\ counter' = Append(counter, n)
    BY <1>0, <1>9 DEF PutCounter, At, Move, ThreadsTyped
  <2>2. n \in Nat /\ Cardinality(T) <= n
    <3>1. held[u] \in Int /\ Cardinality(T) <= held[u]
      BY <1>0, <1>5, <2>1 DEF Counting
    <3>2. CASE held[u] > 0
      <4>1. n = held[u] /\ held[u] \in Nat
        BY <3>1, <3>2
      <4> QED
        BY <3>1, <4>1
    <3>3. CASE ~(held[u] > 0)
      BY <1>1, <3>1, <3>3
    <3> QED
      BY <3>2, <3>3
  <2> HIDE DEF n
  <2>3. counter = <<>>
    BY <2>1, CounterSomewhere DEF Counting
  <2>4. counter' = <<n>>
    BY <2>1, <2>3
  <2>5. \A i \in DOMAIN counter' : Cardinality(T) <= counter'[i]
    BY <2>2, <2>4
  <2>6. \A v \in Users : tpc'[v] \in Counting => v # u /\ tpc[v] \in Counting
    BY <1>4, <2>1 DEF Counting
  <2>7. \A v \in Users : tpc'[v] = "set-topic-done" => v # u /\ tpc[v] = "set-topic-done"
    BY <1>4, <2>1
  <2> QED
    BY <1>2, <1>4, <1>5, <2>1, <2>5, <2>6, <2>7
<1> QED
  BY <1>6, <1>7, <1>8, <1>9 DEF ThreadStep

LEMMA SpreadThread ==
  ASSUME Typed, ThreadsKnown, TokensConserved, leftover = 0, SpreadInv, Spreading,
         NEW u \in Users, ThreadStep(u)
  PROVE  SpreadInv'
<1>1. PICK g \in Groups : g = cmd.arg
  BY DEF Spreading, Typed, CommandTyped, Worded
<1>2. UNCHANGED <<mpc, cmd, joined>>
  BY ThreadFrame
<1>3. mpc \notin {"join", "exit-join", "drain"}
  BY DEF Spreading
<1>4. \A v \in Users : Reached(v, g)
  BY <1>1 DEF SpreadInv
<1>5. /\ \A v \in Users : Reached(v, g)'
      /\ Copies(g)' \subseteq Copies(g)
      /\ GetCounter(u) => Copies(g)' = Copies(g) \ {u} /\ u \in Copies(g)
      /\ ~SetDone(u) /\ ~StopConsuming(u)
  BY <1>3, <1>4, CopyMoves
<1>6. \A v \in Users : Reached(v, cmd.arg)'
  BY <1>1, <1>2, <1>5
<1>7. \A v \in Copies(cmd.arg)' : cmd'.arg \in joined'[v]
  BY <1>1, <1>2, <1>5 DEF SpreadInv
<1>8. CASE mpc = "group-wait"
  <2>1. Passing(Copies(g))
    BY <1>1, <1>8 DEF SpreadInv
  <2>2. IsFiniteSet(Copies(g)) /\ Copies(g) \subseteq Users
    BY CopiesFinite DEF Copies
  <2>3. PICK S \in SUBSET Users : S = Copies(g)
    BY <2>2
  <2>4. PICK T \in SUBSET S : T = Copies(g)'
    BY <1>5, <2>3
  <2>5. /\ \A i \in DOMAIN counter' : Cardinality(T) <= counter'[i]
        /\ \A v \in Users : tpc'[v] \in Counting => Cardinality(T) <= held'[v]
        /\ \A v \in Users : tpc'[v] = "set-topic-done" =>
             /\ T = {} /\ ~topicDone'
             /\ \A x \in Users : tpc'[x] = "set-topic-done" => x = v
        /\ topicDone' => T = {}
    <3>1. Passing(S) /\ IsFiniteSet(S) /\ (GetCounter(u) => T = S \ {u} /\ u \in S)
      BY <1>5, <2>1, <2>2, <2>3, <2>4
    <3> QED
      BY <1>5, <3>1, PassingOn
  <2>6. Passing(Copies(g))'
    BY <2>4, <2>5 DEF Passing, Counting
  <2>7. Passing(Copies(cmd.arg))'
    BY <1>1, <1>2, <2>6
  <2> QED
    BY <1>2, <1>6, <1>7, <1>8, <2>7 DEF SpreadInv
<1>9. CASE mpc # "group-wait"
  <2>1. ~topicDone /\ tpc[u] \notin Counting
    BY <1>3, <1>9, CounterSomewhere DEF SpreadInv
  <2>2. ~SetTopicDone(u)
    BY <2>1 DEF SetTopicDone, At, Move, Counting
  <2>3. topicDone' = topicDone
    BY <1>5, <2>2 DEF ThreadStep, Run, Receive, Acquire, Release, PrintMessage, GetCounter,
       PutCounter
  <2> QED
    BY <1>2, <1>6, <1>7, <1>9, <2>1, <2>3 DEF SpreadInv
<1> QED
  BY <1>8, <1>9

\* The counter starts at the number of local members, and is on its way back when
\* the wait ends.
LEMMA SpreadMain ==
  ASSUME Typed, Typed', ThreadsKnown, TokensConserved, leftover = 0, Counted, SpreadInv,
         Spreading, MainStep \/ Environment, [Next]_vars, calm'
  PROVE  Stage'
<1>0. ThreadsTyped /\ MailTyped /\ CommandTyped
  BY DEF Typed
<1>1. PICK g \in Groups : g = cmd.arg
  BY DEF Spreading, Typed, CommandTyped, Worded
<1>2. /\ \A v \in Users : Reached(v, g)
      /\ \A v \in Copies(g) : g \in joined[v]
      /\ IF mpc = "group-wait" THEN Passing(Copies(g)) ELSE ~topicDone
  BY <1>1 DEF SpreadInv
<1>3. cmd.kind = "send-group"
      /\ (mpc \in {"put", "group-wait"} \/ (mpc = "replied" /\ cmd.ok))
  BY DEF Spreading
<1>4. CASE ShowSendGroup
  <2>1. /\ mpc = "replied" /\ mpc' = "put" /\ cmd' = cmd /\ AgeMessages(Answered)
        /\ UNCHANGED <<tpc, done, topicDone, joined>>
    BY <1>4 DEF ShowSendGroup, OpenSemaphore, GoOn, Shown, books
  <2>2. \A v \in Users :
           /\ priv'[v] = <<>> <=> priv[v] = <<>>
           /\ \A h \in Groups : /\ Len(pub'[v][h]) = Len(pub[v][h])
                                /\ pub'[v][h] = <<>> <=> pub[v][h] = <<>>
           /\ cur'[v].kind = cur[v].kind
    BY <2>1, AgedStay
  <2>3. \A v \in Users : Reached(v, g)'
    BY <1>2, <2>1, <2>2 DEF Reached
  <2>4. Copies(g)' = Copies(g)
    BY <2>1, <2>2 DEF Copies
  <2>5. SpreadInv'
    BY <1>1, <1>2, <2>1, <2>3, <2>4 DEF SpreadInv
  <2> QED
    BY <1>3, <2>1, <2>5 DEF Stage, Sending, Spreading
<1>5. CASE PutQuantity
  <2>1. /\ mpc = "put" /\ mpc' = "group-wait" /\ cmd' = cmd
        /\ counter' = Append(counter, quantity[g])
        /\ UNCHANGED <<priv, pub, cur, tpc, done, topicDone, joined, held>>
    BY <1>1, <1>5 DEF PutQuantity, GoOn, books, mail
  <2>2. counter = <<>> /\ \A v \in Users : tpc[v] \notin Counting
    BY <2>1, CounterSomewhere
  <2>3. Copies(g)' = Copies(g) /\ \A v \in Users : Reached(v, g)'
    BY <1>2, <2>1 DEF Copies, Reached
  <2>4. Cardinality(Copies(g)) <= quantity[g]
    <3>1. Copies(g) \subseteq Sharers(g)
      BY <1>2, <2>1 DEF Copies, Sharers
    <3>2. IsFiniteSet(Sharers(g))
      BY FS_Subset, ClientAssumption DEF Sharers
    <3>3. Cardinality(Copies(g)) <= Cardinality(Sharers(g))
          /\ Cardinality(Copies(g)) \in Nat /\ Cardinality(Sharers(g)) \in Nat
      BY <3>1, <3>2, CopiesShrink
    <3>4. quantity[g] \in Nat /\ Cardinality(Sharers(g)) <= quantity[g]
      BY DEF Counted, Typed, SharedTyped
    <3> QED
      BY <3>3, <3>4
  <2>5. counter' = <<quantity[g]>>
    BY <2>1, <2>2
  <2>6. \A i \in DOMAIN counter' : Cardinality(Copies(g)) <= counter'[i]
    BY <2>4, <2>5
  <2>7. Passing(Copies(g))'
    BY <1>2, <2>1, <2>2, <2>3, <2>6 DEF Passing, Counting
  <2>8. SpreadInv'
    BY <1>1, <1>2, <2>1, <2>3, <2>7 DEF SpreadInv
  <2> QED
    BY <1>3, <2>1, <2>8 DEF Stage, Sending, Spreading
<1>6. CASE GroupWaitEnds
  <2>1. /\ mpc = "group-wait" /\ mpc' = "drain" /\ topicDone /\ ~topicDone'
        /\ UNCHANGED <<priv, pub, tpc, done>>
    BY <1>6, Calmly DEF GroupWaitEnds, GoOn, mail
  <2>2. Copies(g) = {} /\ \A v \in Users : tpc[v] # "set-topic-done"
    BY <1>2, <2>1 DEF Passing
  <2>3. \A v \in Users : NoMail(v)
    BY <1>2, <2>2 DEF Reached, Copies, NoMail
  <2>4. \A v \in Users : ~done[v] /\ (tpc[v] \in Busy => tpc[v] = "put-back")
    BY <1>2, <2>2 DEF Reached, Copies, Busy
  <2>5. DrainInv'
    BY <2>1, <2>3, <2>4 DEF DrainInv, NoMail
  <2> QED
    BY <2>1, <2>5 DEF Stage, Sending, Spreading
<1>7. CASE MainStep
  <2>1. /\ ~Serve /\ ~ShowLogin /\ ~CountTopics /\ ~ShowLogout /\ ~JoinThread
        /\ ~ShowJoinGroup /\ ~ShowSend /\ ~WaitEnds /\ ~ShowAnswer
        /\ ~DrainCounter /\ ~CounterAway /\ ~TakeSemaphore
        /\ ~ExitJoin /\ ~StartAgain /\ \A u \in Users : ~ExitStop(u)
    BY <1>3 DEF Serve, ShowLogin, CountTopics, ShowLogout, JoinThread, ShowJoinGroup,
       ShowSend, WaitEnds, ShowAnswer, DrainCounter,
       CounterAway, TakeSemaphore, ExitJoin, StartAgain, ExitStop, Shown
  <2> QED
    BY <1>4, <1>5, <1>6, <1>7, <2>1, Calmly DEF MainStep, OwnStep
<1>8. CASE Environment
  <2>1. PICK v \in Users :
           /\ tpc[v] = "starting" /\ tpc' = [tpc EXCEPT ![v] = "dead"]
           /\ UNCHANGED <<main, priv, pub, cur, held, done, counter, topicDone, joined>>
    BY <1>3, <1>8, OnlyRunFails
  <2>2. tpc'[v] = "dead" /\ \A u \in Users : u # v => tpc'[u] = tpc[u]
    BY <1>0, <2>1 DEF ThreadsTyped
  <2>3. \A p \in Busy, u \in Users : tpc'[u] = p <=> tpc[u] = p
    BY <2>1, <2>2 DEF Busy, Coming, Reading
  <2>4. \A u \in Users : Reached(u, g)'
    BY <1>2, <2>1, <2>3 DEF Reached, Busy, Coming, Reading
  <2>5. Copies(g)' = Copies(g)
    <3>1. \A u \in Users : tpc'[u] \in Coming <=> tpc[u] \in Coming
      BY <2>3 DEF Busy
    <3> QED
      BY <2>1, <3>1 DEF Copies
  <2>6. Passing(Copies(g)) => Passing(Copies(g))'
    BY <2>1, <2>3, <2>5 DEF Passing, Busy
  <2>7. SpreadInv' /\ Spreading' /\ ~Sending'
    BY <1>1, <1>2, <1>3, <2>1, <2>4, <2>5, <2>6 DEF SpreadInv, Spreading, Sending, main
  <2> QED
    BY <2>7 DEF Stage
<1> QED
  BY <1>7, <1>8

----------------------------------------------------------------------------
(* The end of a wait *)

LEMMA DrainThread ==
  ASSUME Typed, DrainInv, NEW u \in Users, ThreadStep(u)
  PROVE  DrainInv'
<1>0. ThreadsTyped /\ MailTyped
  BY DEF Typed
<1>1. \A v \in Users : v # u => UNCHANGED <<tpc[v], done[v], priv[v], pub[v]>>
  BY ThreadFrame
<1>2. \A v \in Users : v # u =>
         NoMail(v)' /\ ~done'[v] /\ (tpc'[v] \in Busy => tpc'[v] = "put-back")
  BY <1>1 DEF DrainInv, NoMail
<1>3. ASSUME NoMail(u)', ~done'[u], tpc'[u] \in Busy => tpc'[u] = "put-back", ~topicDone'
      PROVE  DrainInv'
  BY <1>2, <1>3 DEF DrainInv
<1>4. CASE tpc[u] = "put-back"
  <2>1. PutCounter(u)
    BY <1>0, <1>4 DEF ThreadStep, Run, Receive, Acquire, Release, PrintMessage, SetDone,
       GetCounter, SetTopicDone, StopConsuming, At, Move
  <2>2. tpc'[u] = "on" /\ UNCHANGED <<priv, pub, done, topicDone>>
    BY <1>0, <2>1 DEF PutCounter, At, Move, ThreadsTyped, mail
  <2>3. NoMail(u)'
    BY <2>2 DEF DrainInv, NoMail
  <2>4. ~done'[u] /\ ~topicDone'
    BY <2>2 DEF DrainInv
  <2> QED
    BY <1>3, <2>2, <2>3, <2>4 DEF Busy, Coming, Reading
<1>5. CASE tpc[u] # "put-back"
  <2>1. Quiet(u) /\ ~topicDone
    BY <1>5 DEF DrainInv, Quiet
  <2>2. Quiet(u)' /\ topicDone' = topicDone
    BY <2>1, QuietThread
  <2> QED
    BY <1>3, <2>1, <2>2 DEF Quiet
<1> QED
  BY <1>4, <1>5

LEMMA DrainMain ==
  ASSUME Typed, Typed', TokensConserved, leftover = 0, DrainInv, mpc = "drain",
         MainStep \/ Environment, [Next]_vars, calm'
  PROVE  Stage'
<1>0. ThreadsTyped /\ MailTyped /\ CommandTyped
  BY DEF Typed
<1>1. CASE DrainCounter
  <2>1. /\ counter # <<>> /\ mpc' = "take" /\ UNCHANGED <<priv, pub, tpc, done, topicDone>>
    BY <1>1 DEF DrainCounter, GoOn, mail
  <2>2. \A v \in Users : tpc[v] # "put-back"
    BY <2>1, CounterSomewhere DEF Counting
  <2>3. RestInv'
    BY <2>1, <2>2 DEF DrainInv, RestInv, Quiet, NoMail
  <2> QED
    BY <2>1, <2>3, QuietStage DEF Spreading
<1>2. CASE MainStep
  <2>1. /\ ~Serve /\ ~ShowLogin /\ ~CountTopics /\ ~ShowLogout /\ ~JoinThread
        /\ ~ShowJoinGroup /\ ~ShowSend /\ ~WaitEnds /\ ~ShowAnswer
        /\ ~ShowSendGroup /\ ~PutQuantity /\ ~GroupNotCounted
        /\ ~GroupWaitEnds /\ ~TakeSemaphore
        /\ ~ExitJoin /\ ~StartAgain /\ \A u \in Users : ~ExitStop(u)
    BY DEF Serve, ShowLogin, CountTopics, ShowLogout, JoinThread, ShowJoinGroup,
       ShowSend, WaitEnds, ShowAnswer, ShowSendGroup, PutQuantity, GroupNotCounted,
       GroupWaitEnds, TakeSemaphore, ExitJoin, StartAgain, ExitStop, Shown
  <2> QED
    BY <1>1, <1>2, <2>1, Calmly DEF MainStep, OwnStep
<1>3. CASE Environment
  <2>1. PICK v \in Users :
           /\ tpc[v] = "starting" /\ tpc' = [tpc EXCEPT ![v] = "dead"]
           /\ UNCHANGED <<main, priv, pub, done, topicDone>>
    BY <1>3, OnlyRunFails
  <2>2. tpc'[v] = "dead" /\ \A u \in Users : u # v => tpc'[u] = tpc[u]
    BY <1>0, <2>1 DEF ThreadsTyped
  <2>3. DrainInv'
    BY <2>1, <2>2 DEF DrainInv, NoMail, Busy, Coming, Reading
  <2> QED
    BY <2>1, <2>3 DEF Stage, Sending, Spreading, main
<1> QED
  BY <1>2, <1>3

LEMMA NextCalm ==
  ASSUME Typed, Typed', WaitInv, TokensConserved, [Next]_vars
  PROVE  CalmInv'
<1> SUFFICES ASSUME calm' PROVE leftover' = 0 /\ BooksKept' /\ Stage'
  BY DEF CalmInv
<1>1. /\ calm /\ ~ConnectionFails /\ ~GroupNotCounted /\ ~CounterAway /\ ~RemoteMessage
  BY Calmly
<1>2. /\ leftover = 0 /\ BooksKept /\ Stage
      /\ BooksTyped /\ ThreadsKnown /\ Counted
  BY <1>1 DEF WaitInv, CalmInv
<1>3. leftover' = 0
  <2>1. CASE MainStep
    BY <1>1, <1>2, <2>1 DEF MainStep, OwnStep, Serve, ShowAnswer, ShowLogin, CountTopics, ShowLogout,
       JoinThread, ShowJoinGroup, ShowSend, ShowSendGroup, OpenSemaphore, WaitEnds,
       PutQuantity, GroupWaitEnds, DrainCounter, TakeSemaphore, ExitJoin, StartAgain,
       ExitStop, GoOn, Finish, history
  <2>2. CASE Environment
    BY <1>1, <1>2, <2>2 DEF Environment, ReadCommand, Exit, RunFails, Move, JoinElsewhere,
       GoOn, history
  <2>3. CASE \E u \in Users : ThreadStep(u)
    BY <1>2, <2>3, ThreadFrame
  <2> QED
    BY <1>2, <2>1, <2>2, <2>3 DEF Next, vars, history
<1>4. BooksKept'
  BY <1>2, NextBooksKept
<1>5. ASSUME MainStep \/ Environment PROVE Stage'
  <2>1. CASE Sending
    BY <1>2, <1>5, <2>1, SendMain DEF Stage
  <2>2. CASE ~Sending /\ Spreading
    BY <1>2, <1>5, <2>2, SpreadMain DEF Stage
  <2>3. CASE ~Sending /\ ~Spreading /\ mpc = "drain"
    BY <1>2, <1>5, <2>3, DrainMain DEF Stage
  <2>4. CASE ~Sending /\ ~Spreading /\ mpc # "drain"
    BY <1>2, <1>5, <2>4, RestMain, RestServe DEF Stage
  <2> QED
    BY <2>1, <2>2, <2>3, <2>4
<1>6. ASSUME NEW u \in Users, ThreadStep(u) PROVE Stage'
  <2>0. UNCHANGED <<mpc, cmd>>
    BY <1>6, ThreadFrame
  <2>1. CASE Sending
    <3>1. SendInv'
      BY <1>2, <1>6, <2>1, SendThread DEF Stage, Sending
    <3> QED
      BY <2>0, <2>1, <3>1 DEF Stage, Sending
  <2>2. CASE ~Sending /\ Spreading
    <3>1. SpreadInv'
      BY <1>2, <1>6, <2>2, SpreadThread DEF Stage
    <3> QED
      BY <2>0, <2>2, <3>1 DEF Stage, Sending, Spreading
  <2>3. CASE ~Sending /\ ~Spreading /\ mpc = "drain"
    <3>1. DrainInv'
      BY <1>2, <1>6, <2>3, DrainThread DEF Stage
    <3> QED
      BY <2>0, <2>3, <3>1 DEF Stage, Sending, Spreading
  <2>4. CASE ~Sending /\ ~Spreading /\ mpc # "drain"
    <3>1. RestInv'
      BY <1>2, <1>6, <2>4, RestThread DEF Stage
    <3> QED
      BY <2>0, <2>4, <3>1 DEF Stage, Sending, Spreading
  <2> QED
    BY <2>1, <2>2, <2>3, <2>4
<1>7. ASSUME UNCHANGED vars PROVE Stage'
  <2>1. UNCHANGED <<mpc, cmd, counter, topicDone, joined, tpc, cur, held, done, priv, pub>>
    BY <1>7 DEF vars, main, shared, books, mail
  <2>2. \A u \in Users : /\ Quiet(u)' <=> Quiet(u)
                         /\ NoMail(u)' <=> NoMail(u)
                         /\ Addressed(u)' <=> Addressed(u)
                         /\ \A g \in Groups : Reached(u, g)' <=> Reached(u, g)
    BY <2>1 DEF Quiet, NoMail, Addressed, Reached, Local
  <2>3. \A g \in Groups : Copies(g)' = Copies(g) /\ (Passing(Copies(g))' <=> Passing(Copies(g)))
    BY <2>1 DEF Copies, Passing
  <2>4. (Sending' <=> Sending) /\ (Spreading' <=> Spreading)
    BY <2>1 DEF Sending, Spreading
  <2>5. CASE Sending
    <3>1. cmd.arg \in Users
      BY <2>5 DEF Sending, Typed, CommandTyped, Worded
    <3> QED
      BY <1>2, <2>1, <2>2, <2>4, <2>5, <3>1 DEF Stage, SendInv
  <2>6. CASE ~Sending /\ Spreading
    <3>1. cmd.arg \in Groups
      BY <2>6 DEF Spreading, Typed, CommandTyped, Worded
    <3> QED
      BY <1>2, <2>1, <2>2, <2>3, <2>4, <2>6, <3>1 DEF Stage, SpreadInv
  <2>7. CASE ~Sending /\ ~Spreading
    BY <1>2, <2>1, <2>2, <2>4, <2>7 DEF Stage, DrainInv, RestInv
  <2> QED
    BY <2>5, <2>6, <2>7
<1> QED
  BY <1>3, <1>4, <1>5, <1>6, <1>7 DEF Next

LEMMA NextWait ==
  ASSUME Typed, Typed', WaitInv, TokensConserved, [Next]_vars
  PROVE  WaitInv'
<1>1. BooksTyped'
  BY NextBooksTyped DEF WaitInv
<1>2. ThreadsKnown'
  BY NextThreadsKnown DEF WaitInv
<1>3. Counted'
  BY NextCounted DEF WaitInv
<1> QED
  BY <1>1, <1>2, <1>3, NextCalm DEF WaitInv

LEMMA InitWait == Init => WaitInv
<1> SUFFICES ASSUME Init PROVE WaitInv
  OBVIOUS
<1>0. /\ mpc = "idle" /\ cmd = NoCommand /\ topicDone = FALSE /\ leftover = 0
      /\ quantity = [g \in Groups |-> 0] /\ joined = [u \in Users |-> {}]
      /\ tpc = [u \in Users |-> "off"] /\ cur = [u \in Users |-> NoMessage]
      /\ done = [u \in Users |-> FALSE] /\ stop = [u \in Users |-> "no"]
      /\ subs = [u \in Users |-> {}] /\ pub = Nothing /\ priv = [u \in Users |-> <<>>]
      /\ member = [u \in Users |-> {}]
  BY DEF Init
<1>1. BooksTyped
  BY <1>0 DEF BooksTyped
<1>2. ThreadsKnown
  BY <1>0, NoMessageTyped DEF ThreadsKnown, NoCommand
<1>3. Counted
  <2> SUFFICES ASSUME NEW g \in Groups PROVE Cardinality(Sharers(g)) <= quantity[g]
    BY DEF Counted
  <2>1. Sharers(g) = {}
    BY <1>0 DEF Sharers
  <2>2. Cardinality({}) = 0
    BY FS_EmptySet
  <2> QED
    BY <1>0, <2>1, <2>2
<1>4. BooksKept
  BY <1>0 DEF BooksKept
<1>5. RestInv
  BY <1>0 DEF RestInv, Quiet, NoMail, Nothing, Busy, Coming, Reading
<1>6. ~Sending /\ ~Spreading
  BY <1>0 DEF Sending, Spreading
<1> QED
  BY <1>0, <1>1, <1>2, <1>3, <1>4, <1>5, <1>6 DEF WaitInv, CalmInv, Stage

\* When a wait is about to end because the event was set, no copy is unprinted.
LEMMA NothingUnprinted ==
  ASSUME Typed, WaitInv, calm, WaitedFor, NEW u \in Users
  PROVE  ~Unprinted(u)
<1>1. Stage /\ (tpc[u] \notin Reading => cur[u].age = "other")
  BY DEF WaitInv, CalmInv, ThreadsKnown
<1>2. ASSUME NoMail(u), tpc[u] \notin Reading PROVE ~Unprinted(u)
  BY <1>1, <1>2 DEF Unprinted, NoMail
<1>3. CASE mpc = "wait" /\ done[cmd.arg]
  <2>1. Sending /\ cmd.arg \in Users
    BY <1>3 DEF Typed, CommandTyped, Worded, Sending
  <2>2. Addressed(cmd.arg) /\ (u # cmd.arg => Quiet(u))
    BY <1>1, <2>1 DEF Stage, SendInv
  <2>3. CASE u = cmd.arg
    BY <1>2, <1>3, <2>2, <2>3 DEF Addressed, NoMail, Busy, Coming
  <2>4. CASE u # cmd.arg
    BY <1>2, <2>2, <2>4 DEF Quiet, Busy, Coming
  <2> QED
    BY <2>3, <2>4
<1>4. CASE mpc = "group-wait" /\ topicDone
  <2>1. Spreading /\ ~Sending /\ cmd.arg \in Groups
    BY <1>4 DEF Typed, CommandTyped, Worded, Sending, Spreading
  <2>2. Reached(u, cmd.arg) /\ Copies(cmd.arg) = {}
    BY <1>1, <1>4, <2>1 DEF Stage, SpreadInv, Passing
  <2>3. NoMail(u) /\ tpc[u] \notin Reading
    BY <2>1, <2>2 DEF Reached, Copies, NoMail, Coming
  <2> QED
    BY <1>2, <2>3
<1> QED
  BY <1>3, <1>4 DEF WaitedFor

\* When the main thread stops waiting for a message because the event was set,
\* every local copy has been printed, in every run in which nothing has failed and
\* nobody else has written: the thread's event and the counter do what they are for
\* (client_amqp.py:138 and 162).
THEOREM DonePrintsAll == Spec => DoneMeansPrinted
<1>1. Spec => []Typed
  BY ClientTyped
<1>2. Spec => []TokensConserved
  BY TokensAlwaysConserved
<1>3. Init => WaitInv
  BY InitWait
<1>4. Typed /\ Typed' /\ TokensConserved /\ WaitInv /\ [Next]_vars => WaitInv'
  BY NextWait
<1>5. Spec => []WaitInv
  BY <1>1, <1>2, <1>3, <1>4, PTL DEF Spec
<1>6. Typed /\ WaitInv =>
        [calm /\ WaitedFor /\ mpc' # mpc => \A u \in Users : ~Unprinted(u)]_vars
  BY NothingUnprinted
<1> QED
  BY <1>1, <1>5, <1>6, PTL DEF DoneMeansPrinted
=============================================================================
