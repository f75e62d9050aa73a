-------------------------------- MODULE Client --------------------------------
(***************************************************************************)
(* One client process of Project_5: the main thread reads commands         *)
(* (client_amqp.py), and each user logged in here has an AMQP thread that  *)
(* prints the messages for this user (amqp_client_thread.py).  An event, a *)
(* semaphore, and a counter that the threads pass on through a LIFO queue  *)
(* are to make a command's answer come first, and the main thread wait     *)
(* for the local copies of the message it sent.  A step is one operation   *)
(* on a shared object.                                                     *)
(***************************************************************************)
EXTENDS Integers, Sequences, FiniteSets, SequencesExt

CONSTANTS Users, Groups, NoOne,
          Workloads,    \* which kinds of commands the user types, and bounds:
                        \* faults and what exceptions have left behind
                        \* (trouble), messages in a queue before a send (waiting)
          MaxQuantity   \* bound: a group's count when a command is read

ASSUME ClientAssumption ==
  /\ IsFiniteSet(Users) /\ NoOne \notin Users \cup Groups
  /\ MaxQuantity \in Nat
  /\ \A w \in Workloads : {w.trouble, w.waiting} \subseteq Nat

VARIABLES
  mpc,        \* place of the main thread
  cmd,        \* the command it runs: [kind, who, arg, ok]
  event,      \* __local_command_event
  sem,        \* __print_order_semaphore
  counter,    \* __global_counter, the last one put at the end
  topicDone,  \* __print_topic_message_done
  quantity,   \* __groups_and_its_quantity; 0: no such key
  joined,     \* __users_joined_groups_dict
  tpc,        \* place of u's AMQP thread; "off": no thread in the dictionary
  cur,        \* the message it handles
  held,       \* the number it has taken from the counter queue
  done,       \* __print_queue_message_done, one per thread
  stop,       \* stop() was called: the __exit_action, "no" before
  subs,       \* groups it has an exclusive queue for
  priv, pub,  \* messages in u's personal queue, and in its queue for a group
  member,     \* the groups u is a member of, in the servers' database
  faults,     \* failed connections and acts of other clients so far
  surplus, leftover, \* history: what failed commands have not taken back
  calm,       \* history: no exception, no time-out, no foreign message so far
  load        \* the workload of this behaviour

main    == <<mpc, cmd>>
shared  == <<event, sem, counter, topicDone>>
books   == <<quantity, joined>>
mail    == <<priv, pub>>
history == <<faults, surplus, leftover, calm, load>>
vars == <<main, shared, books, tpc, cur, held, done, stop, subs, mail, member,
          history>>

NoCommand == [kind |-> "none", who |-> NoOne, arg |-> NoOne, ok |-> FALSE]
NoMessage == [kind |-> "none", age |-> "other"]

(***************************************************************************)
(* A message is "early" until the answer to the command that sent it is    *)
(* shown here, "due" until the command ends, and "other" after that or     *)
(* when it was sent by another client.                                     *)
(***************************************************************************)
Answered(age) == IF age = "early" THEN "due" ELSE age
Over(age) == "other"
AgeMessages(Grow(_)) ==
  /\ priv' = [u \in Users |-> [i \in 1..Len(priv[u]) |-> Grow(priv[u][i])]]
  /\ pub' = [u \in Users |-> [g \in Groups |->
               [i \in 1..Len(pub[u][g]) |-> Grow(pub[u][g][i])]]]
  /\ cur' = [u \in Users |-> [cur[u] EXCEPT !.age = Grow(@)]]

Nothing == [u \in Users |-> [g \in Groups |-> <<>>]]
Init ==
  /\ mpc = "idle" /\ cmd = NoCommand
  /\ event = FALSE /\ sem = 0 /\ counter = <<>> /\ topicDone = FALSE
  /\ quantity = [g \in Groups |-> 0] /\ joined = [u \in Users |-> {}]
  /\ tpc = [u \in Users |-> "off"] /\ cur = [u \in Users |-> NoMessage]
  /\ held = [u \in Users |-> 0] /\ done = [u \in Users |-> FALSE]
  /\ stop = [u \in Users |-> "no"] /\ subs = [u \in Users |-> {}]
  /\ pub = Nothing /\ surplus = 0 /\ leftover = 0
  /\ priv = [u \in Users |-> <<>>] /\ member = [u \in Users |-> {}]
  /\ faults = 0 /\ calm = TRUE /\ load \in Workloads

----------------------------------------------------------------------------
(* The main thread: run and __show_result *)

Local(u) == tpc[u] # "off"

\* A line from the user.  "other" is every command after which the client only
\* prints: also one for a user who is not logged in here.  An "empty" line is a
\* command too: it has lost its end of line and so differs from os.linesep.
Here == {u \in Users : Local(u)}
Commands ==
  [kind : {"login"}, who : Users, arg : {NoOne}, ok : {FALSE}]
  \cup [kind : {"logout", "delete"}, who : Here, arg : {NoOne}, ok : {FALSE}]
  \cup [kind : {"send"}, who : Here, arg : Users, ok : {FALSE}]
  \cup [kind : {"join-group", "send-group"}, who : Here, arg : Groups, ok : {FALSE}]
  \cup [kind : {"other", "empty"}, who : {NoOne}, arg : {NoOne}, ok : {FALSE}]

\* The bounds: what a command of a kind needs to be read in this instance.
Bounds(kind) ==
  /\ kind \in load.commands
  /\ faults + surplus <= load.trouble
  /\ kind = "login" => \A g \in Groups : quantity[g] < MaxQuantity
  /\ kind = "send" => \A u \in Users : Len(priv[u]) <= load.waiting
  /\ kind = "send-group" =>
       \A u \in Users, g \in Groups : Len(pub[u][g]) <= load.waiting

\* Mutant: the event is not set.
ReadCommandOnly(c) ==
  /\ mpc = "idle" /\ Bounds(c.kind)
  /\ mpc' = "sent" /\ cmd' = c
  /\ UNCHANGED <<shared, books, tpc, cur, held, done, stop, subs, mail, member, history>>
ReadCommand(c) ==
  /\ mpc = "idle" /\ Bounds(c.kind)
  /\ mpc' = "sent" /\ cmd' = c
  /\ event' = TRUE
  /\ UNCHANGED <<sem, counter, topicDone, books, tpc, cur, held, done, stop, subs,
                 mail, member, history>>

Fault == faults + surplus < load.trouble /\ faults' = faults + 1

\* An exception anywhere in a command ends it in run's except clause, past the
\* event's clear().
Except ==
  /\ mpc' = "idle" /\ cmd' = NoCommand
  /\ calm' = FALSE /\ AgeMessages(Over)
  /\ UNCHANGED <<shared, books, tpc, held, done, stop, subs, member, load>>

\* No connection, no answer that can be parsed, or one without a status: an
\* application server has nothing else to say to "terminate".
ConnectionFails ==
  /\ mpc \in {"sent", "replied"}
  /\ Fault /\ Except /\ UNCHANGED <<surplus, leftover>>

\* The command is over and the event cleared.
Finish ==
  /\ mpc' = "idle" /\ cmd' = NoCommand
  /\ event' = FALSE /\ AgeMessages(Over)
  /\ UNCHANGED <<counter, topicDone, held, member, history>>

\* The answer is printed and asks for nothing else.
ShowAnswer ==
  /\ mpc = "replied"
  /\ \/ ~cmd.ok \/ cmd.kind = "other"
     \/ cmd.kind = "send" /\ ~Local(cmd.arg)
  /\ Finish /\ UNCHANGED <<sem, books, tpc, done, stop, subs>>

Shown(kinds) == mpc = "replied" /\ cmd.ok /\ cmd.kind \in kinds
\* The command goes on.
GoOn(place) == mpc' = place /\ cmd' = cmd /\ UNCHANGED <<event, held, member>>

\* A user without a thread gets one; a second login finds it in the dictionary.
ShowLogin ==
  LET u == cmd.who IN
    /\ Shown({"login"}) /\ GoOn("launch")
    /\ IF Local(u) THEN UNCHANGED <<tpc, subs>>
       ELSE /\ tpc' = [tpc EXCEPT ![u] = "starting"]
            /\ subs' = [subs EXCEPT ![u] = member[u]]
    /\ UNCHANGED <<sem, counter, topicDone, books, cur, done, stop, mail, history>>

\* Mutant: a second user of a group is not counted.
CountTopicsOnce ==
  LET u == cmd.who IN
    /\ mpc = "launch" /\ tpc[u] \notin {"starting", "dead"}
    /\ joined' = [joined EXCEPT ![u] = member[u]]
    /\ quantity' = [g \in Groups |-> IF g \in member[u] THEN 1 ELSE quantity[g]]
    /\ Finish /\ UNCHANGED <<sem, tpc, done, stop, subs>>
\* The thread's running flag is set; the user's groups are counted.
CountTopics ==
  LET u == cmd.who IN
    /\ mpc = "launch" /\ tpc[u] \notin {"starting", "dead"}
    /\ joined' = [joined EXCEPT ![u] = member[u]]
    /\ quantity' = [g \in Groups |->
                      quantity[g] + IF g \in member[u] THEN 1 ELSE 0]
    /\ Finish /\ UNCHANGED <<sem, tpc, done, stop, subs>>

\* logout and delete: __logout_delete_cleaner, up to the join.
ShowLogout ==
  LET u == cmd.who IN
    /\ Shown({"logout", "delete"}) /\ GoOn("join")
    /\ quantity' = [g \in Groups |->
                      IF g \in joined[u] /\ quantity[g] > 0 THEN quantity[g] - 1
                      ELSE quantity[g]]
    /\ stop' = [stop EXCEPT ![u] = cmd.kind]
    /\ UNCHANGED <<sem, counter, topicDone, joined, tpc, cur, done, subs, mail, history>>

\* The thread has ended: its entries go from the dictionaries.
Joined(u) ==
  /\ tpc[u] = "ended" /\ tpc' = [tpc EXCEPT ![u] = "off"]
  /\ stop' = [stop EXCEPT ![u] = "no"] /\ done' = [done EXCEPT ![u] = FALSE]
JoinThread ==
  /\ mpc = "join" /\ Joined(cmd.who)
  /\ joined' = [joined EXCEPT ![cmd.who] = {}]
  /\ Finish /\ UNCHANGED <<sem, quantity, subs>>

\* join-group and create-group: the main thread itself subscribes.
ShowJoinGroup ==
  LET u == cmd.who
      g == cmd.arg IN
    /\ Shown({"join-group"})
    /\ subs' = [subs EXCEPT ![u] = @ \cup {g}]
    /\ quantity' = [quantity EXCEPT ![g] = @ + 1]
    /\ joined' = [joined EXCEPT ![u] = @ \cup {g}]
    /\ Finish /\ UNCHANGED <<sem, tpc, done, stop>>

\* The answer has been printed: the threads may print too.
OpenSemaphore(place) ==
  /\ GoOn(place) /\ AgeMessages(Answered)
  /\ sem' = sem + 1
  /\ UNCHANGED <<counter, topicDone, books, tpc, done, stop, subs, history>>
ShowSend == Shown({"send"}) /\ Local(cmd.arg) /\ OpenSemaphore("wait")
ShowSendGroup == Shown({"send-group"}) /\ OpenSemaphore("put")

\* wait(3) and clear(): the event was set, or three seconds have passed.
WaitEnds ==
  /\ mpc = "wait" /\ GoOn("take")
  /\ done' = [done EXCEPT ![cmd.arg] = FALSE]
  /\ calm' = (calm /\ done[cmd.arg])
  /\ UNCHANGED <<sem, counter, topicDone, books, tpc, cur, stop, subs, mail,
                 faults, surplus, leftover, load>>

PutQuantity ==
  /\ mpc = "put" /\ quantity[cmd.arg] > 0 /\ GoOn("group-wait")
  /\ counter' = Append(counter, quantity[cmd.arg])
  /\ UNCHANGED <<sem, topicDone, books, tpc, cur, done, stop, subs, mail, history>>

\* KeyError: the user has become a member by another client.
GroupNotCounted ==
  /\ mpc = "put" /\ quantity[cmd.arg] = 0
  /\ Except /\ surplus' = surplus + 1 /\ UNCHANGED <<leftover, faults>>

GroupWaitEnds ==
  /\ mpc = "group-wait" /\ GoOn("drain")
  /\ topicDone' = FALSE
  /\ calm' = (calm /\ topicDone)
  /\ UNCHANGED <<sem, counter, books, tpc, cur, done, stop, subs, mail,
                 faults, surplus, leftover, load>>

DrainCounter ==
  /\ mpc = "drain" /\ counter # <<>> /\ GoOn("take")
  /\ counter' = Front(counter)
  /\ UNCHANGED <<sem, topicDone, books, tpc, cur, done, stop, subs, mail, history>>

\* A thread holds the counter: get_nowait raises Empty, a name the module does
\* not import, so that the except clause itself raises a NameError.
CounterAway ==
  /\ mpc = "drain" /\ counter = <<>>
  /\ Except /\ surplus' = surplus + 1 /\ leftover' = leftover + 1
  /\ UNCHANGED faults

\* acquire(), and acquire(2), which is a blocking acquire too.
TakeSemaphore ==
  /\ mpc = "take" /\ sem > 0
  /\ sem' = sem - 1
  /\ Finish /\ UNCHANGED <<books, tpc, done, stop, subs>>

\* exit: the threads are stopped and joined one after the other.
Exit ==
  /\ mpc = "idle" /\ Bounds("exit") /\ GoOn("exit")
  /\ UNCHANGED <<sem, counter, topicDone, books, tpc, cur, done, stop, subs, mail, history>>
ExitStop(u) ==
  /\ mpc = "exit" /\ Local(u)
  /\ stop' = [stop EXCEPT ![u] = "exit"]
  /\ mpc' = "exit-join" /\ cmd' = [cmd EXCEPT !.who = u]
  /\ UNCHANGED <<shared, books, tpc, cur, held, done, subs, mail, member, history>>
ExitJoin ==
  /\ mpc = "exit-join" /\ Joined(cmd.who)
  /\ mpc' = "exit" /\ cmd' = NoCommand
  /\ UNCHANGED <<shared, books, cur, held, subs, mail, member, history>>
\* The process has ended; it is started again.
StartAgain ==
  /\ mpc = "exit" /\ \A u \in Users : ~Local(u)
  /\ mpc' = "idle" /\ cmd' = NoCommand
  /\ event' = FALSE /\ sem' = 0 /\ counter' = <<>> /\ topicDone' = FALSE
  /\ quantity' = [g \in Groups |-> 0] /\ joined' = [u \in Users |-> {}]
  /\ surplus' = 0 /\ leftover' = 0
  /\ UNCHANGED <<tpc, cur, held, done, stop, subs, mail, member, faults, calm, load>>

----------------------------------------------------------------------------
(* The servers and RabbitMQ *)

\* u's personal queue is bound to the exchange.
Bound(u) == tpc[u] \notin {"off", "starting", "dead", "ended"}
PublishPrivate(u, age) ==
  Bound(u) /\ priv' = [priv EXCEPT ![u] = Append(@, age)] /\ pub' = pub
PublishPublic(g, age) ==
  /\ priv' = priv
  /\ pub' = [u \in Users |-> IF g \in subs[u] /\ Bound(u)
                             THEN [pub[u] EXCEPT ![g] = Append(@, age)] ELSE pub[u]]

\* The server answers, if it got anything (an empty line sends nothing, and both
\* sides are in recv).  A direct message may also go to another client of the
\* same user, which shares the personal queue; and what the server has accepted
\* is never published once its own AMQP thread has died.
Serve ==
  LET u == cmd.who
      x == cmd.arg IN
    /\ mpc = "sent" /\ cmd.kind # "empty" /\ mpc' = "replied"
    /\ \/ cmd' = cmd /\ UNCHANGED <<mail, member>>
       \/ /\ cmd' = [cmd EXCEPT !.ok = TRUE]
          /\ \/ cmd.kind \in {"login", "logout", "other"} /\ UNCHANGED <<mail, member>>
             \/ /\ cmd.kind = "delete" /\ UNCHANGED mail
                /\ member' = [member EXCEPT ![u] = {}]
             \/ /\ cmd.kind = "join-group" /\ x \notin member[u] /\ UNCHANGED mail
                /\ member' = [member EXCEPT ![u] = @ \cup {x}]
             \/ /\ cmd.kind = "send" /\ x # u /\ UNCHANGED member
                /\ PublishPrivate(x, "early") \/ UNCHANGED mail
             \/ /\ cmd.kind = "send-group" /\ x \in member[u] /\ UNCHANGED member
                /\ PublishPublic(x, "early") \/ UNCHANGED mail
    /\ UNCHANGED <<shared, books, tpc, cur, held, done, stop, subs, history>>

\* Another client writes to a user here, or to a group.
RemoteMessage ==
  /\ Fault /\ calm' = FALSE
  /\ \/ \E u \in Users : PublishPrivate(u, "other")
     \/ \E g \in Groups : PublishPublic(g, "other")
  /\ UNCHANGED <<main, shared, books, tpc, cur, held, done, stop, subs, member,
                 surplus, leftover, load>>

\* Another client logged in as the same user joins a group.
JoinElsewhere(u, g) ==
  /\ mpc = "idle" /\ Fault
  /\ g \notin member[u] /\ member' = [member EXCEPT ![u] = @ \cup {g}]
  /\ UNCHANGED <<main, shared, books, tpc, cur, held, done, stop, subs, mail,
                 surplus, leftover, calm, load>>

----------------------------------------------------------------------------
(* u's AMQP thread *)

Move(u, place, next) ==
  /\ tpc[u] = place /\ tpc' = [tpc EXCEPT ![u] = next]
  /\ UNCHANGED <<main, event, books, stop, member, load>>
At(u, place, next) ==
  Move(u, place, next) /\ UNCHANGED <<faults, surplus, leftover, calm>>

Run(u) ==
  /\ At(u, "starting", "on")
  /\ UNCHANGED <<sem, counter, topicDone, cur, held, done, subs, mail>>

\* RabbitMQ refuses the connection.
RunFails(u) ==
  /\ Fault /\ Move(u, "starting", "dead")
  /\ UNCHANGED <<sem, counter, topicDone, cur, held, done, subs, mail, surplus,
                 leftover, calm>>

\* A message is acknowledged, and the event looked at.
Receive(u) ==
  /\ At(u, "on", IF event THEN "acquire" ELSE "print")
  /\ \/ /\ priv[u] # <<>>
        /\ cur' = [cur EXCEPT ![u] = [kind |-> "private", age |-> Head(priv[u])]]
        /\ priv' = [priv EXCEPT ![u] = Tail(@)] /\ pub' = pub
     \/ \E g \in Groups :
          /\ pub[u][g] # <<>>
          /\ cur' = [cur EXCEPT ![u] = [kind |-> "public", age |-> Head(pub[u][g])]]
          /\ pub' = [pub EXCEPT ![u][g] = Tail(@)] /\ priv' = priv
  /\ UNCHANGED <<sem, counter, topicDone, held, done, subs>>

Acquire(u) ==
  /\ At(u, "acquire", "release")
  /\ sem > 0 /\ sem' = sem - 1
  /\ UNCHANGED <<counter, topicDone, cur, held, done, subs, mail>>

\* Mutant: the thread keeps the semaphore.
ReleaseNothing(u) ==
  /\ At(u, "release", "print")
  /\ UNCHANGED <<sem, counter, topicDone, cur, held, done, subs, mail>>
Release(u) ==
  /\ At(u, "release", "print")
  /\ sem' = sem + 1
  /\ UNCHANGED <<counter, topicDone, cur, held, done, subs, mail>>

\* The message is printed, and the event looked at again.
PrintMessage(u) ==
  /\ At(u, "print", IF ~event THEN "on"
                    ELSE IF cur[u].kind = "private" THEN "set-done" ELSE "get")
  /\ cur' = [cur EXCEPT ![u] = NoMessage]
  /\ UNCHANGED <<sem, counter, topicDone, held, done, subs, mail>>

SetDone(u) ==
  /\ At(u, "set-done", "on")
  /\ done' = [done EXCEPT ![u] = TRUE]
  /\ UNCHANGED <<sem, counter, topicDone, cur, held, subs, mail>>

GetCounter(u) ==
  /\ counter # <<>> /\ counter' = Front(counter)
  /\ held' = [held EXCEPT ![u] = Last(counter) - 1]
  /\ At(u, "get", IF Last(counter) = 1 THEN "set-topic-done" ELSE "put-back")
  /\ UNCHANGED <<sem, topicDone, cur, done, subs, mail>>

SetTopicDone(u) ==
  /\ At(u, "set-topic-done", "put-back")
  /\ topicDone' = TRUE
  /\ UNCHANGED <<sem, counter, cur, held, done, subs, mail>>

\* Mutant: the counter is not put back.
PutNothing(u) ==
  /\ At(u, "put-back", "on")
  /\ held' = [held EXCEPT ![u] = 0]
  /\ UNCHANGED <<sem, counter, topicDone, cur, done, subs, mail>>
PutCounter(u) ==
  /\ At(u, "put-back", "on")
  /\ counter' = Append(counter, IF held[u] > 0 THEN held[u] ELSE 0)
  /\ held' = [held EXCEPT ![u] = 0]
  /\ UNCHANGED <<sem, topicDone, cur, done, subs, mail>>

\* The stop callback runs between two messages; the personal queue is unbound,
\* and deleted with the account.  The queues of the groups are exclusive.
StopConsuming(u) ==
  /\ stop[u] # "no" /\ At(u, "on", "ended")
  /\ subs' = [subs EXCEPT ![u] = {}]
  /\ pub' = [pub EXCEPT ![u] = Nothing[u]]
  /\ priv' = IF stop[u] = "delete" THEN [priv EXCEPT ![u] = <<>>] ELSE priv
  /\ UNCHANGED <<sem, counter, topicDone, cur, held, done>>

----------------------------------------------------------------------------
\* The main thread's own steps; the answer is the server's.
OwnStep ==
  \/ ShowAnswer \/ ShowLogin \/ CountTopics \/ ShowLogout \/ JoinThread
  \/ ShowJoinGroup \/ ShowSend \/ WaitEnds \/ ShowSendGroup \/ PutQuantity
  \/ GroupNotCounted \/ GroupWaitEnds \/ DrainCounter \/ CounterAway
  \/ TakeSemaphore \/ ExitJoin \/ StartAgain \/ \E u \in Users : ExitStop(u)
MainStep == Serve \/ OwnStep
ThreadStep(u) ==
  \/ Run(u) \/ Receive(u) \/ Acquire(u) \/ Release(u) \/ PrintMessage(u) \/ SetDone(u)
  \/ GetCounter(u) \/ SetTopicDone(u) \/ PutCounter(u) \/ StopConsuming(u)
Environment ==
  \/ \E c \in Commands : ReadCommand(c)
  \/ Exit \/ ConnectionFails \/ RemoteMessage
  \/ \E u \in Users : RunFails(u) \/ \E g \in Groups : JoinElsewhere(u, g)

Next == MainStep \/ Environment \/ \E u \in Users : ThreadStep(u)
Spec == Init /\ [][Next]_vars
\* The client's threads are scheduled.  Nothing makes a server answer.
FairSpec == Spec /\ WF_vars(OwnStep) /\ \A u \in Users : WF_vars(ThreadStep(u))

----------------------------------------------------------------------------
(* Properties *)

\* What is released is taken back and what is taken from the counter queue is
\* put back: outside of a send and a send-group the semaphore is back at 0
\* and the queue is empty, as the comments of __show_result want it, but for
\* what the exceptions GroupNotCounted and CounterAway leave behind.
Window(places) == IF mpc \in places THEN 1 ELSE 0
Holders(places) == Cardinality({u \in Users : tpc[u] \in places})
TokensConserved ==
  /\ sem + Holders({"release"})
       = surplus + Window({"wait", "put", "group-wait", "drain", "take"})
  /\ Len(counter) + Holders({"set-topic-done", "put-back"})
       = leftover + Window({"group-wait", "drain"})

\* The answer to a command is shown before the message the command sent, unless
\* an exception has left the semaphore open.
EchoAfterReply ==
  \A u \in Users : tpc[u] = "print" /\ cur[u].age = "early" => surplus > 0

\* When a wait ends because the event was set, every local copy of the message
\* has been printed, as long as nothing has gone wrong and nobody else has
\* written: the counter, started at the number of local members, is passed on
\* from thread to thread and not from an older message.
WaitedFor == \/ mpc = "wait" /\ done[cmd.arg]
             \/ mpc = "group-wait" /\ topicDone
Unprinted(u) ==
  \/ cur[u].age = "due"
  \/ \E i \in DOMAIN priv[u] : priv[u][i] = "due"
  \/ \E g \in Groups : \E i \in DOMAIN pub[u][g] : pub[u][g][i] = "due"
DoneMeansPrinted ==
  [][calm /\ WaitedFor /\ mpc' # mpc => \A u \in Users : ~Unprinted(u)]_vars

\* Whatever fails and whatever others send, the client comes back to the next
\* command, unless it is stuck for good in one of three places: in recv, which
\* has no time-out, for a server that has nothing to answer (an empty line) or
\* nobody to answer (its main thread has died, the other one keeps the socket
\* open); waiting for a thread to start whose connection was refused; or joining
\* a thread that waits for the semaphore or the counter.  The waits for printed
\* messages, the exceptions and exit itself are never the end.
Stuck ==
  \/ mpc = "sent"
  \/ mpc = "launch" /\ tpc[cmd.who] = "dead"
  \/ /\ mpc \in {"join", "exit-join"}
     /\ \/ tpc[cmd.who] = "acquire" /\ sem = 0
        \/ tpc[cmd.who] = "get" /\ counter = <<>>
CommandEnds == []<>(mpc = "idle") \/ <>[]Stuck

\* "Call cleaner to notify the thread to terminate" (client_amqp.py:126): the
\* join of logout and delete returns.  Violated: the thread may be waiting for
\* the semaphore, which only the main thread would release.
LogoutEnds == mpc = "join" ~> mpc = "idle"
=============================================================================
