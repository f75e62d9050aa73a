------------------------------- MODULE Delivery -------------------------------
(***************************************************************************)
(* The way of a message in Project_5: an application server answers        *)
(* "Success!" when the message is in its task queue, its AMQP thread       *)
(* publishes it, RabbitMQ routes it to the receiver's personal queue or to *)
(* the exclusive queues of a group, and an AMQP thread of the receiver's   *)
(* client prints it.  Client has what the threads of one client do to each *)
(* other; here several clients log in and out, are killed and come back,   *)
(* possibly as the same user.  Everybody is everybody's friend (SocialNet  *)
(* has the checks).                                                        *)
(***************************************************************************)
EXTENDS Naturals, Sequences, FiniteSets, SequencesExt

CONSTANTS Users, Groups, Clients, Servers, NoOne, NoServer, MaxSends,
          Workloads   \* which servers run, who uses which client (seats), who
                      \* sends (writers), kinds of commands; bounds: messages
                      \* (sends), sessions ended, killed or spoiled (ends)

ASSUME DeliveryAssumption ==
  /\ NoOne \notin Users /\ NoServer \notin Servers /\ Users \cap Groups = {}
  /\ \A w \in Workloads : /\ w.sends \in 0..MaxSends /\ w.ends \in Nat
                           /\ w.seats \subseteq Clients \X Users
                           /\ w.servers \subseteq Servers

VARIABLES
  logins, home,  \* the login server's records, and the server of a user
  member,        \* the groups of a user, in MongoDB
  sent,          \* history: the messages answered with "Success!"; the other
                 \* variables name a message by its place in here
  tasks, amqp,   \* a server's __task_queue, and whether its AMQP thread lives
  exchange,      \* groups whose exchange has been declared
  bound, queue,  \* a user's personal queue: bound? and what no consumer has
  live,          \* live[c]: users for whom c has a token that is still good
  todo,          \* todo[c]: what c's main thread does about an answer
  place,         \* place[c][u]: place of c's AMQP thread for u
  subs,          \* subs[c][u]: the groups this thread has a queue for
  inbox, cur,    \* messages delivered to it, and the one it has acknowledged
  got,           \* history: what u's clients have printed
  shared,        \* history: users with threads in two clients at once
  skipped,       \* history: a subscription to a group has failed
  terminated,    \* history: servers that have got a terminate command
  ends, load     \* logouts, exits, kills, failures and terminates so far; the
                 \* workload

store   == <<logins, home, member>>
server  == <<tasks, amqp, terminated>>
broker  == <<exchange, bound, queue>>
thread  == <<place, subs, inbox, cur>>
history == <<sent, got, shared, skipped, load>>
vars == <<store, server, broker, live, todo, thread, ends, history>>

Nothing == [kind |-> "none", who |-> NoOne, arg |-> NoOne]
Each(x) == [c \in Clients |-> [u \in Users |-> x]]
Init ==
  /\ logins = {} /\ home = [u \in Users |-> NoServer]
  /\ member = [u \in Users |-> {}]
  /\ tasks = [s \in Servers |-> <<>>] /\ amqp = [s \in Servers |-> "on"]
  /\ terminated = {}
  /\ exchange = {} /\ bound = {} /\ queue = [u \in Users |-> <<>>]
  /\ live = [c \in Clients |-> {}] /\ todo = [c \in Clients |-> Nothing]
  /\ place = Each("off") /\ subs = Each({}) /\ inbox = Each(<<>>) /\ cur = Each(0)
  /\ sent = <<>> /\ got = [u \in Users |-> <<>>]
  /\ shared = {} /\ skipped = FALSE
  /\ ends = 0 /\ load \in Workloads

----------------------------------------------------------------------------
(* Commands: the server's handler, and what the client makes of the answer *)

End == ends < load.ends /\ ends' = ends + 1
Ready(c, kind) == todo[c] = Nothing /\ kind \in load.commands
Do(c, kind, u, g) == todo' = [todo EXCEPT ![c] = [kind |-> kind, who |-> u, arg |-> g]]
Done(c) == todo' = [todo EXCEPT ![c] = Nothing]

\* A user who is logged in is sent to the same server again.  The client starts
\* a thread, unless it still has one for this user.
Login(c, u) ==
  /\ Ready(c, "login") /\ <<c, u>> \in load.seats
  /\ logins' = logins \cup {u}
  /\ IF u \in logins THEN home' = home
     ELSE \E s \in load.servers : home' = [home EXCEPT ![u] = s]
  /\ live' = [live EXCEPT ![c] = @ \cup {u}]
  /\ IF place[c][u] # "off" THEN UNCHANGED <<todo, thread, shared>>
     ELSE /\ Do(c, "start", u, NoOne)
          /\ place' = [place EXCEPT ![c][u] = "starting"]
          /\ subs' = [subs EXCEPT ![c][u] = member[u]]
          /\ shared' = shared \cup {w \in {u} : \E d \in Clients : place[d][u] # "off"}
          /\ UNCHANGED <<inbox, cur>>
  /\ UNCHANGED <<member, server, broker, ends, sent, got, skipped, load>>

\* The record and with it every token of u; the cleaner stops the thread.
Logout(c, u) ==
  /\ Ready(c, "logout") /\ u \in live[c] /\ End
  /\ logins' = logins \ {u} /\ home' = [home EXCEPT ![u] = NoServer]
  /\ live' = [d \in Clients |-> live[d] \ {u}]
  /\ Do(c, "stop", u, NoOne)
  /\ UNCHANGED <<member, server, broker, thread, history>>

\* create-group and join-group.
JoinGroup(c, u, g) ==
  /\ Ready(c, "join-group") /\ u \in live[c] /\ g \notin member[u]
  /\ member' = [member EXCEPT ![u] = @ \cup {g}]
  /\ Do(c, "subscribe", u, g)
  /\ UNCHANGED <<logins, home, server, broker, live, thread, ends, history>>

PutTask(c, kind, u, x) ==
  /\ Ready(c, kind) /\ u \in live[c]
  /\ u \in load.writers /\ Len(sent) < load.sends
  /\ sent' = Append(sent, [from |-> u, to |-> x, via |-> home[u]])
  /\ tasks' = [tasks EXCEPT ![home[u]] = Append(@, Len(sent) + 1)]
  /\ UNCHANGED <<store, amqp, terminated, broker, live, todo, thread, ends, got,
                 shared, skipped, load>>
Send(c, u, v) == v \in logins \ {u} /\ PutTask(c, "send", u, v)
\* Mutant: the membership is not looked up.
SendGroupUnchecked(c, u, g) == PutTask(c, "send-group", u, g)
SendGroup(c, u, g) == g \in member[u] /\ PutTask(c, "send-group", u, g)

\* The main thread subscribes to the group; the answer is lost if that fails.
SubscribeGroup(c) ==
  LET u == todo[c].who IN
    /\ todo[c].kind = "subscribe" /\ Done(c)
    /\ exchange' = exchange \cup {todo[c].arg}
    /\ subs' = [subs EXCEPT ![c][u] = @ \cup {todo[c].arg}]
    /\ UNCHANGED <<store, server, bound, queue, live, place, inbox, cur, ends, history>>
SubscribeFails(c) ==
  /\ todo[c].kind = "subscribe" /\ Done(c)
  /\ End
  /\ skipped' = TRUE
  /\ UNCHANGED <<store, server, broker, live, thread, sent, got, shared, load>>

\* exit: the threads are stopped one after the other, nobody is logged out.
Exit(c) ==
  /\ Ready(c, "exit") /\ End /\ \E u \in Users : place[c][u] # "off"
  /\ live' = [live EXCEPT ![c] = {}]
  /\ Do(c, "exit", NoOne, NoOne)
  /\ UNCHANGED <<store, server, broker, thread, history>>
ExitNext(c) ==
  /\ todo[c] = [Nothing EXCEPT !.kind = "exit"]
  /\ LET left == {u \in Users : place[c][u] # "off"} IN
       IF left = {} THEN Done(c) ELSE \E u \in left : Do(c, "exit", u, NoOne)
  /\ UNCHANGED <<store, server, broker, live, thread, ends, history>>

----------------------------------------------------------------------------
(* A server's AMQP thread, and RabbitMQ *)

Consumers(u) == {c \in Clients : place[c][u] \in {"on", "printing"}}
\* What is in nobody's hands goes to one of the consumers.
Route(u, ids, from) ==
  IF from = {} THEN /\ queue' = [queue EXCEPT ![u] = @ \o ids] /\ inbox' = inbox
  ELSE /\ queue' = queue
       /\ \E c \in from : inbox' = [inbox EXCEPT ![c][u] = @ \o ids]
Drop == UNCHANGED <<queue, inbox>>

\* To the personal queue if it is bound, to the queues of a group's consumers.
Published(s, id) ==
  LET x == sent[id].to IN
    IF x \in Users
    THEN /\ IF x \in bound THEN Route(x, <<id>>, Consumers(x)) ELSE Drop
         /\ amqp' = amqp
    ELSE /\ inbox' = [c \in Clients |-> [u \in Users |->
                        IF x \in subs[c][u] /\ c \in Consumers(u)
                        THEN Append(inbox[c][u], id) ELSE inbox[c][u]]]
         /\ queue' = queue
         \* To an exchange that does not exist: the broker closes the channel.
         /\ amqp' = IF x \in exchange THEN amqp ELSE [amqp EXCEPT ![s] = "dead"]

\* Mutant: a LIFO queue, like the client's.
PublishLast(s) ==
  /\ amqp[s] = "on" /\ tasks[s] # <<>>
  /\ tasks' = [tasks EXCEPT ![s] = Front(@)]
  /\ Published(s, Last(tasks[s]))
  /\ UNCHANGED <<store, terminated, exchange, bound, live, todo, place, subs, cur,
                 ends, history>>
Publish(s) ==
  /\ amqp[s] = "on" /\ tasks[s] # <<>>
  /\ tasks' = [tasks EXCEPT ![s] = Tail(@)]
  /\ Published(s, Head(tasks[s]))
  /\ UNCHANGED <<store, terminated, exchange, bound, live, todo, place, subs, cur,
                 ends, history>>

\* A terminate command, from a client or from anybody else: the handler asks for
\* no token and does not look who is still mapped to the server.  It closes the
\* connection under the AMQP thread, whose next use of it ends the thread (and
\* loses a task, if it has just taken one, as surely as those that stay).
Terminate(s) ==
  /\ "terminate" \in load.commands /\ s \in load.servers
  /\ amqp[s] = "on" /\ End
  /\ amqp' = [amqp EXCEPT ![s] = "dead"] /\ terminated' = terminated \cup {s}
  /\ UNCHANGED <<store, tasks, broker, live, todo, thread, history>>

\* The instance nobody is mapped to is terminated; another one may be launched.
Retire(s) ==
  /\ \A u \in Users : home[u] # s
  /\ tasks[s] # <<>> \/ amqp[s] = "dead"
  /\ tasks' = [tasks EXCEPT ![s] = <<>>] /\ amqp' = [amqp EXCEPT ![s] = "on"]
  /\ terminated' = terminated \ {s}
  /\ UNCHANGED <<store, broker, live, todo, thread, ends, history>>

----------------------------------------------------------------------------
(* c's AMQP thread for u *)

Move(c, u, from, to) == place[c][u] = from /\ place' = [place EXCEPT ![c][u] = to]

\* Mutant: the personal queue is not bound.
SubscribeUnbound(c, u) ==
  /\ Move(c, u, "starting", "on") /\ Done(c)
  /\ exchange' = exchange \cup subs[c][u]
  /\ queue' = [queue EXCEPT ![u] = <<>>]
  /\ inbox' = [inbox EXCEPT ![c][u] = queue[u]]
  /\ UNCHANGED <<store, server, bound, live, subs, cur, ends, history>>
\* The start of run: queues and exchanges are declared, bound and consumed.
Subscribe(c, u) ==
  /\ Move(c, u, "starting", "on") /\ Done(c)
  /\ exchange' = exchange \cup subs[c][u]
  /\ bound' = bound \cup {u}
  /\ queue' = [queue EXCEPT ![u] = <<>>]
  /\ inbox' = [inbox EXCEPT ![c][u] = queue[u]]
  /\ UNCHANGED <<store, server, live, subs, cur, ends, history>>

\* A message is acknowledged, before it is printed.
Receive(c, u) ==
  /\ Move(c, u, "on", "printing") /\ inbox[c][u] # <<>>
  /\ cur' = [cur EXCEPT ![c][u] = Head(inbox[c][u])]
  /\ inbox' = [inbox EXCEPT ![c][u] = Tail(@)]
  /\ UNCHANGED <<store, server, broker, live, todo, subs, ends, history>>
\* When the client runs a command, the thread first waits for the semaphore,
\* which a later send of this client opens, or none does (Client).
PrintMessage(c, u) ==
  /\ Move(c, u, "printing", "on")
  /\ got' = [got EXCEPT ![u] = Append(@, cur[c][u])]
  /\ cur' = [cur EXCEPT ![c][u] = 0]
  /\ UNCHANGED <<store, server, broker, live, todo, subs, inbox, ends, sent,
                 shared, skipped, load>>

\* The messages of ids that came from the personal queue, in their order.
Private(ids) ==
  LET mine    == {i \in DOMAIN ids : sent[ids[i]].to \in Users}
      rank(i) == Cardinality({j \in mine : j <= i})
  IN  [k \in 1..Cardinality(mine) |-> ids[CHOOSE i \in mine : rank(i) = k]]
\* Consuming is cancelled: what is not acknowledged goes back to the queue.
StopConsuming(c, u) ==
  /\ Move(c, u, "on", "unbind")
  /\ todo[c].kind \in {"stop", "exit"} /\ todo[c].who = u
  /\ LET back == [inbox EXCEPT ![c][u] = <<>>]
         ids == Private(inbox[c][u])
         others == Consumers(u) \ {c} IN
       IF others = {} THEN queue' = [queue EXCEPT ![u] = ids] /\ inbox' = back
       ELSE \E d \in others :
              queue' = queue /\ inbox' = [back EXCEPT ![d][u] = @ \o ids]
  /\ UNCHANGED <<store, server, exchange, bound, live, todo, subs, cur, ends, history>>

\* The personal queue is unbound and stays; the main thread has joined.
Unbind(c, u) ==
  /\ Move(c, u, "unbind", "off")
  /\ bound' = bound \ {u}
  /\ subs' = [subs EXCEPT ![c][u] = {}]
  /\ IF todo[c].kind = "stop" THEN Done(c) ELSE Do(c, "exit", NoOne, NoOne)
  /\ UNCHANGED <<store, server, exchange, queue, live, inbox, cur, ends, history>>

\* The client is killed: the bindings stay, what it has not acknowledged is
\* queued again, what it has acknowledged and not printed is lost.
Kill(c) ==
  /\ End
  /\ \E u \in Users : place[c][u] # "off"
  /\ place' = [place EXCEPT ![c] = [u \in Users |-> "off"]]
  /\ subs' = [subs EXCEPT ![c] = [u \in Users |-> {}]]
  /\ cur' = [cur EXCEPT ![c] = [u \in Users |-> 0]]
  /\ live' = [live EXCEPT ![c] = {}] /\ Done(c)
  /\ \E heir \in [Users -> Clients] :
       /\ \A u \in Users : Consumers(u) \subseteq {c} \/ heir[u] \in Consumers(u) \ {c}
       /\ inbox' = [d \in Clients |-> [u \in Users |->
                     IF d = c THEN <<>>
                     ELSE IF d = heir[u] /\ d \in Consumers(u)
                     THEN inbox[d][u] \o Private(inbox[c][u])
                     ELSE inbox[d][u]]]
  /\ queue' = [u \in Users |->
                IF Consumers(u) = {c} THEN Private(inbox[c][u]) ELSE queue[u]]
  /\ UNCHANGED <<store, server, exchange, bound, history>>

----------------------------------------------------------------------------
ThreadStep(c, u) ==
  \/ Subscribe(c, u) \/ Receive(c, u) \/ PrintMessage(c, u)
  \/ StopConsuming(c, u) \/ Unbind(c, u)
Command(c) ==
  \/ \E u \in Users : Login(c, u) \/ Logout(c, u)
  \/ \E u, v \in Users : Send(c, u, v)
  \/ \E u \in Users, g \in Groups : JoinGroup(c, u, g) \/ SendGroup(c, u, g)
  \/ Exit(c)

Next ==
  \/ \E c \in Clients :
       \/ Command(c) \/ SubscribeGroup(c) \/ SubscribeFails(c) \/ ExitNext(c) \/ Kill(c)
       \/ \E u \in Users : ThreadStep(c, u)
  \/ \E s \in Servers : Publish(s) \/ Terminate(s) \/ Retire(s)
Spec == Init /\ [][Next]_vars
\* The servers' AMQP threads are scheduled, and so is a client's thread that
\* waits for messages.
FairSpec ==
  /\ Spec
  /\ \A s \in Servers : WF_vars(Publish(s))
  /\ \A c \in Clients, u \in Users : WF_vars(Receive(c, u))

----------------------------------------------------------------------------
(* Properties *)

\* What a server has accepted for somebody is printed there at most once and in
\* the order of the answers, whoever sent it, across logins, logouts and kills,
\* as long as the user has not been in two clients at once.
PrintedInOrder ==
  \A u \in Users \ shared : \A i, j \in DOMAIN got[u] :
    i < j /\ sent[got[u][i]].via = sent[got[u][j]].via => got[u][i] < got[u][j]

\* No message ends a server's AMQP thread, and with it the delivery of every
\* later one: a group that can be written to has an exchange, although servers
\* record members and clients declare exchanges.  What does end the thread is a
\* terminate command, whoever sends it and whoever is logged in; a message to a
\* group after a client could not subscribe to it; or one to a group that another
\* client of the same user has yet to declare.
ServerThreadLives ==
  \A s \in Servers :
    amqp[s] = "dead" => s \in terminated \/ skipped \/ shared # {}

\* A message accepted for a listening user reaches the thread that prints it:
\* the server's thread, the binding of the personal queue and the client's
\* thread hold together, through other users' logins, logouts and kills, for as
\* long as the sender stays, nobody has shared the user, and the thread is not
\* held up at the semaphore by an earlier message.
InFlight(id, u) ==
  \/ \E s \in Servers : \E i \in DOMAIN tasks[s] : tasks[s][i] = id
  \/ \E c \in Clients : \E i \in DOMAIN inbox[c][u] : inbox[c][u][i] = id
Taken(id, u) ==
  \/ \E c \in Clients : cur[c][u] = id
  \/ \E i \in DOMAIN got[u] : got[u][i] = id
Steady(id, u) ==
  /\ id <= Len(sent) /\ u \notin shared
  /\ home[sent[id].from] = sent[id].via /\ amqp[sent[id].via] = "on"
  /\ \E c \in Clients :
       /\ place[c][u] = "on" /\ todo[c].kind \notin {"stop", "exit"}
       /\ sent[id].to \in {u} \cup subs[c][u]
ListenersReceive ==
  \A id \in 1..MaxSends, u \in Users :
    Steady(id, u) /\ InFlight(id, u) ~> Taken(id, u) \/ ~Steady(id, u)
=============================================================================
