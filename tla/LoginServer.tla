---------------------------- MODULE LoginServer ----------------------------
(***************************************************************************)
(* The login server of Project_5 (server/login_server.py) with the ack     *)
(* thread it starts, the EC2 instances it launches and retires, and the    *)
(* part of MongoDB it owns.  The server handles one request at a time      *)
(* (base_server.py, run): pc is the place its main thread has reached,     *)
(* and a handler takes as many steps as it has points where the ack        *)
(* thread, an instance, the operator or a failure can come between.        *)
(***************************************************************************)
EXTENDS Naturals, FiniteSets, SequencesExt

CONSTANTS Users,       \* the user names clients may send
          Instances,   \* the EC2 instance ids AWS may hand out
          NoUser, NoInstance,
          MaxUsers,    \* the literal 10: users one instance serves
          MaxStarts,   \* bound: how often the operator starts the program
          SlowBoot     \* TRUE: no instance acks before the ack queue exists

ASSUME ConstantAssumption ==
  /\ IsFiniteSet(Users) /\ NoUser \notin Users
  /\ NoInstance \notin Instances
  /\ MaxUsers \in Nat \ {0, 1}
  /\ MaxStarts \in Nat
  /\ SlowBoot \in BOOLEAN

VARIABLES
  users,       \* names in the Users collection
  loginUsers,  \* names in the LoginUsers collection (one record, one token each)
  pc,          \* place of the main thread
  cur,         \* the user whose request the main thread serves, or NoUser
  leaving,     \* used_instance_id while an emptied instance is retired
  pool,        \* keys of __application_ec2_instances_dict (and list, and quantity)
  stack,       \* __available_application_ec2_instances_stack, top last
  quantity,    \* __instances_and_its_quantity_mapping_dict (0 outside pool)
  assigned,    \* __users_and_instances_mapping_dict (NoInstance: no key)
  event,       \* __amqp_connection_established_acknowledgement_event
  ackThread,   \* the AcknowledgementThread: "off", "starting", "consuming"
  bound,       \* the queue login_server is declared and bound at the broker
  acks,        \* 'established' messages waiting in that queue
  vm,          \* EC2: "unused", "running" or "terminated"
  published,   \* instances whose AMQP connection is up and announced
  listening,   \* instances whose application server accepts connections
  issued,      \* the instance a live token's owner has been told to use
  starts       \* number of starts so far (bounded by MaxStarts)

memory == <<pool, stack, quantity, assigned>>
broker == <<bound, acks>>
ec2    == <<vm, published, listening>>
vars == <<users, loginUsers, pc, cur, leaving, memory, event, ackThread,
          broker, ec2, issued, starts>>

Handler == {"login", "create", "await", "clear", "unregister", "release",
            "disconnect", "retire", "reply"}
Alive == pc \in Handler \cup {"serving"}   \* the main thread runs
\* Still in LoginServer.__init__: not yet inside the try of __main__.
Constructing == pc \in {"create", "await", "clear"} /\ cur = NoUser

TypeOK ==
  /\ users \subseteq Users
  /\ loginUsers \subseteq Users
  /\ pc \in Handler \cup {"serving", "crashed", "down"}
  /\ cur \in Users \cup {NoUser}
  /\ leaving \in Instances \cup {NoInstance}
  /\ pool \subseteq Instances
  /\ stack \in Seq(Instances)
  /\ quantity \in [Instances -> 0..MaxUsers]
  /\ assigned \in [Users -> Instances \cup {NoInstance}]
  /\ event \in BOOLEAN
  /\ ackThread \in {"off", "starting", "consuming"}
  /\ bound \in BOOLEAN
  /\ acks \in Nat
  /\ vm \in [Instances -> {"unused", "running", "terminated"}]
  /\ published \subseteq Instances
  /\ listening \subseteq Instances
  /\ issued \in [Users -> Instances \cup {NoInstance}]
  /\ starts \in 0..MaxStarts

Init ==
  /\ users = {} /\ loginUsers = {}
  /\ pc = "down" /\ cur = NoUser /\ leaving = NoInstance
  /\ pool = {} /\ stack = <<>>
  /\ quantity = [i \in Instances |-> 0]
  /\ assigned = [u \in Users |-> NoInstance]
  /\ event = FALSE /\ ackThread = "off"
  /\ bound = FALSE /\ acks = 0
  /\ vm = [i \in Instances |-> "unused"]
  /\ published = {} /\ listening = {}
  /\ issued = [u \in Users |-> NoInstance]
  /\ starts = 0

Occupants(i) == {u \in Users : assigned[u] = i}
\* Bound: a launch happens only while an instance id is left.
IdsLeft == \E i \in Instances : vm[i] = "unused"

----------------------------------------------------------------------------
(* Starting and stopping the program *)

Start ==
  /\ pc = "down" /\ starts < MaxStarts /\ IdsLeft
  /\ pc' = "create"
  /\ ackThread' = "starting"
  /\ starts' = starts + 1
  /\ UNCHANGED <<users, loginUsers, cur, leaving, memory, event, broker, ec2, issued>>

\* What the main thread held is gone with it.
LoseMemory ==
  /\ cur' = NoUser /\ leaving' = NoInstance
  /\ pool' = {} /\ stack' = <<>>
  /\ quantity' = [i \in Instances |-> 0]
  /\ assigned' = [u \in Users |-> NoInstance]
  /\ event' = FALSE

\* An exception nobody catches ends the main thread; the ack thread, which is
\* not a daemon, keeps the process alive and keeps consuming.
MainThreadDies ==
  /\ pc' = "crashed"
  /\ LoseMemory
  /\ UNCHANGED <<users, loginUsers, ackThread, broker, ec2, issued, starts>>

\* The process is killed, or killed off after a crash, to be started again.
Kill ==
  /\ pc # "down" /\ starts < MaxStarts
  /\ pc' = "down" /\ ackThread' = "off"
  /\ LoseMemory
  /\ UNCHANGED <<users, loginUsers, broker, ec2, issued, starts>>

\* Mutant: the cleaner does not look at the number of users.
AllAvailable == ToSet(stack)
EmptyAvailable == {i \in ToSet(stack) : quantity[i] = 0}

\* Ctrl-C inside run(): the cleaner stops the ack thread, which unbinds its queue
\* before it ends, and terminates the available instances nobody uses.
Interrupt ==
  /\ Alive /\ ~Constructing /\ starts < MaxStarts
  /\ pc' = "down" /\ ackThread' = "off" /\ bound' = FALSE
  /\ vm' = [i \in Instances |-> IF i \in EmptyAvailable THEN "terminated" ELSE vm[i]]
  /\ listening' = listening \ EmptyAvailable
  /\ LoseMemory
  /\ UNCHANGED <<users, loginUsers, acks, published, issued, starts>>

\* Ctrl-C inside the constructor is outside the try: the cleaner never runs.
InterruptConstructor ==
  /\ Constructing /\ starts < MaxStarts
  /\ MainThreadDies

----------------------------------------------------------------------------
(* Launching an instance: __create_instances(1) *)

\* EC2 runs a fresh instance and the server books it as available.
CreateInstance ==
  /\ pc = "create"
  /\ \E i \in Instances :
       /\ vm[i] = "unused"
       /\ vm' = [vm EXCEPT ![i] = "running"]
       /\ pool' = pool \cup {i}
       /\ stack' = Append(stack, i)
       /\ quantity' = [quantity EXCEPT ![i] = 0]
  /\ pc' = "await"
  /\ UNCHANGED <<users, loginUsers, cur, leaving, assigned, event, ackThread,
                 broker, published, listening, issued, starts>>

AwaitEvent ==
  /\ pc = "await" /\ event
  /\ pc' = "clear"
  /\ UNCHANGED <<users, loginUsers, cur, leaving, memory, event, ackThread,
                 broker, ec2, issued, starts>>

\* Mutant: the event stays set.
EventStaysSet ==
  /\ pc = "clear"
  /\ pc' = IF cur = NoUser THEN "serving" ELSE "login"
  /\ UNCHANGED <<users, loginUsers, cur, leaving, memory, event, ackThread, broker,
                 ec2, issued, starts>>
ClearEvent ==
  /\ pc = "clear"
  /\ event' = FALSE
  /\ pc' = IF cur = NoUser THEN "serving" ELSE "login"
  /\ UNCHANGED <<users, loginUsers, cur, leaving, memory, ackThread, broker,
                 ec2, issued, starts>>

----------------------------------------------------------------------------
(* Requests *)

Serve(u, next) ==
  /\ pc = "serving" /\ pc' = next
  /\ cur' = u

Register(u) ==
  /\ u \notin users
  /\ Serve(NoUser, "reply")
  /\ users' = users \cup {u}
  /\ UNCHANGED <<loginUsers, leaving, memory, event, ackThread, broker, ec2,
                 issued, starts>>

\* Every early return: a name in use, an unknown name or wrong password, a
\* dead token, a wrong number of words, a command only application servers do.
Refuse ==
  /\ Serve(NoUser, "reply")
  /\ UNCHANGED <<users, loginUsers, leaving, memory, event, ackThread, broker,
                 ec2, issued, starts>>

\* Mutant: each login launches an instance.
LoginAlwaysLaunches(u) ==
  /\ u \in users \ loginUsers
  /\ IdsLeft
  /\ Serve(u, "create")
  /\ loginUsers' = loginUsers \cup {u}
  /\ UNCHANGED <<users, leaving, memory, event, ackThread, broker, ec2,
                 issued, starts>>
\* login with the right password, no record: the record goes in first, and an
\* instance is looked for or launched after it.
LoginFirst(u) ==
  /\ u \in users \ loginUsers
  /\ stack # <<>> \/ IdsLeft
  /\ Serve(u, IF stack = <<>> THEN "create" ELSE "login")
  /\ loginUsers' = loginUsers \cup {u}
  /\ UNCHANGED <<users, leaving, memory, event, ackThread, broker, ec2,
                 issued, starts>>

\* The top of the stack takes the user, and is put back while it has room.
AssignInstance ==
  /\ pc = "login"
  /\ LET i == Last(stack) IN
       /\ assigned' = [assigned EXCEPT ![cur] = i]
       /\ quantity' = [quantity EXCEPT ![i] = @ + 1]
       /\ stack' = IF quantity[i] + 1 < MaxUsers THEN Append(Front(stack), i)
                                                 ELSE Front(stack)
  /\ pc' = "reply"
  /\ UNCHANGED <<users, loginUsers, cur, leaving, pool, event, ackThread,
                 broker, ec2, issued, starts>>

\* Mutant: a second login is given an instance of its own.
LoginAgainAnew(u) ==
  /\ u \in users \cap loginUsers
  /\ stack # <<>>
  /\ Serve(u, "login")
  /\ UNCHANGED <<users, loginUsers, leaving, memory, event, ackThread, broker,
                 ec2, issued, starts>>
\* login of a user who has a record: the same token, and the instance the
\* mapping names; the lookup raises KeyError when the mapping has no such user.
LoginAgain(u) ==
  /\ u \in users \cap loginUsers
  /\ assigned[u] # NoInstance
  /\ Serve(u, "reply")
  /\ UNCHANGED <<users, loginUsers, leaving, memory, event, ackThread, broker,
                 ec2, issued, starts>>

LoginAgainKeyError(u) ==
  /\ pc = "serving"
  /\ u \in users \cap loginUsers
  /\ assigned[u] = NoInstance
  /\ MainThreadDies

\* logout and delete with u's token: the record goes, and the token with it.
DropRecord(u, next) ==
  /\ u \in loginUsers
  /\ Serve(u, next)
  /\ loginUsers' = loginUsers \ {u}
  /\ issued' = [issued EXCEPT ![u] = NoInstance]
  /\ UNCHANGED <<users, leaving, memory, event, ackThread, broker, ec2, starts>>

Logout(u) == DropRecord(u, "release")
Delete(u) == DropRecord(u, "unregister")

\* Mutant: delete forgets the instance.
DeleteKeepingInstance ==
  /\ pc = "unregister"
  /\ users' = users \ {cur}
  /\ pc' = "reply"
  /\ UNCHANGED <<loginUsers, cur, leaving, memory, event, ackThread, broker,
                 ec2, issued, starts>>
DeleteUserRecord ==
  /\ pc = "unregister"
  /\ users' = users \ {cur}
  /\ pc' = "release"
  /\ UNCHANGED <<loginUsers, cur, leaving, memory, event, ackThread, broker,
                 ec2, issued, starts>>

\* Mutants of ReleaseInstance: when is the instance empty, when has it room?
ReleaseIf(IsEmpty(_), HasRoom(_)) ==
  /\ pc = "release"
  /\ LET i == assigned[cur]
         n == quantity[i] - 1 IN
       IF i = NoInstance
       THEN /\ pc' = "reply"
            /\ UNCHANGED <<memory, leaving>>
       ELSE /\ assigned' = [assigned EXCEPT ![cur] = NoInstance]
            /\ quantity' = [quantity EXCEPT ![i] = n]
            /\ stack' = IF HasRoom(n) THEN Append(stack, i) ELSE stack
            /\ leaving' = IF IsEmpty(n) THEN i ELSE NoInstance
            /\ pc' = IF IsEmpty(n) THEN "disconnect" ELSE "reply"
            /\ pool' = pool
  /\ UNCHANGED <<users, loginUsers, cur, event, ackThread, broker, ec2, issued, starts>>
ReleaseWithoutRoom == ReleaseIf(LAMBDA n : n = 0, LAMBDA n : n = MaxUsers)
ReleaseNeverEmpty  == ReleaseIf(LAMBDA n : FALSE, LAMBDA n : n = MaxUsers - 1)

\* The first half of __logout_delete_instance_handler: memory only.
ReleaseInstance ==
  /\ pc = "release"
  /\ LET i == assigned[cur]
         n == quantity[i] - 1 IN
       IF i = NoInstance
       THEN /\ pc' = "reply"
            /\ UNCHANGED <<memory, leaving>>
       ELSE /\ assigned' = [assigned EXCEPT ![cur] = NoInstance]
            /\ quantity' = [quantity EXCEPT ![i] = n]
            /\ stack' = IF n = MaxUsers - 1 THEN Append(stack, i) ELSE stack
            /\ leaving' = IF n = 0 THEN i ELSE NoInstance
            /\ pc' = IF n = 0 THEN "disconnect" ELSE "reply"
            /\ pool' = pool
  /\ UNCHANGED <<users, loginUsers, cur, event, ackThread, broker, ec2, issued, starts>>

\* The 'terminate' command to the emptied instance: connect raises when the
\* application server is not listening yet.
Disconnect ==
  /\ pc = "disconnect" /\ leaving \in listening
  /\ pc' = "retire"
  /\ UNCHANGED <<users, loginUsers, cur, leaving, memory, event, ackThread,
                 broker, ec2, issued, starts>>

DisconnectRefused ==
  /\ pc = "disconnect" /\ leaving \notin listening
  /\ MainThreadDies

\* Mutant: the books are closed, the instance is not terminated.
RetireOnPaper ==
  /\ pc = "retire"
  /\ stack' = RemoveFirst(stack, leaving)
  /\ pool' = pool \ {leaving}
  /\ quantity' = [quantity EXCEPT ![leaving] = 0]
  /\ leaving' = NoInstance
  /\ pc' = "reply"
  /\ UNCHANGED <<users, loginUsers, cur, assigned, event, ackThread, broker,
                 ec2, issued, starts>>
RetireInstance ==
  /\ pc = "retire"
  /\ vm' = [vm EXCEPT ![leaving] = "terminated"]
  /\ listening' = listening \ {leaving}
  /\ stack' = RemoveFirst(stack, leaving)
  /\ pool' = pool \ {leaving}
  /\ quantity' = [quantity EXCEPT ![leaving] = 0]
  /\ leaving' = NoInstance
  /\ pc' = "reply"
  /\ UNCHANGED <<users, loginUsers, cur, assigned, event, ackThread, broker,
                 published, issued, starts>>

\* A login's answer carries the instance; every other answer has none.
Reply ==
  /\ pc = "reply"
  /\ pc' = "serving" /\ cur' = NoUser
  /\ issued' = IF cur \in loginUsers THEN [issued EXCEPT ![cur] = assigned[cur]]
                                     ELSE issued
  /\ UNCHANGED <<users, loginUsers, leaving, memory, event, ackThread, broker,
                 ec2, starts>>

\* The client is gone: send or shutdown raises, and nobody catches it.
ReplyFails ==
  /\ pc = "reply"
  /\ MainThreadDies

----------------------------------------------------------------------------
(* The ack thread and the instances *)

DeclareAckQueue ==
  /\ ackThread = "starting"
  /\ ackThread' = "consuming" /\ bound' = TRUE
  /\ UNCHANGED <<users, loginUsers, pc, cur, leaving, memory, event, acks, ec2,
                 issued, starts>>

\* Mutant: the thread ends with its first message.
DeliverFirstAck ==
  /\ ackThread = "consuming" /\ acks > 0
  /\ acks' = acks - 1 /\ event' = TRUE /\ ackThread' = "off"
  /\ UNCHANGED <<users, loginUsers, pc, cur, leaving, memory, bound, ec2, issued,
                 starts>>
DeliverAck ==
  /\ ackThread = "consuming" /\ acks > 0
  /\ acks' = acks - 1 /\ event' = TRUE
  /\ UNCHANGED <<users, loginUsers, pc, cur, leaving, memory, ackThread, bound,
                 ec2, issued, starts>>

\* The application server's AMQP thread announces its connection; without a
\* bound queue the announcement is lost.
PublishEstablished(i) ==
  /\ vm[i] = "running" /\ i \notin published
  /\ SlowBoot => bound
  /\ published' = published \cup {i}
  /\ acks' = IF bound THEN acks + 1 ELSE acks
  /\ UNCHANGED <<users, loginUsers, pc, cur, leaving, memory, event, ackThread,
                 bound, vm, listening, issued, starts>>

\* Its main thread binds and listens, before or after the announcement.
Listen(i) ==
  /\ vm[i] = "running" /\ i \notin listening
  /\ listening' = listening \cup {i}
  /\ UNCHANGED <<users, loginUsers, pc, cur, leaving, memory, event, ackThread,
                 broker, vm, published, issued, starts>>

----------------------------------------------------------------------------
Request == \/ Refuse
           \/ \E u \in Users : \/ Register(u) \/ LoginFirst(u) \/ LoginAgain(u)
                               \/ LoginAgainKeyError(u) \/ Logout(u) \/ Delete(u)
\* The steps the main thread takes on its own once a request is accepted.
MainStep == \/ CreateInstance \/ AwaitEvent \/ ClearEvent \/ AssignInstance
            \/ DeleteUserRecord \/ ReleaseInstance \/ Disconnect
            \/ DisconnectRefused \/ RetireInstance \/ Reply
AckThreadStep == DeclareAckQueue \/ DeliverAck
InstanceStep(i) == PublishEstablished(i) \/ Listen(i)
Operator == Start \/ Kill \/ Interrupt \/ InterruptConstructor

Next == \/ Request \/ MainStep \/ ReplyFails \/ AckThreadStep \/ Operator
        \/ \E i \in Instances : InstanceStep(i)

Spec == Init /\ [][Next]_vars

\* Running threads run, and a launched instance boots: nothing is assumed of
\* the clients, of the operator, or of a failing reply.
Fairness ==
  /\ WF_vars(MainStep)
  /\ WF_vars(AckThreadStep)
  /\ \A i \in Instances : WF_vars(PublishEstablished(i)) /\ WF_vars(Listen(i))
FairSpec == Spec /\ Fairness
----------------------------------------------------------------------------
(* Properties *)

\* The four structures the pool is kept in always agree: the stack holds, once
\* each, exactly the instances with a free place, and an instance's quantity is
\* the number of users mapped to it (login_server.py 150-191 and 270-289).
BooksAgree ==
  /\ IsInjective(stack)
  /\ ToSet(stack) = {i \in pool : quantity[i] < MaxUsers}
  /\ \A i \in Instances : quantity[i] = Cardinality(Occupants(i))
  /\ \A u \in Users : assigned[u] \in pool \cup {NoInstance}

\* The instance a live token's owner was told to use is running, whatever
\* other users, restarts and the cleaner of this or an earlier process did.
IssuedInstanceRuns ==
  \A u \in Users : issued[u] # NoInstance => vm[issued[u]] = "running"

\* What the main thread knows at each place of a handler (the facts that make
\* BooksAgree and IssuedInstanceRuns inductive).
PlacesAgree ==
  /\ pc \in {"down", "crashed"} => pool = {} /\ stack = <<>> /\ cur = NoUser
  /\ pc = "create" => stack = <<>>
  /\ pc \in {"await", "clear", "login"} => stack # <<>>
  /\ pc \in {"login", "unregister", "release"} => cur \in Users
  /\ pc \in {"create", "await", "clear", "login"} /\ cur # NoUser =>
        /\ cur \in loginUsers
        /\ assigned[cur] = NoInstance /\ issued[cur] = NoInstance
  /\ pc \in {"unregister", "release"} => cur \notin loginUsers
  /\ pc \in {"disconnect", "retire"} => leaving \in pool /\ quantity[leaving] = 0
  /\ pc = "serving" => cur = NoUser

\* A mapping outlives its login record only while its logout is served; a
\* token's instance goes with the record.
MappingsRecorded ==
  /\ \A u \in Users : assigned[u] # NoInstance =>
        u \in loginUsers \/ (u = cur /\ pc \in {"unregister", "release"})
  /\ \A u \in Users : issued[u] # NoInstance => u \in loginUsers

\* Booked instances run, whoever was told of a booked one is mapped to it, and
\* nobody is mapped to another instance than the one told.
IssuedFromBooks ==
  /\ \A i \in pool : vm[i] = "running"
  /\ \A u \in Users : issued[u] \in pool => assigned[u] = issued[u]
  /\ \A u \in Users : issued[u] # NoInstance /\ assigned[u] # NoInstance
                        => assigned[u] = issued[u]

\* The inductive invariant of the pool.
PoolInv ==
  /\ BooksAgree /\ PlacesAgree /\ MappingsRecorded /\ IssuedFromBooks
  /\ IssuedInstanceRuns

\* In the first process, whenever a request is awaited, the login records in
\* MongoDB, the mapping in memory and the instances the users were told agree.
RecordsMatchMapping ==
  starts <= 1 /\ pc = "serving" =>
    \A u \in Users : /\ u \in loginUsers <=> assigned[u] # NoInstance
                     /\ issued[u] = assigned[u]

\* In the first process no user is told of an instance before that very
\* instance has its AMQP connection: the one shared event never lets a launch
\* pass on another instance's ack.
IssuedInstanceEstablished ==
  starts <= 1 => \A u \in Users : issued[u] \in published \cup {NoInstance}

\* The first process pays for no instance it has lost track of: the running
\* instances are those in its books.
NoOrphanInstance ==
  starts <= 1 /\ Alive => {i \in Instances : vm[i] = "running"} = pool

\* Between requests an instance without users is the only instance there is
\* (the one of the constructor): every other one goes with its last user.
OnlyFirstInstanceIdles ==
  pc = "serving" => \A i \in pool : quantity[i] = 0 => pool = {i}

\* A token is good for one instance: repeated logins, restarts and other
\* users' comings and goings never move a session that is still open.
SessionStaysPut ==
  [][\A u \in Users : issued[u] # NoInstance =>
        issued'[u] \in {issued[u], NoInstance}]_vars

\* A login that has to launch an instance and wait for its ack is answered
\* with an instance, and the constructor, which waits for the first one in the
\* same way, gets to serving (one start, and the ack queue exists before the
\* instance is up: otherwise the announcement is lost and the wait has no end).
Launching == pc \in {"create", "await", "clear"}
LaunchingLoginAnswered ==
  /\ \A u \in Users :
       Launching /\ cur = u ~> pc = "reply" /\ assigned[u] # NoInstance
  /\ Launching /\ cur = NoUser ~> pc = "serving"

\* The code's comment at login_server.py 252-253: a user who has logged in has
\* a record of the assigned application server.
LoggedInHasInstance ==
  pc = "serving" => \A u \in loginUsers : assigned[u] # NoInstance

\* The login server implements the abstract pool: its books are the open
\* instances and the seats, and AWS remembers which ids were ever used.
Pool == INSTANCE SessionPool WITH
          open <- pool, seat <- assigned,
          opened <- {i \in Instances : vm[i] # "unused"}
PoolSpec == Pool!Spec
=============================================================================
