# TLA+ verification of the network-programming projects

The repository holds five course projects. Four of them contain logic whose
steps interleave or can be cut off in the middle; this directory models those:

| project | what it is | modules |
|---|---|---|
| Project_1 | claw machines: player threads, a master thread, POSIX semaphores | `ClawMachine`, `ClawMachineBasic` |
| Project_3 | one social-network server over MongoDB | `SocialServer3` |
| Project_4 | the same with groups and messages | `SocialServer`, `SocialGraph` |
| Project_5 | a login server that launches EC2 instances, several application servers, RabbitMQ, clients with a thread per user | `LoginServer`, `SessionPool`, `SocialNet`, `Client`, `Delivery` |

Project_2 prints a text.

## 1. Inventory

### Project_1: `hw1_0416005_advance.cpp`, `hw1_0416005_basic.cpp`

* *State*: the waiting queue, for each machine its player, "is playing" and
  "current player done" flags; the guarantee counter; the number of finished
  players; the clock `global_timer`; one start and one done semaphore per
  player; `msg_order_sem`, the gate that is meant to let finish lines out first;
  the locals of each player thread.
* *Operations*: the master wakes all players, waits for all, drains the gate,
  hands freed machines to the queue, moves the clock. A player passes the gate,
  takes a machine or lines up, plays a round, reports, posts its done semaphore.
* *Hard*: everything is ordered by semaphore values that carry over from slot to
  slot; the end of the loop depends on a counter the players increment.
* *Correct when*: slots are a barrier; no machine has two players; nobody is
  lost between queue and machine or overtaken; each prize counts once; the
  program ends, with a prize for everybody; finish lines come first.

### Project_3 and Project_4: `server.cpp`

* *State*: five (Project_3) or seven (Project_4) MongoDB collections, nothing in
  memory but the response.
* *Operations*: register, login, logout, delete, invite, accept-invite, post,
  and in Project_4 create-group, join-group; list-invite, list-friend, receive-post, list-group,
  list-joined, send, send-group (which write no record).
* *Hard*: accept-invite, create-group and delete write more than once without a
  transaction, and the process may stop in between and be started again.
* *Correct when*: records name existing users, two users have at most one
  relation, groups and memberships are unique; Project_4 does to Project_3's
  records what Project_3 would.

### Project_5: login server, application servers, client

* *Login server* (`login_server.py` over `base_server.py`): books of the EC2
  instances in memory (all, with a free place as a stack, users per instance, the
  user-to-instance mapping), login records in MongoDB. One request at a time.
  Login may launch an instance and wait for an event; logout and delete may
  retire one. *Hard*: memory is lost in a restart and MongoDB is not; exceptions
  end the main thread in the middle of a handler.
* *Acknowledgement thread*: sets the event for each `established` message.
  *Hard*: one event for all launches, messages without identity, a queue that is
  declared while the first instance boots.
* *Application servers* (`application_server.py`): no state but MongoDB and a
  task queue to an AMQP client thread. *Hard*: several servers and the login
  server work on one database at the same time, check first and write later.
* *Application server's AMQP thread*: announces itself, then publishes queued
  messages. *Hard*: messages still queued when the instance is terminated; a
  `terminate` command, which is served for whoever sends it, closes the
  connection under the thread.
* *Client* (`client_amqp.py`, `amqp_client_thread.py`): tokens and servers of
  the local users; one AMQP thread per local user; an event "a command runs", a
  print-order semaphore, an event per user and one for groups with 3-second
  waits, a counter handed on through a LIFO queue, the groups and how many local
  users each has. *Hard*: time-outs, foreign messages and exceptions leave these
  objects in states the next command does not expect; logout joins a thread; the
  answer is waited for without a time-out.
  *Correct when*: what is taken is put back, the answer comes before the message,
  a completed wait means that all local copies are printed, every command ends
  or waits where a wait without a time-out is known to be.
* *Delivery* over RabbitMQ: personal queues that survive their reader, exclusive
  queues for groups, bindings. *Hard*: "Success!" comes before the message is
  published, the receiver may be binding, unbinding, killed or in two clients.
  *Correct when*: a listening user gets the messages, once and in order.

Components interact by requests over sockets (client to servers), by the
database (application servers and login server), by RabbitMQ messages (instance
to ack thread, servers to clients), by the EC2 API, and inside a process by
semaphores, an event and queues. The complete list of components with their
status, and of the hazards with the line each one bites at, is `PROJECT.json`.

## 2. Modules

| module | models | proofs |
|---|---|---|
| `SessionPool` | abstract: seats on instances, opened when all are full, closed when empty | |
| `LoginServer` | login server, ack thread, EC2, launching and retiring | `LoginServerProofs` |
| `ClawMachine` | the advanced claw-machine program | `ClawMachineProofs` |
| `ClawMachineBasic` | the basic program; `EXTENDS ClawMachine` with one machine and redefines what differs | `ClawMachineBasicProofs` |
| `SocialGraph` | abstract: nothing, an invitation or a friendship between two users | |
| `SocialServer` | Project_4's server, one step per database write | `SocialServerProofs` |
| `SocialServer3` | Project_3's server, one step per database write; `SocialServer` implements it | `SocialServerProofs` |
| `SocialNet` | Project_5's application servers and the login server's delete, one step per database operation | `SocialNetProofs` |
| `Client` | one client process: main thread, one AMQP thread per local user, what they share | `ClientProofs` |
| `Delivery` | messages from a server's task queue over RabbitMQ to the threads of several clients | `DeliveryProofs` |
| `StackLemmas` | lemmas on sequences (append, front, remove first) for the proofs | itself |
| `MC*` | constants and symmetry for TLC | |

A small action of which only one detail differs from the code, named in a
comment that starts with "Mutant:", stands before the definition it replaces when
the strength of the properties is tested; no specification uses it.

### How the models correspond to the code

* **LoginServer.** `pc` is the place of the main thread. A handler is split
  where something can come in between: the insert of the login record
  (`LoginFirst`), `create_instances` (`CreateInstance`), `event.wait()`
  (`AwaitEvent`), `event.clear()` (`ClearEvent`), the pop of the stack
  (`AssignInstance`), and in logout and delete the deletion of the record
  (`DropRecord`), the update of the books (`ReleaseInstance`), the terminate
  command (`Disconnect`, or `DisconnectRefused` when `connect` raises) and the
  EC2 call (`RetireInstance`). `pool` is the key set the instance dictionary, the
  instance list and the quantity dictionary share: the code changes the three
  together. `issued` is the cookie in `client_amqp.py` (113, 247). An exception
  ends the main thread (`MainThreadDies`); the ack thread, no daemon, lives on.
  `Interrupt` is Ctrl-C with the cleaner, which stops the ack thread, so that its
  queue is unbound; `InterruptConstructor` is Ctrl-C outside the `try`. Tokens are abstracted to
  "u's live token", wrong passwords and bad formats to `Refuse`.
* **ClawMachine.** One step per semaphore operation or mutex section. The
  master's loops over all start or done semaphores are one step, because a player
  sees its own pair only. `talked` is history: a start or wait line has been
  printed in this slot.
* **SocialServer.** A handler runs to its first write in one step, because the
  server takes one request at a time; then each further write is a step, and
  `Crash` may come instead of it. Records that could be duplicated are counted.
* **SocialServer3.** The same for the five writes of Project_3's delete and the
  two of accept-invite. `SocialServer!Old` hides groups and memberships: deleting
  the memberships and the two writes of create-group are invisible.
* **SocialNet.** `at[s]` is the next `find_one`, insert or delete of the handler
  server `s` runs. `home` is the server the client has been told to use. The
  login server's handlers other than delete are one step here; `LoginServer` has
  their detail. `raced`, `clashed` and `strayed` are history: users who were
  named by a request that overlapped their deletion, pairs of users or groups
  that two overlapping requests were about, users two of whose own requests
  overlapped. Replies and their failure are part of the last step of a handler;
  a failure anywhere in it is `Die`. `amqp[s]` is the server's AMQP thread: it
  dies of a group message without an exchange (`Publish`) and of `Terminate`,
  which needs no token and no condition; then nothing more is published there.
* **Client.** One step per operation on an object the threads share; `mpc` is the
  place of the main thread in `run` and `__show_result`, `tpc[u]` that of `u`'s
  AMQP thread in `run` and `__message_handler`. A wait with a 3-second time-out
  may end at any time (`WaitEnds`, `GroupWaitEnds`). An exception anywhere in a
  command (`Except`) skips `local_command_event.clear()`: no connection, the
  `KeyError` of a group that is not counted (`GroupNotCounted`), the `NameError`
  of the unimported `Empty` (`CounterAway`). Python's event, semaphore and queue
  are modelled as such; the number in the counter queue is the actual number.
  Of a message only its kind and `age` matter: whether the answer to its command
  has been shown ("early", then "due"), or it is nobody's here ("other"). The
  servers are the step `Serve`: they answer with success or failure, and on
  success change memberships or publish, unless the server's AMQP thread has
  died. Nothing makes them answer, and nobody answers an empty line, which the
  client takes for a command (45, 52) and sends as nothing. `surplus`, `leftover` and `calm` are
  history: what exceptions have left behind, and whether anything has gone wrong.
* **Delivery.** The handler of a command is one step, since `SocialNet` has the
  races between servers; the server's AMQP thread, the receiving thread's
  subscribing, receiving, printing, stopping and unbinding are steps. RabbitMQ is
  external: a direct exchange to a named queue, which hands a message to any one
  of its consumers and takes back what is not acknowledged; a fanout exchange to
  exclusive queues; a publish to an exchange that does not exist closes the
  channel. Threads of one client do not order each other here (`Client` does
  that): `PrintMessage` may take as long as it likes. Everybody is everybody's
  friend. `Terminate` ends a server's AMQP thread at any time, whoever is mapped
  to the server. `shared`, `skipped` and `terminated` are history: users in two
  clients at once, a failed subscription, and the servers that got a terminate.

## 3. What the runs show

| run | bounds | shows |
|---|---|---|
| `login_restarts` | 3 users, 4 instances, 2 per instance, 2 starts | books agree, the instance of a live token runs, sessions stay put, refinement of `SessionPool`, with restarts and failures |
| `login_single` | 3 users, 3 instances, 1 start, slow boot, fairness | database, memory and EC2 agree; the event is never taken for another instance's; the launch of the constructor ends and a launching login is answered |
| `login_comment` | 2 users, 2 instances, 2 starts | *violated*: a logged-in user has an instance |
| `claw_two` | 3 players, 2 machines, up to 2 rounds, rest up to 1, fairness | barrier, machines, prize count; the program ends with a prize for everybody |
| `claw_queue` | 4 interchangeable players, 2 machines, arrivals 0..1, no rest | queue: nobody lost, nobody overtaken, no idle machine |
| `claw_lines` | 3 players, 2 machines, arrivals 0..1, 1 slot of rest | *violated*: finish lines first |
| `claw_basic` | 3 players, 1 machine, fairness | the same gate is right for one machine; the program ends |
| `social_server` | 3 users, 1 group | consistency with a crash between any two writes, refinement of `SocialGraph` and of `SocialServer3` |
| `net` | 2 users, 1 group; two servers with relations, two with groups and delete, one with direct or group messages, delete and terminate, 2 queued messages | duplicates only after overlapping requests of the right kind; orphans only after a race with delete, whatever crashes; an invitation is spent once; only friends write |
| `client` | 2 local users, 1 group, one fault or foreign message, a group's count up to 2, fairness | semaphore and counter are conserved; the answer comes first; a completed wait means printed; each command ends or is stuck at one of three named places |
| `client_logout` | 1 local user, fairness | *violated*: a logout ends |
| `delivery` | 2 users in 2 clients, 2 servers, 1 group, 2 messages, up to 2 logouts, exits, kills, terminates or failures, fairness | no message twice or out of order, no message ends the server's thread, a listening user receives |

*Why the bounds are enough.* `MaxUsers` is 10 in the code and 2 here: the code
tells apart 0, "one below the limit" and "the limit", and 2 is the smallest
limit at which these differ. Three users fill one instance and need a second;
four instance ids let an instance be retired and another one launched twice. Two
starts show what a restart loses and what it keeps, and further ones add only
ids. Two machines are the code's `NUMBER_OF_CLAW_MACHINE`; four players let two
wait at once; two rounds, one slot of rest and a guarantee of two reach every
branch of `Report`. Races between servers need two servers, and the properties
speak of pairs of users. In `claw_two` and `claw_basic` everybody arrives in
slot 0 and later arrivals come from rests.
`SocialNet`, `Client` and `Delivery` take a set of `Workloads`, one of which each
behaviour has from its start: kinds of commands that touch each other's state are
in one workload, others are not multiplied with them. `maxTasks` bounds a
server's task queue. In `Client`, `trouble` bounds failed connections, acts of
other clients and what exceptions have left behind; `waiting` the messages still
queued when a send is typed; `MaxQuantity` the count of a group, one more than
the members a second login needs. Two local users are the fewest for a counter
to be passed on. In `Delivery`, two messages show an order, `ends` bounds the
sessions that end (two: a thread goes and comes back, while somebody else goes),
and a third thread, of the other user or the same user's second client, is there.

*Deadlock* is checked except in the `login_*` runs, where a crashed server that
may not be started again (`MaxStarts`) has nothing left to do, and in the
`client*` runs, where the program really may stop for good: `CommandEnds` says
where (a command without an answer, a login whose thread did not connect, the
join of a thread that waits), and `LogoutEnds` shows one of the ways.

*Three disagreements.* `login_comment`: after a restart, the login of a user who
was logged in raises `KeyError` (`login_server.py:251`), although the comment
below says that a record exists. `claw_lines`: two finishers in one slot open
the gate twice, and the first post lets the start line of a third player precede
the second finish line (`hw1_0416005_advance.cpp:262`), although lines 71 and 265
say otherwise. All players rest after a finish there, so that the early line is
not one the first finisher prints itself, past the gate it has just opened.
`client_logout`: logout is to "notify the thread to terminate"
(`client_amqp.py:126`) and joins it (233), but the command event is set during
the command, so a thread with a message waits for the semaphore and never sees
the notification.

### Fairness

`LoginServer!Fairness`: weak fairness of the main thread's own steps, of the ack
thread and of each instance's boot and listen: running threads get scheduled,
RabbitMQ delivers, EC2 instances boot. Nothing is assumed of clients, of the
operator or of the failure `ReplyFails`. `SlowBoot` (only in `login_single`) says
that an instance takes longer to boot than the ack thread takes to declare its
queue; without it the announcement can be lost and the wait never ends.
`ClawMachine!FairSpec`: weak fairness of each thread, which is what the operating
system gives; the semaphores are never waited for with a timeout.
Weak fairness of a whole player suffices, since each player waits for a
semaphore that stays posted until that player takes it, or for the gate, which
the others put back within their step.
`Client!FairSpec`: weak fairness of the main thread's own steps (`OwnStep`) and of
each AMQP thread. The 3-second waits end by themselves. Nothing is assumed of
the user, of faults, of other clients, or of the servers: `recv` has no time-out,
and that a server answers is not in the client's hands.
`Delivery!FairSpec`: weak fairness of `Publish` and of `Receive` only: the
server's thread polls its queue all the time, and a client's thread waits for
messages. Printing is not fair, since it may hang at the semaphore. RabbitMQ and
MongoDB themselves are taken not to fail.

## 4. What is proved

Every invariant and every action property that a passing run checks, and the
three refinements, is a theorem: it holds for every value of the constants that
satisfies the named assumption, not only in the instances of section 3. Each
module proves `Init => Inv`, then that each action of `Next` preserves each
conjunct it can disturb, then the theorems. All inductive invariants but `PoolInv`
and `StoreInv` were also checked by TLC in the instances of the runs before they
were proved.

* `LoginServerProofs` (from `ConstantAssumption`: finitely many users, a capacity
  of at least 2). `PoolInvariant`, `BooksAlwaysAgree`, `IssuedAlwaysRuns`,
  `SessionsStayPut`, `ServerImplementsPool`: `BooksAgree` and
  `IssuedInstanceRuns` are not inductive alone. `PoolInv` adds what the main
  thread knows at each place of a handler (`PlacesAgree`), that a mapping or a
  token's instance goes with the login record (`MappingsRecorded`), and that
  whoever was told of a booked instance is mapped to it (`IssuedFromBooks`): that
  is why the cleaner and a retirement, which look at the quantities only, never
  hit a live session, and why instances issued by an earlier process are safe: a
  later one does not have them in its books. The refinement maps `pool`,
  `assigned` and the ids EC2 has used to `open`, `seat` and `opened`.
  `OnlyTheFirstIdles` needs which instance may be empty at each place of a launch
  or a retirement (`IdleKnown`). `RecordsAlwaysMatch`, `IssuedIsEstablished`,
  `NoInstanceOrphaned` are about the first process while its main thread lives;
  `FirstInv` adds that before the start there is nothing to remember
  (`NothingYet`), what is recorded at each place of a handler (`RecordsSoFar`),
  and that at most one acknowledgement is under way, the one of the instance being
  launched (`AcksAreOurs`): hence one event is enough for all launches.
* `SocialServerProofs` (from `NameAssumption`): `StoreInvariant`,
  `NamesAlwaysExist`, `AlwaysOneRelation`, `GroupsAlwaysOnce`,
  `ServerImplementsGraph`. `StoreInv` adds what a half-done handler has already
  written (`HalfDone`) and how far a delete has got (`DeleteProgress`): the user's
  own record goes last, when nothing names it any more. The refinement counts an
  invitation that is being turned into a friendship as an invitation.
  `ServerImplementsOldServer` shows that Project_4's server implements
  Project_3's: each handler's step is the older one's step or invisible to it,
  which needs `Resting`, that an idle server names no user.
* `ClawMachineProofs` (from `ClawAssumption`, which includes that there are
  finitely many machines): `TypeCorrect`, `OneAtAMachine`, `EveryPrizeCounted`,
  `QueueMeansNoneFree`, `NobodyIsLost`, `SlotsAreABarrier`, `QueueInOrder`, for
  any number of players and machines and any input file. The heart of `ClawInv`
  is `TurnInv`: between the post on a player's start semaphore and the wait on its
  done semaphore the player is called, in its turn, or through, and nothing else;
  so the semaphore values never carry over from one slot to the next, and the
  master changes machines and queue only while everybody rests. `OwnerInv` says
  in which three ways a player and the machine it owns can agree, `QueueInv` that
  whoever waits is queued once or has been given a machine.
* `ClawMachineBasicProofs` (from `OneMachine` too): every step of the basic
  program is one of the steps the above proof allows for (`BasicHall`), so the
  hall invariants carry over. `GateAlwaysMatches` and `FinishLineComesFirst` need
  `GateInv`: the gate is closed for exactly the one player that finished. With
  two machines that is false, which is what `claw_lines` shows.
* `SocialNetProofs` (from `NetAssumption`): `TypeCorrect`, `OrphansByRaceOnly`,
  `OneRelationAtMost`, `GroupRecordedOnce`, `MemberRecordedOnce`,
  `OnlyFriendsWriteToEachOther`, `InvitationsSpentOnce`, for any number of
  servers and crashes at any step. A
  handler acts on what it has looked up before, so `NetInv` says of each place of
  a handler what it has found (`FoundStillHolds`, `MembersSound`,
  `WritesToFriend`) and that this still holds unless a request that overlaps it
  has been noted as doing so (`OverlapsKnown`, `RacesKnown`); `DeleteClean` is
  how far an undisturbed delete has come.
* `ClientProofs` (from `ClientAssumption`): `ClientTyped`;
  `TokensAlwaysConserved`, by counting the threads at each place;
  `EchoAlwaysAfterReply`, with `EchoInv`: the event stays set during a command,
  an early message is only there while the semaphore is closed, and a thread that
  has one waits there. `DonePrintsAll` is the step property `DoneMeansPrinted`.
  Its invariant `WaitInv` is large, because five objects must fit together: a
  thread has queues only for groups that are counted, and each group is counted
  at least once per local user in it (`BooksKept`, `Counted`); a thread ends only
  while it is joined (`ThreadsKnown`); and what can be under way depends on the
  stage of the command: at rest nothing; in a send one message, which the
  receiver's thread has or not, with its event unset until it is printed
  (`SendInv`); in a send to a group at most one copy per thread, and a counter
  that is, wherever it is, at least the number of copies still to be counted
  (`SpreadInv`, `Passing`); then nothing but the counter on its way back
  (`DrainInv`). That the counter is in one place only is `TokensConserved`.
* `DeliveryProofs` (from `DeliveryAssumption`): `ServerThreadsLive`, a dead
  thread's server has got a terminate, or somebody is in two clients or a
  subscription has failed: until then every exchange a message is published to
  has been declared (`Declared`), so messages do not end the thread; and
  `MessagesInOrder`.
  For the latter `DeliveryInv` follows a user's messages from the server's tasks
  through the queue, the threads' inboxes and their hands to what is printed:
  each part is in order, and everything further on is older (`Flow`); a queue has
  no message while somebody consumes it (`Waiting`), and one client at a time
  does (`OneClient`). `Delivery!Private`, which keeps the personal messages of an
  inbox, picks them by rank, so that it can be reasoned about without recursion.

Only model-checked, because fairness and ENABLED are beyond the prover, are the
liveness properties `LaunchingLoginAnswered`, `AllComplete`, `CommandEnds` and
`ListenersReceive`, and the absence of deadlock. The properties of the runs that
expect a violation are false, except `FinishLinesFirst`, which is proved for the
basic program.

## 5. Not modelled, and why

* The two copies of the vendored JSON header (`nlohmann/json.hpp`), which are nine
  tenths of the repository's lines: third-party, and only used to format answers.
* Project_3's `DB_setup`: straight-line I/O.
* Project_2, Project_4's AMQP/STOMP wrappers, clients and
  examples, deployment scripts and configuration: no state of their own, I/O, or
  third-party.
* What pika does when the main thread of a client subscribes on the connection
  its AMQP thread is polling (`client_amqp.py:209`): not in this code.
* Deleting a user with its personal queue in `Delivery` (it is in `Client` and,
  with the database, in `SocialNet`), and friendships there (`SocialNet` has them).
* Commands that only read; the text of requests and responses; passwords; the
  values of tokens.
* Which task an application server's AMQP thread holds when `terminate` ends it:
  it is lost like those still queued.
* The destruction of the semaphores at the end of `main` in Project_1.

## 6. Plan

Order of work: the login server first (it decides who talks to whom and is the
only component with memory to lose), then the claw machines (real concurrency),
the Project_4 store, the concurrent stores of Project_5, the client's threads,
the delivery of messages and Project_3's server. All of these are in place. Next:

1. Proofs: that the semaphores of the claw machines cannot come to a standstill,
   stated as an invariant (who can move in each state), and the same for the
   client outside of the three places `CommandEnds` names.
2. The restarts of `LoginServer` composed with `SocialNet` (who is sent where).
