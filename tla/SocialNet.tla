------------------------------ MODULE SocialNet ------------------------------
(***************************************************************************)
(* The social network of Project_5 as users see it: several application    *)
(* servers (application_server.py) and the login server answer requests at *)
(* the same time, over one MongoDB without transactions.  A handler takes  *)
(* one step per database operation, so those of different servers          *)
(* interleave.  Launching and choosing instances is LoginServer's subject; *)
(* here a login just names a server.  The handlers that only list records  *)
(* (list-*, receive-post) write nothing and are left out.                  *)
(***************************************************************************)
EXTENDS Naturals, Sequences, FiniteSets

CONSTANTS Users, Groups, Servers, NoOne, NoServer,
          Workloads   \* which servers run, which commands clients send, and
                      \* how many messages wait in a task queue (a bound)

ASSUME NetAssumption ==
  /\ NoOne \notin Users \cup Groups /\ NoServer \notin Servers
  /\ Users \cap Groups = {} /\ IsFiniteSet(Servers)
  /\ \A w \in Workloads : w.servers \subseteq Servers /\ w.maxTasks \in Nat

VARIABLES
  users, logins,  \* names in Users and in LoginUsers
  inv,            \* inv[a][b]: number of records {inviter: a, invitee: b}
  friends,        \* friends[a][b]: records {user_name_1: a, user_name_2: b}
  posts,          \* names with a record in Posts
  groups,         \* groups[g]: number of records of g in Groups
  joined,         \* joined[u][g]: number of records in JoinedGroups
  home,           \* the server a user's client sends its commands to
  at,             \* at[s]: next database operation of s's handler, or "idle"
  del,            \* the same for the login server's delete handler
  tasks,          \* tasks[s]: the __task_queue to s's AMQP client thread
  amqp,           \* amqp[s]: whether this thread publishes: "on" or "dead"
  load,           \* the workload of this behaviour
  raced, clashed, strayed   \* history: which handlers have overlapped

db      == <<users, logins, inv, friends, posts, groups, joined>>
history == <<raced, clashed, strayed>>
queue == <<tasks, amqp>>
vars == <<db, home, at, del, queue, load, history>>

Places == {"idle", "dead", "invite user", "invite counter", "invite friends",
           "invite again", "invite add", "accept", "befriend", "post",
           "send user", "send friends", "send online", "create", "create add",
           "enlist", "join group", "join member", "group", "group member"}
NoHandler == [place |-> "idle", who |-> NoOne, arg |-> NoOne]

TypeOK ==
  /\ users \subseteq Users /\ logins \subseteq users /\ posts \subseteq Users
  /\ inv \in [Users -> [Users -> Nat]] /\ friends \in [Users -> [Users -> Nat]]
  /\ groups \in [Groups -> Nat] /\ joined \in [Users -> [Groups -> Nat]]
  /\ home \in [Users -> Servers \cup {NoServer}]
  /\ at \in [Servers -> [place : Places, who : Users \cup {NoOne},
                         arg : Users \cup Groups \cup {NoOne}]]
  /\ del \in [place : {"idle", "joined", "invitations", "friendships", "posts",
                       "login", "user"},
              who : Users \cup {NoOne}]
  /\ \A s \in Servers : Len(tasks[s]) <= load.maxTasks
  /\ amqp \in [Servers -> {"on", "dead"}]
  /\ raced \subseteq Users /\ strayed \subseteq Users
  /\ clashed \subseteq SUBSET (Users \cup Groups \cup {NoOne})

Init ==
  /\ load \in Workloads
  /\ users = {} /\ logins = {} /\ posts = {}
  /\ inv = [a \in Users |-> [b \in Users |-> 0]] /\ friends = inv
  /\ groups = [g \in Groups |-> 0]
  /\ joined = [u \in Users |-> [g \in Groups |-> 0]]
  /\ home = [u \in Users |-> NoServer]
  /\ at = [s \in Servers |-> NoHandler]
  /\ del = [place |-> "idle", who |-> NoOne]
  /\ tasks = [s \in Servers |-> <<>>] /\ amqp = [s \in Servers |-> "on"]
  /\ raced = {} /\ clashed = {} /\ strayed = {}

----------------------------------------------------------------------------
(* An application server's request *)

Busy(s) == at[s].place \notin {"idle", "dead"}
Topic(u, x) == IF x \in Users THEN {u, x} ELSE {x}

Invited(a, b) == inv[a][b] > 0
\* Mutant: the query names the two users in one order only.
FriendsOneWay(a, b) == friends[a][b] > 0
Friends(a, b) == friends[a][b] + friends[b][a] > 0
\* Mutants: the query never finds the record (a misspelt key, say).
GroupNeverFound(g) == FALSE
MemberNeverFound(u, g) == FALSE
GroupExists(g) == groups[g] > 0
IsMember(u, g) == joined[u][g] > 0

\* s accepts u's command and finds the token in LoginUsers.
Take(s, u, cmd, place, x) ==
  /\ cmd \in load.commands
  /\ at[s].place = "idle" /\ u \in logins /\ home[u] = s
  /\ at' = [at EXCEPT ![s] = [place |-> place, who |-> u, arg |-> x]]
  /\ LET others == {t \in Servers \ {s} : Busy(t)} IN
       /\ clashed' = clashed \cup {k \in {Topic(u, x)} :
                        \E t \in others : Topic(at[t].who, at[t].arg) = k}
       /\ strayed' = strayed \cup {w \in {u} : \E t \in others : at[t].who = w}
       /\ raced' = raced \cup ({u, x} \cap ({del.who} \ {NoOne}))
  /\ UNCHANGED <<db, home, del, queue, load>>

Accept(s) ==
  \E u \in Users :
    \/ \E v \in Users : \/ Take(s, u, "invite", "invite user", v)
                        \/ Take(s, u, "accept-invite", "accept", v)
                        \/ Take(s, u, "send", "send user", v)
    \/ \E g \in Groups : \/ Take(s, u, "create-group", "create", g)
                         \/ Take(s, u, "join-group", "join group", g)
                         \/ Take(s, u, "send-group", "group", g)
    \/ Take(s, u, "post", "post", NoOne)

GoOn(s, next) == at' = [at EXCEPT ![s].place = next]
\* The answer is ready: the server accepts the next connection.
Answer(s) == at' = [at EXCEPT ![s] = NoHandler]

\* One find_one: the handler goes on, or answers with an error.
Check(s, place, ok, next) ==
  /\ at[s].place = place
  /\ IF ok THEN GoOn(s, next) ELSE Answer(s)
  /\ UNCHANGED <<db, home, del, queue, load, history>>

InviteChecks(s) ==
  LET u == at[s].who
      v == at[s].arg IN
    \/ Check(s, "invite user", v \in users, "invite counter")
    \/ Check(s, "invite counter", ~Invited(v, u), "invite friends")
    \/ Check(s, "invite friends", ~Friends(u, v), "invite again")
    \/ Check(s, "invite again", ~Invited(u, v) /\ u # v, "invite add")

AddInvitation(s) ==
  /\ at[s].place = "invite add"
  /\ inv' = [inv EXCEPT ![at[s].who][at[s].arg] = @ + 1]
  /\ Answer(s)
  /\ UNCHANGED <<users, logins, friends, posts, groups, joined, home, del,
                 queue, load, history>>

\* Mutant: the number of deleted records is ignored.
DeleteInvitationUncounted(s) ==
  LET u == at[s].who
      v == at[s].arg IN
    /\ at[s].place = "accept"
    /\ inv' = IF Invited(v, u) THEN [inv EXCEPT ![v][u] = @ - 1] ELSE inv
    /\ GoOn(s, "befriend")
    /\ UNCHANGED <<users, logins, friends, posts, groups, joined, home, del,
                   queue, load, history>>

\* delete_one takes one matching record, if there is one, atomically.
DeleteInvitation(s) ==
  LET u == at[s].who
      v == at[s].arg IN
    /\ at[s].place = "accept"
    /\ IF Invited(v, u)
       THEN inv' = [inv EXCEPT ![v][u] = @ - 1] /\ GoOn(s, "befriend")
       ELSE inv' = inv /\ Answer(s)
    /\ UNCHANGED <<users, logins, friends, posts, groups, joined, home, del,
                   queue, load, history>>

AddFriendship(s) ==
  /\ at[s].place = "befriend"
  /\ friends' = [friends EXCEPT ![at[s].arg][at[s].who] = @ + 1]
  /\ Answer(s)
  /\ UNCHANGED <<users, logins, inv, posts, groups, joined, home, del, queue,
                 load, history>>

AddPost(s) ==
  /\ at[s].place = "post"
  /\ posts' = posts \cup {at[s].who}
  /\ Answer(s)
  /\ UNCHANGED <<users, logins, inv, friends, groups, joined, home, del, queue,
                 load, history>>

\* Mutant: send asks whether the friend exists, not whether it is one.
SendToAnybody(s) == Check(s, "send user", at[s].arg \in users, "send online")
SendChecks(s) ==
  LET u == at[s].who
      v == at[s].arg IN
    \/ Check(s, "send user", v \in users, "send friends")
    \/ Check(s, "send friends", Friends(u, v), "send online")

\* The last find_one of send and send-group, and the put that follows it.
PutTask(s, place, ok) ==
  /\ at[s].place = place /\ Len(tasks[s]) < load.maxTasks
  /\ tasks' = IF ok THEN [tasks EXCEPT ![s] =
                            Append(@, [from |-> at[s].who, to |-> at[s].arg])]
                    ELSE tasks
  /\ Answer(s)
  /\ UNCHANGED <<amqp, db, home, del, load, history>>

SendMessage(s) == PutTask(s, "send online", at[s].arg \in logins)
SendGroupMessage(s) == PutTask(s, "group member", IsMember(at[s].who, at[s].arg))

GroupChecks(s) ==
  LET u == at[s].who
      g == at[s].arg IN
    \/ Check(s, "create", ~GroupExists(g), "create add")
    \/ Check(s, "join group", GroupExists(g), "join member")
    \/ Check(s, "join member", ~IsMember(u, g), "enlist")
    \/ Check(s, "group", GroupExists(g), "group member")

AddGroup(s) ==
  /\ at[s].place = "create add"
  /\ groups' = [groups EXCEPT ![at[s].arg] = @ + 1]
  /\ GoOn(s, "enlist")
  /\ UNCHANGED <<users, logins, inv, friends, posts, joined, home, del, queue,
                 load, history>>

\* The last write of create-group and of join-group.
AddMember(s) ==
  /\ at[s].place = "enlist"
  /\ joined' = [joined EXCEPT ![at[s].who][at[s].arg] = @ + 1]
  /\ Answer(s)
  /\ UNCHANGED <<users, logins, inv, friends, posts, groups, home, del, queue,
                 load, history>>

\* terminate: whoever sends it, there is no token and no look at who still uses
\* the server, it closes the connection under the AMQP client thread, whose next
\* use of it raises and ends it.  (A second one raises in close itself: Die.)
Terminate(s) ==
  /\ "terminate" \in load.commands /\ at[s].place = "idle" /\ amqp[s] = "on"
  /\ amqp' = [amqp EXCEPT ![s] = "dead"]
  /\ UNCHANGED <<db, home, at, del, tasks, load, history>>

\* The AMQP client thread takes a task and publishes it.  The exchange of a
\* group may be missing, which ends the thread too (Delivery says when).
Publish(s) ==
  /\ amqp[s] = "on" /\ tasks[s] # <<>>
  /\ tasks' = [tasks EXCEPT ![s] = Tail(@)]
  /\ \/ amqp' = amqp
     \/ Head(tasks[s]).to \in Groups /\ amqp' = [amqp EXCEPT ![s] = "dead"]
  /\ UNCHANGED <<db, home, at, del, load, history>>

\* An exception nobody catches (the database, or a client that has gone) ends
\* the main thread; the AMQP client thread, which is no daemon, goes on.
Die(s) ==
  /\ at[s].place # "dead"
  /\ at' = [at EXCEPT ![s] = [NoHandler EXCEPT !.place = "dead"]]
  /\ UNCHANGED <<db, home, del, queue, load, history>>

----------------------------------------------------------------------------
(* The login server, one request at a time *)

LoginServerIdle == del.place = "idle"

Register(u) ==
  /\ LoginServerIdle /\ u \notin users
  /\ users' = users \cup {u}
  /\ UNCHANGED <<logins, inv, friends, posts, groups, joined, home, at, del,
                 queue, load, history>>

Login(u, s) ==
  /\ LoginServerIdle /\ u \in users \ logins
  /\ logins' = logins \cup {u}
  /\ home' = [home EXCEPT ![u] = s]
  /\ UNCHANGED <<users, inv, friends, posts, groups, joined, at, del, queue,
                 load, history>>

Logout(u) ==
  /\ LoginServerIdle /\ u \in logins
  /\ logins' = logins \ {u}
  /\ home' = [home EXCEPT ![u] = NoServer]
  /\ UNCHANGED <<users, inv, friends, posts, groups, joined, at, del, queue,
                 load, history>>

Delete(u) ==
  /\ "delete" \in load.commands
  /\ LoginServerIdle /\ u \in logins
  /\ del' = [place |-> "joined", who |-> u]
  /\ raced' = raced \cup {w \in {u} :
                            \E s \in Servers : Busy(s) /\ w \in {at[s].who, at[s].arg}}
  /\ UNCHANGED <<db, home, at, queue, load, clashed, strayed>>

\* Six deletions in this order.
DeleteMany(place, next) == del.place = place /\ del' = [del EXCEPT !.place = next]
Without(records, u) ==
  [a \in Users |-> [b \in Users |-> IF u \in {a, b} THEN 0 ELSE records[a][b]]]

\* Mutant: the memberships stay.
SkipJoined ==
  DeleteMany("joined", "invitations") /\ UNCHANGED <<db, home, at, queue, load,
                                                     history>>
DeleteJoined ==
  /\ DeleteMany("joined", "invitations")
  /\ joined' = [joined EXCEPT ![del.who] = [g \in Groups |-> 0]]
  /\ UNCHANGED <<users, logins, inv, friends, posts, groups, home, at, queue,
                 load, history>>

DeleteInvitations ==
  /\ DeleteMany("invitations", "friendships")
  /\ inv' = Without(inv, del.who)
  /\ UNCHANGED <<users, logins, friends, posts, groups, joined, home, at,
                 queue, load, history>>

DeleteFriendships ==
  /\ DeleteMany("friendships", "posts")
  /\ friends' = Without(friends, del.who)
  /\ UNCHANGED <<users, logins, inv, posts, groups, joined, home, at, queue,
                 load, history>>

DeletePosts ==
  /\ DeleteMany("posts", "login")
  /\ posts' = posts \ {del.who}
  /\ UNCHANGED <<users, logins, inv, friends, groups, joined, home, at, queue,
                 load, history>>

\* Mutant: the session stays.
SkipLogin == DeleteMany("login", "user") /\ UNCHANGED <<db, home, at, queue,
                                                        load, history>>
DeleteLogin ==
  /\ DeleteMany("login", "user")
  /\ logins' = logins \ {del.who}
  /\ UNCHANGED <<users, inv, friends, posts, groups, joined, home, at, queue,
                 load, history>>

DeleteUser ==
  /\ del.place = "user"
  /\ users' = users \ {del.who}
  /\ home' = [home EXCEPT ![del.who] = NoServer]
  /\ del' = [place |-> "idle", who |-> NoOne]
  /\ UNCHANGED <<logins, inv, friends, posts, groups, joined, at, queue, load,
                 history>>

\* The login server stops in the middle of a delete and is started again.
LoginServerDies ==
  /\ ~LoginServerIdle
  /\ del' = [place |-> "idle", who |-> NoOne]
  /\ UNCHANGED <<db, home, at, queue, load, history>>

\* The login server has EC2 terminate an instance nobody is mapped to any more,
\* whatever it is doing; a fresh instance may take its place.  (Before that it
\* sends the instance a terminate.)
Retire(s) ==
  /\ LoginServerIdle /\ \A u \in Users : home[u] # s
  /\ at[s].place # "idle" \/ tasks[s] # <<>> \/ amqp[s] # "on"
  /\ Answer(s)
  /\ tasks' = [tasks EXCEPT ![s] = <<>>] /\ amqp' = [amqp EXCEPT ![s] = "on"]
  /\ UNCHANGED <<db, home, del, load, history>>

----------------------------------------------------------------------------
Handle(s) ==
  \/ Accept(s) \/ InviteChecks(s) \/ AddInvitation(s) \/ DeleteInvitation(s)
  \/ AddFriendship(s) \/ AddPost(s) \/ SendChecks(s) \/ SendMessage(s)
  \/ SendGroupMessage(s) \/ GroupChecks(s) \/ AddGroup(s) \/ AddMember(s)
LoginServer ==
  \/ \E u \in Users : \/ Register(u) \/ Logout(u) \/ Delete(u)
                      \/ \E s \in load.servers : Login(u, s)
  \/ DeleteJoined \/ DeleteInvitations \/ DeleteFriendships \/ DeletePosts
  \/ DeleteLogin \/ DeleteUser \/ LoginServerDies

Next == \/ \E s \in load.servers :
             Handle(s) \/ Terminate(s) \/ Publish(s) \/ Die(s) \/ Retire(s)
        \/ LoginServer
Spec == Init /\ [][Next]_vars

----------------------------------------------------------------------------
(* Properties *)

\* A record of somebody who no longer exists can only come from a handler that
\* named the user and ran at the same time as the user's delete: no order of
\* requests, and no crash of either server, leaves one behind otherwise.
OrphansOnlyByRace ==
  LET there == users \cup raced IN
    /\ posts \subseteq there
    /\ \A a, b \in Users : inv[a][b] + friends[a][b] > 0 => {a, b} \subseteq there
    /\ \A u \in Users, g \in Groups : joined[u][g] > 0 => u \in there

\* Two users have at most one invitation or friendship, unless two requests
\* about the two of them have once overlapped.
OneRelationUnlessClash ==
  \A a, b \in Users : {a, b} \notin clashed =>
    inv[a][b] + inv[b][a] + friends[a][b] + friends[b][a] <= IF a = b THEN 0 ELSE 1

\* A group has at most one record, unless two requests about it overlapped.
GroupOnceUnlessClash ==
  \A g \in Groups : {g} \notin clashed => groups[g] <= 1

\* A user is a member of a group at most once, whatever other users do at the
\* same time, unless two of the user's own requests were served at once (which
\* takes a logout and a login in the middle of the first).
MemberOnce ==
  \A u \in Users, g \in Groups : u \notin strayed => joined[u][g] <= 1

\* An invitation is accepted once: of all the servers that try to turn it into
\* a friendship one succeeds.  Only a new invitation adds to what is between
\* two users, counting a friendship that is about to be added.
Ties(a, b) ==
  inv[a][b] + friends[a][b]
    + Cardinality({s \in Servers :
                     at[s] = [place |-> "befriend", who |-> b, arg |-> a]})
InvitationSpentOnce ==
  [][\A a, b \in Users : Ties(a, b)' > Ties(a, b) =>
        \E s \in Servers : at[s] = [place |-> "invite add", who |-> a, arg |-> b]]_vars

\* A direct message is queued between friends only, although the friendship is
\* looked up two steps earlier, unless one of the two was being deleted.
OnlyFriendsWrite ==
  [][\A s \in Servers : Len(tasks'[s]) > Len(tasks[s]) /\ at[s].arg \in Users =>
        \/ Friends(at[s].who, at[s].arg)
        \/ {at[s].who, at[s].arg} \cap raced # {}]_vars
=============================================================================
