-------------------------- MODULE SocialNetProofs --------------------------
(***************************************************************************)
(* Theorems about SocialNet, for any number of users, groups and servers,  *)
(* any workload, and crashes of every server at any step.                  *)
(***************************************************************************)
EXTENDS SocialNet, FiniteSetTheorems, SequenceTheorems, TLAPS

USE DEF db, queue, history

----------------------------------------------------------------------------
(* The inductive invariant *)

\* What the operands of a handler are at each of its places.
AboutUsers  == {"invite user", "invite counter", "invite friends", "invite again",
                "invite add", "accept", "befriend", "send user", "send friends",
                "send online"}
AboutGroups == {"create", "create add", "enlist", "join group", "join member",
                "group", "group member"}
Handler == [place : Places, who : Users \cup {NoOne},
            arg : Users \cup Groups \cup {NoOne}]
HandlersTyped ==
  /\ at \in [Servers -> Handler]
  /\ \A s \in Servers :
       /\ Busy(s) => at[s].who \in Users
       /\ at[s].place \in AboutUsers => at[s].arg \in Users
       /\ at[s].place \in AboutGroups => at[s].arg \in Groups
Task == [from : Users, to : Users \cup Groups]
TasksTyped ==
  /\ tasks \in [Servers -> Seq(Task)]
  /\ \A s \in Servers : Len(tasks[s]) <= load.maxTasks
ThreadsTyped == amqp \in [Servers -> {"on", "dead"}]
DeleteTyped ==
  /\ del \in [place : {"idle", "joined", "invitations", "friendships", "posts",
                       "login", "user"}, who : Users \cup {NoOne}]
  /\ del.place # "idle" <=> del.who \in Users
  /\ del.place = "user" => del.who \notin logins
StoreTyped ==
  /\ users \subseteq Users /\ logins \subseteq users /\ posts \subseteq Users
  /\ inv \in [Users -> [Users -> Nat]] /\ friends \in [Users -> [Users -> Nat]]
  /\ groups \in [Groups -> Nat] /\ joined \in [Users -> [Groups -> Nat]]
  /\ home \in [Users -> Servers \cup {NoServer}]
HistoryTyped ==
  /\ raced \subseteq Users /\ strayed \subseteq Users
  /\ clashed \subseteq SUBSET (Users \cup Groups \cup {NoOne})
Typed ==
  /\ load \in Workloads
  /\ HandlersTyped /\ TasksTyped /\ ThreadsTyped
  /\ DeleteTyped /\ StoreTyped /\ HistoryTyped

\* A handler that names the user being deleted is known to race with the
\* delete; every other handler names users that are there, from the place where
\* it has looked them up.
Named(s) == {at[s].who, at[s].arg}
LookedUp == {"invite counter", "invite friends", "invite again", "invite add",
             "befriend"}
RacesKnown ==
  \A s \in Servers :
    /\ Busy(s) /\ del.who \in Users /\ del.who \in Named(s) => del.who \in raced
    /\ Busy(s) => at[s].who \in users \cup raced
    /\ at[s].place \in LookedUp => at[s].arg \in users \cup raced

\* How far a delete that nobody races with has come.
DeleteClean ==
  del.who \in Users \ raced =>
    /\ del.place \in {"invitations", "friendships", "posts", "login", "user"} =>
         \A g \in Groups : joined[del.who][g] = 0
    /\ del.place \in {"friendships", "posts", "login", "user"} =>
         \A a \in Users : inv[a][del.who] = 0 /\ inv[del.who][a] = 0
    /\ del.place \in {"posts", "login", "user"} =>
         \A a \in Users : friends[a][del.who] = 0 /\ friends[del.who][a] = 0
    /\ del.place \in {"login", "user"} => del.who \notin posts

\* Overlapping handlers are known to overlap.
HandlerTopic(s) == Topic(at[s].who, at[s].arg)
OverlapsKnown ==
  \A s, t \in Servers : s # t /\ Busy(s) /\ Busy(t) =>
    /\ HandlerTopic(s) = HandlerTopic(t) => HandlerTopic(s) \in clashed
    /\ at[s].who = at[t].who => at[s].who \in strayed

\* What a handler has found between its two users still holds unless somebody
\* clashed with it.
Found(i, f, place, u, v) ==
  /\ place \in {"invite friends", "invite again", "invite add", "befriend"} =>
       i[v][u] = 0
  /\ place \in {"invite again", "invite add", "befriend"} =>
       f[u][v] = 0 /\ f[v][u] = 0
  /\ place \in {"invite add", "befriend"} => i[u][v] = 0 /\ u # v
FoundStillHolds ==
  \A s \in Servers :
    at[s].place \in AboutUsers /\ {at[s].who, at[s].arg} \notin clashed =>
      Found(inv, friends, at[s].place, at[s].who, at[s].arg)

\* A group that somebody is a member of exists, a creator has found no record
\* of it, and who is being enlisted is no member yet.
MembersSound ==
  /\ \A u \in Users, g \in Groups : joined[u][g] > 0 => groups[g] > 0
  /\ \A s \in Servers :
       /\ at[s].place \in {"join member", "enlist"} => groups[at[s].arg] > 0
       /\ at[s].place = "create add" /\ {at[s].arg} \notin clashed => groups[at[s].arg] = 0
       /\ at[s].place \in {"create add", "enlist"} /\ at[s].who \notin strayed =>
            joined[at[s].who][at[s].arg] = 0

\* Who writes has been found a friend, and still is one unless an account of the
\* two is being deleted.
WritesToFriend ==
  \A s \in Servers : at[s].place = "send online" =>
    Friends(at[s].who, at[s].arg) \/ Named(s) \cap raced # {}

NetInv ==
  /\ Typed /\ RacesKnown /\ DeleteClean /\ OrphansOnlyByRace
  /\ OverlapsKnown /\ FoundStillHolds /\ OneRelationUnlessClash
  /\ MembersSound /\ GroupOnceUnlessClash /\ MemberOnce /\ WritesToFriend

----------------------------------------------------------------------------
(* What the steps of a handler do to its record *)

LEMMA Idle == NoHandler.place = "idle" /\ NoHandler.who = NoOne /\ NoHandler.arg = NoOne
BY DEF NoHandler

LEMMA GoOnEffect ==
  ASSUME HandlersTyped, NEW s \in Servers, NEW next \in Places, GoOn(s, next)
  PROVE  /\ at' \in [Servers -> Handler]
         /\ at'[s].place = next /\ at'[s].who = at[s].who /\ at'[s].arg = at[s].arg
         /\ \A t \in Servers : t # s => at'[t] = at[t]
BY DEF HandlersTyped, GoOn, Handler

LEMMA AnswerEffect ==
  ASSUME HandlersTyped, NEW s \in Servers, Answer(s)
  PROVE  /\ at' \in [Servers -> Handler]
         /\ at'[s] = NoHandler
         /\ \A t \in Servers : t # s => at'[t] = at[t]
BY DEF HandlersTyped, Answer, Handler, NoHandler, Places

\* Every check of a handler is a Check: the handler stays about users, or about
\* groups, or answers.
LEMMA ChecksEffect ==
  ASSUME HandlersTyped, NEW s \in Servers,
         InviteChecks(s) \/ SendChecks(s) \/ GroupChecks(s)
  PROVE  /\ at' \in [Servers -> Handler]
         /\ \A t \in Servers : t # s => at'[t] = at[t]
         /\ \/ at'[s] = NoHandler
            \/ /\ at'[s].who = at[s].who /\ at'[s].arg = at[s].arg
               /\ \/ at[s].place \in AboutUsers /\ at'[s].place \in AboutUsers
                  \/ at[s].place \in AboutGroups /\ at'[s].place \in AboutGroups
         /\ UNCHANGED <<db, home, del, queue, load, history>>
<1> USE GoOnEffect, AnswerEffect DEF Check, Places, AboutUsers, AboutGroups
<1>1. CASE InviteChecks(s)
  BY <1>1 DEF InviteChecks
<1>2. CASE SendChecks(s)
  BY <1>2 DEF SendChecks
<1>3. CASE GroupChecks(s)
  BY <1>3 DEF GroupChecks
<1> QED
  BY <1>1, <1>2, <1>3

\* A new request: its operands are of the kind its first place needs.
LEMMA AcceptEffect ==
  ASSUME HandlersTyped, NEW s \in Servers, Accept(s)
  PROVE  /\ at' \in [Servers -> Handler]
         /\ at[s].place = "idle"
         /\ at'[s].who \in logins
         /\ \/ /\ at'[s].place \in {"invite user", "accept", "send user"}
               /\ at'[s].arg \in Users
            \/ /\ at'[s].place \in {"create", "join group", "group"}
               /\ at'[s].arg \in Groups
            \/ at'[s].place = "post" /\ at'[s].arg = NoOne
         /\ \A t \in Servers : t # s => at'[t] = at[t]
         /\ LET u == at'[s].who
                x == at'[s].arg IN
              /\ clashed \subseteq clashed' /\ clashed' \subseteq clashed \cup {Topic(u, x)}
              /\ \A t \in Servers : t # s /\ Busy(t) /\ Topic(at[t].who, at[t].arg) = Topic(u, x)
                                      => Topic(u, x) \in clashed'
              /\ strayed \subseteq strayed' /\ strayed' \subseteq strayed \cup {u}
              /\ \A t \in Servers : t # s /\ Busy(t) /\ at[t].who = u => u \in strayed'
              /\ raced \subseteq raced' /\ raced' \subseteq raced \cup ({del.who} \ {NoOne})
              /\ del.who \in {u, x} \ {NoOne} => del.who \in raced'
         /\ UNCHANGED <<db, home, del, queue, load>>
<1> DEFINE Goal(u, place, x) ==
             /\ at[s].place = "idle" /\ u \in logins
             /\ at' = [at EXCEPT ![s] = [place |-> place, who |-> u, arg |-> x]]
             /\ LET others == {t \in Servers \ {s} : Busy(t)} IN
                  /\ clashed' = clashed \cup {k \in {Topic(u, x)} :
                                   \E t \in others : Topic(at[t].who, at[t].arg) = k}
                  /\ strayed' = strayed \cup {w \in {u} : \E t \in others : at[t].who = w}
                  /\ raced' = raced \cup ({u, x} \cap ({del.who} \ {NoOne}))
             /\ UNCHANGED <<db, home, del, queue, load>>
<1>0. ASSUME NEW u, NEW cmd, NEW place, NEW x, Take(s, u, cmd, place, x)
      PROVE  Goal(u, place, x)
  BY <1>0 DEF Take
<1> HIDE DEF Goal
<1>1. PICK u \in Users, x \in Users \cup Groups \cup {NoOne}, place \in Places :
        /\ Goal(u, place, x)
        /\ \/ place \in {"invite user", "accept", "send user"} /\ x \in Users
           \/ place \in {"create", "join group", "group"} /\ x \in Groups
           \/ place = "post" /\ x = NoOne
  BY <1>0 DEF Accept, Places
<1> USE DEF Goal
<1>2. at'[s] = [place |-> place, who |-> u, arg |-> x]
  BY <1>1 DEF HandlersTyped
<1>3. at' \in [Servers -> Handler]
  BY <1>1 DEF HandlersTyped, Handler
<1>4. \A t \in Servers : t # s => at'[t] = at[t]
  BY <1>1 DEF HandlersTyped
<1>5. /\ clashed \subseteq clashed' /\ clashed' \subseteq clashed \cup {Topic(u, x)}
      /\ \A t \in Servers : t # s /\ Busy(t) /\ Topic(at[t].who, at[t].arg) = Topic(u, x)
                              => Topic(u, x) \in clashed'
  BY <1>1
<1>6. /\ strayed \subseteq strayed' /\ strayed' \subseteq strayed \cup {u}
      /\ \A t \in Servers : t # s /\ Busy(t) /\ at[t].who = u => u \in strayed'
  BY <1>1
<1>7. /\ raced \subseteq raced' /\ raced' \subseteq raced \cup ({del.who} \ {NoOne})
      /\ del.who \in {u, x} \ {NoOne} => del.who \in raced'
  BY <1>1
<1>8. at'[s].who = u /\ at'[s].arg = x /\ at'[s].place = place
  BY <1>2
<1> QED
  BY <1>1, <1>3, <1>4, <1>5, <1>6, <1>7, <1>8

----------------------------------------------------------------------------
(* Types and operands *)

LEMMA TypedImpliesTypeOK == Typed => TypeOK
BY DEF Typed, HandlersTyped, TasksTyped, ThreadsTyped, DeleteTyped, StoreTyped,
       HistoryTyped, Handler, TypeOK

LEMMA InitTyped == Init => Typed
<1> SUFFICES ASSUME Init PROVE Typed
  OBVIOUS
<1>1. TasksTyped
  BY NetAssumption, EmptySeq DEF Init, TasksTyped
<1>5. ThreadsTyped
  BY DEF Init, ThreadsTyped
<1>2. HandlersTyped
  BY DEF Init, NoHandler, HandlersTyped, Handler, Places, Busy, AboutUsers, AboutGroups
<1>3. DeleteTyped
  BY NetAssumption DEF Init, DeleteTyped
<1>4. StoreTyped /\ HistoryTyped
  BY DEF Init, StoreTyped, HistoryTyped
<1> QED
  BY <1>1, <1>2, <1>3, <1>4, <1>5 DEF Init, Typed

\* A step in which one handler goes on about the same operands, or ends.
Continues(s) ==
  /\ at' \in [Servers -> Handler]
  /\ \A t \in Servers : t # s => at'[t] = at[t]
  /\ \/ at'[s].place \in {"idle", "dead"}
     \/ /\ at'[s].who = at[s].who /\ at'[s].arg = at[s].arg
        /\ \/ at[s].place \in AboutUsers /\ at'[s].place \in AboutUsers
           \/ at[s].place \in AboutGroups /\ at'[s].place \in AboutGroups

\* Outside of Accept every step of a server is of this kind, or leaves the
\* handler alone.
LEMMA HandlerContinues ==
  ASSUME HandlersTyped, NEW s \in Servers,
         Handle(s) \/ Die(s) \/ Retire(s), ~Accept(s)
  PROVE  Continues(s)
<1>1. CASE InviteChecks(s) \/ SendChecks(s) \/ GroupChecks(s)
  BY <1>1, ChecksEffect DEF NoHandler, Continues
<1>2. ASSUME Answer(s) PROVE Continues(s)
  BY <1>2, AnswerEffect DEF NoHandler, Continues
<1>3. CASE AddInvitation(s) \/ AddFriendship(s) \/ AddPost(s) \/ SendMessage(s)
           \/ SendGroupMessage(s) \/ AddMember(s) \/ Retire(s)
  BY <1>2, <1>3 DEF AddInvitation, AddFriendship, AddPost, SendMessage,
       SendGroupMessage, PutTask, AddMember, Retire
<1>4. CASE DeleteInvitation(s)
  <2>1. at[s].place = "accept" /\ "befriend" \in Places
    BY <1>4 DEF DeleteInvitation, Places
  <2>2. GoOn(s, "befriend") => Continues(s)
    BY <2>1, GoOnEffect DEF Continues, AboutUsers
  <2> QED
    BY <1>2, <1>4, <2>2 DEF DeleteInvitation
<1>5. CASE AddGroup(s)
  BY <1>5, GoOnEffect DEF AddGroup, Places, Continues, AboutGroups
<1>6. CASE Die(s)
  BY <1>6 DEF Die, NoHandler, HandlersTyped, Handler, Places, Continues
<1> QED
  BY <1>1, <1>3, <1>4, <1>5, <1>6 DEF Handle

\* The steps of Next, by the server that takes them.
LEMMA NextCases ==
  ASSUME Typed, [Next]_vars
  PROVE  \/ \E s \in Servers : Handle(s) \/ Terminate(s) \/ Publish(s) \/ Die(s) \/ Retire(s)
         \/ LoginServer
         \/ UNCHANGED vars
BY NetAssumption DEF Next, Typed

\* The login server's steps leave the handlers alone.
LEMMA LoginServerFrame ==
  ASSUME LoginServer PROVE UNCHANGED <<at, queue, groups, load, clashed, strayed>>
BY DEF LoginServer, Register, Login, Logout, Delete, DeleteJoined, DeleteInvitations,
       DeleteFriendships, DeletePosts, DeleteLogin, DeleteUser, LoginServerDies

LEMMA NextHandlersTyped ==
  ASSUME Typed, [Next]_vars PROVE HandlersTyped'
<1> USE DEF Typed
<1>1. CASE at' = at
  BY <1>1 DEF HandlersTyped, Busy
<1>2. ASSUME NEW s \in Servers, Continues(s) PROVE HandlersTyped'
  BY <1>2 DEF Continues, HandlersTyped, Busy, AboutUsers, AboutGroups
<1>3. ASSUME NEW s \in Servers, Accept(s) PROVE HandlersTyped'
  <2>1. at'[s].who \in Users
    BY <1>3, AcceptEffect DEF StoreTyped
  <2> QED
    BY <1>3, <2>1, AcceptEffect DEF HandlersTyped, Busy, AboutUsers, AboutGroups
<1>4. ASSUME NEW s \in Servers, Terminate(s) \/ Publish(s) PROVE at' = at
  BY <1>4 DEF Terminate, Publish
<1>5. LoginServer \/ UNCHANGED vars => at' = at
  BY LoginServerFrame DEF vars
<1> QED
  BY <1>1, <1>2, <1>3, <1>4, <1>5, NextCases, HandlerContinues

LEMMA NextTasksTyped ==
  ASSUME Typed, [Next]_vars PROVE TasksTyped'
<1> USE DEF Typed, TasksTyped
<1>0. load.maxTasks \in Nat
  BY NetAssumption
<1>1. CASE tasks' = tasks /\ load' = load
  BY <1>1
<1>2. ASSUME NEW s \in Servers, NEW place \in AboutUsers \cup AboutGroups, NEW ok,
             PutTask(s, place, ok)
      PROVE  TasksTyped'
  <2>1. [from |-> at[s].who, to |-> at[s].arg] \in Task
    BY <1>2 DEF PutTask, HandlersTyped, Busy, AboutUsers, AboutGroups, Task
  <2>2. ASSUME tasks' = [tasks EXCEPT ![s] =
                           Append(@, [from |-> at[s].who, to |-> at[s].arg])]
        PROVE  TasksTyped'
    <3>1. /\ tasks'[s] \in Seq(Task) /\ Len(tasks'[s]) = Len(tasks[s]) + 1
          /\ Len(tasks[s]) \in Nat
      BY <2>1, <2>2, AppendProperties, LenProperties
    <3>2. Len(tasks[s]) < load.maxTasks /\ load' = load
      BY <1>2 DEF PutTask
    <3> QED
      BY <1>0, <2>2, <3>1, <3>2
  <2> QED
    BY <1>1, <1>2, <2>2 DEF PutTask
<1>3. ASSUME NEW s \in Servers, SendMessage(s) \/ SendGroupMessage(s) PROVE TasksTyped'
  BY <1>2, <1>3 DEF SendMessage, SendGroupMessage, AboutUsers, AboutGroups
<1>4. ASSUME NEW s \in Servers, Publish(s) PROVE TasksTyped'
  <2>1. /\ tasks'[s] \in Seq(Task) /\ Len(tasks'[s]) = Len(tasks[s]) - 1
        /\ Len(tasks[s]) \in Nat
    BY <1>4, HeadTailProperties, LenProperties DEF Publish
  <2> QED
    BY <1>0, <1>4, <2>1 DEF Publish
<1>5. ASSUME NEW s \in Servers, Retire(s) PROVE TasksTyped'
  <2>1. <<>> \in Seq(Task) /\ Len(<<>>) = 0
    BY EmptySeq
  <2> QED
    BY <1>0, <1>5, <2>1 DEF Retire
<1>6. ASSUME NEW s \in Servers, Accept(s) PROVE tasks' = tasks /\ load' = load
  BY <1>6, AcceptEffect
<1>7. ASSUME NEW s \in Servers, InviteChecks(s) \/ SendChecks(s) \/ GroupChecks(s)
      PROVE  tasks' = tasks /\ load' = load
  BY <1>7, ChecksEffect
<1>8. ASSUME NEW s \in Servers,
             \/ AddInvitation(s) \/ DeleteInvitation(s) \/ AddFriendship(s)
             \/ AddPost(s) \/ AddGroup(s) \/ AddMember(s) \/ Terminate(s)
             \/ Die(s)
      PROVE  tasks' = tasks /\ load' = load
  BY <1>8 DEF AddInvitation, DeleteInvitation, AddFriendship, AddPost, AddGroup,
       AddMember, Terminate, Die
<1>9. LoginServer \/ UNCHANGED vars => tasks' = tasks /\ load' = load
  BY LoginServerFrame DEF vars
<1> QED
  BY <1>1, <1>3, <1>4, <1>5, <1>6, <1>7, <1>8, <1>9, NextCases DEF Handle

LEMMA NextThreadsTyped ==
  ASSUME Typed, [Next]_vars PROVE ThreadsTyped'
<1> USE DEF ThreadsTyped
<1>0. ThreadsTyped /\ HandlersTyped
  BY DEF Typed
<1>1. ASSUME NEW s \in Servers, Terminate(s) \/ Publish(s) \/ Retire(s)
      PROVE  ThreadsTyped'
  BY <1>0, <1>1 DEF Terminate, Publish, Retire
<1>2. ASSUME NEW s \in Servers,
             Accept(s) \/ InviteChecks(s) \/ SendChecks(s) \/ GroupChecks(s)
      PROVE  amqp' = amqp
  BY <1>0, <1>2, AcceptEffect, ChecksEffect
<1>3. ASSUME NEW s \in Servers,
             \/ AddInvitation(s) \/ DeleteInvitation(s) \/ AddFriendship(s)
             \/ AddPost(s) \/ AddGroup(s) \/ AddMember(s) \/ Die(s)
             \/ SendMessage(s) \/ SendGroupMessage(s)
      PROVE  amqp' = amqp
  BY <1>3 DEF AddInvitation, DeleteInvitation, AddFriendship, AddPost, AddGroup,
       AddMember, Die, SendMessage, SendGroupMessage, PutTask
<1>4. LoginServer \/ UNCHANGED vars => amqp' = amqp
  BY LoginServerFrame DEF vars
<1> QED
  BY <1>0, <1>1, <1>2, <1>3, <1>4, NextCases DEF Handle

\* What the steps of an application server leave alone.
Writes(s) == \/ AddInvitation(s) \/ DeleteInvitation(s) \/ AddFriendship(s)
             \/ AddPost(s) \/ AddGroup(s) \/ AddMember(s)
LEMMA ServerFrame ==
  ASSUME HandlersTyped, NEW s \in Servers,
         Handle(s) \/ Terminate(s) \/ Publish(s) \/ Die(s) \/ Retire(s)
  PROVE  /\ UNCHANGED <<users, logins, home, del, load>>
         /\ Accept(s) \/ UNCHANGED history
         /\ Writes(s) \/ UNCHANGED db
<1>1. CASE Accept(s)
  BY <1>1, AcceptEffect
<1>2. CASE InviteChecks(s) \/ SendChecks(s) \/ GroupChecks(s)
  BY <1>2, ChecksEffect
<1>3. CASE Writes(s)
  BY <1>3 DEF Writes, AddInvitation, DeleteInvitation, AddFriendship, AddPost,
       AddGroup, AddMember
<1>4. CASE SendMessage(s) \/ SendGroupMessage(s) \/ Terminate(s) \/ Publish(s) \/ Die(s) \/ Retire(s)
  BY <1>4 DEF SendMessage, SendGroupMessage, PutTask, Terminate, Publish, Die, Retire
<1> QED
  BY <1>1, <1>2, <1>3, <1>4 DEF Handle, Writes

\* Replacing one cell of a table.
LEMMA OneCell ==
  ASSUME NEW S, NEW T, NEW f \in [S -> [T -> Nat]], NEW a \in S, NEW b \in T, NEW n \in Nat,
         NEW g, g = [f EXCEPT ![a][b] = n]
  PROVE  /\ g \in [S -> [T -> Nat]]
         /\ g[a][b] = n
         /\ \A c \in S, d \in T : c # a \/ d # b => g[c][d] = f[c][d]
OBVIOUS

LEMMA OneMore ==
  ASSUME NEW S, NEW T, NEW f \in [S -> [T -> Nat]], NEW a \in S, NEW b \in T,
         NEW g, g = [f EXCEPT ![a][b] = f[a][b] + 1]
  PROVE  /\ g \in [S -> [T -> Nat]]
         /\ g[a][b] = f[a][b] + 1
         /\ \A c \in S, d \in T : c # a \/ d # b => g[c][d] = f[c][d]
<1>1. f[a][b] + 1 \in Nat
  OBVIOUS
<1> QED
  BY <1>1, OneCell

LEMMA OneGroupMore ==
  ASSUME NEW T, NEW f \in [T -> Nat], NEW b \in T, NEW g, g = [f EXCEPT ![b] = f[b] + 1]
  PROVE  /\ g \in [T -> Nat] /\ g[b] = f[b] + 1
         /\ \A d \in T : d # b => g[d] = f[d]
<1>1. f[b] + 1 \in Nat
  OBVIOUS
<1> QED
  BY <1>1

\* What each write does.
LEMMA AddInvitationEffect ==
  ASSUME Typed, NEW s \in Servers, AddInvitation(s)
  PROVE  LET u == at[s].who
             x == at[s].arg IN
         /\ at[s].place = "invite add" /\ u \in Users /\ x \in Users
         /\ at'[s] = NoHandler
         /\ inv' \in [Users -> [Users -> Nat]]
         /\ inv'[u][x] = inv[u][x] + 1
         /\ \A c, d \in Users : c # u \/ d # x => inv'[c][d] = inv[c][d]
         /\ UNCHANGED <<friends, posts, groups, joined>>
<1>1. /\ at[s].place = "invite add" /\ at[s].who \in Users /\ at[s].arg \in Users
      /\ HandlersTyped /\ inv \in [Users -> [Users -> Nat]]
  BY DEF Typed, HandlersTyped, StoreTyped, AddInvitation, Busy, AboutUsers
<1>2. at'[s] = NoHandler
  BY <1>1, AnswerEffect DEF AddInvitation
<1>3. inv' = [inv EXCEPT ![at[s].who][at[s].arg] = inv[at[s].who][at[s].arg] + 1]
  BY DEF AddInvitation
<1>4. UNCHANGED <<friends, posts, groups, joined>>
  BY DEF AddInvitation
<1> DEFINE u == at[s].who
           x == at[s].arg
<1>5. /\ u \in Users /\ x \in Users /\ inv' = [inv EXCEPT ![u][x] = inv[u][x] + 1]
      /\ inv \in [Users -> [Users -> Nat]]
  BY <1>1, <1>3
<1> HIDE DEF u, x
<1>6. /\ inv' \in [Users -> [Users -> Nat]] /\ inv'[u][x] = inv[u][x] + 1
      /\ \A c, d \in Users : c # u \/ d # x => inv'[c][d] = inv[c][d]
  BY <1>5, OneMore
<1> QED
  BY <1>1, <1>2, <1>4, <1>6 DEF u, x

LEMMA DeleteInvitationEffect ==
  ASSUME Typed, NEW s \in Servers, DeleteInvitation(s)
  PROVE  LET u == at[s].who
             x == at[s].arg IN
         /\ at[s].place = "accept" /\ u \in Users /\ x \in Users
         /\ inv' \in [Users -> [Users -> Nat]]
         /\ \/ /\ inv[x][u] > 0 /\ inv'[x][u] = inv[x][u] - 1
               /\ \A c, d \in Users : c # x \/ d # u => inv'[c][d] = inv[c][d]
               /\ at'[s].place = "befriend" /\ at'[s].who = u /\ at'[s].arg = x
            \/ inv' = inv /\ at'[s] = NoHandler
         /\ UNCHANGED <<friends, posts, groups, joined>>
<1> DEFINE u == at[s].who
           x == at[s].arg
<1>1. /\ at[s].place = "accept" /\ u \in Users /\ x \in Users
      /\ HandlersTyped /\ inv \in [Users -> [Users -> Nat]]
      /\ UNCHANGED <<friends, posts, groups, joined>>
  BY DEF Typed, HandlersTyped, StoreTyped, DeleteInvitation, Busy, AboutUsers
<1>2. CASE Invited(x, u)
  <2>1. inv' = [inv EXCEPT ![x][u] = inv[x][u] - 1] /\ GoOn(s, "befriend")
    BY <1>2 DEF DeleteInvitation
  <2>2. inv[x][u] - 1 \in Nat /\ inv[x][u] > 0
    BY <1>1, <1>2 DEF Invited
  <2>3. at'[s].place = "befriend" /\ at'[s].who = u /\ at'[s].arg = x
    BY <1>1, <2>1, GoOnEffect DEF Places
  <2> HIDE DEF u, x
  <2>4. /\ inv' \in [Users -> [Users -> Nat]] /\ inv'[x][u] = inv[x][u] - 1
        /\ \A c, d \in Users : c # x \/ d # u => inv'[c][d] = inv[c][d]
    BY <1>1, <2>1, <2>2, OneCell
  <2> QED
    BY <1>1, <2>2, <2>3, <2>4 DEF u, x
<1>3. CASE ~Invited(x, u)
  BY <1>1, <1>3, AnswerEffect DEF DeleteInvitation
<1> QED
  BY <1>2, <1>3

LEMMA AddFriendshipEffect ==
  ASSUME Typed, NEW s \in Servers, AddFriendship(s)
  PROVE  LET u == at[s].who
             x == at[s].arg IN
         /\ at[s].place = "befriend" /\ u \in Users /\ x \in Users
         /\ at'[s] = NoHandler
         /\ friends' \in [Users -> [Users -> Nat]]
         /\ friends'[x][u] = friends[x][u] + 1
         /\ \A c, d \in Users : c # x \/ d # u => friends'[c][d] = friends[c][d]
         /\ UNCHANGED <<inv, posts, groups, joined>>
<1>1. /\ at[s].place = "befriend" /\ at[s].who \in Users /\ at[s].arg \in Users
      /\ HandlersTyped /\ friends \in [Users -> [Users -> Nat]]
  BY DEF Typed, HandlersTyped, StoreTyped, AddFriendship, Busy, AboutUsers
<1>2. at'[s] = NoHandler
  BY <1>1, AnswerEffect DEF AddFriendship
<1>3. friends' = [friends EXCEPT ![at[s].arg][at[s].who] = friends[at[s].arg][at[s].who] + 1]
  BY DEF AddFriendship
<1> QED
  BY <1>1, <1>2, <1>3, OneMore DEF AddFriendship

LEMMA AddPostEffect ==
  ASSUME Typed, NEW s \in Servers, AddPost(s)
  PROVE  /\ at[s].place = "post" /\ at[s].who \in Users
         /\ at'[s] = NoHandler
         /\ posts' = posts \cup {at[s].who}
         /\ UNCHANGED <<inv, friends, groups, joined>>
<1>1. at[s].place = "post" /\ at[s].who \in Users /\ HandlersTyped
  BY DEF Typed, HandlersTyped, AddPost, Busy
<1> QED
  BY <1>1, AnswerEffect DEF AddPost

LEMMA AddGroupEffect ==
  ASSUME Typed, NEW s \in Servers, AddGroup(s)
  PROVE  LET u == at[s].who
             x == at[s].arg IN
         /\ at[s].place = "create add" /\ u \in Users /\ x \in Groups
         /\ at'[s].place = "enlist" /\ at'[s].who = u /\ at'[s].arg = x
         /\ groups' \in [Groups -> Nat]
         /\ groups'[x] = groups[x] + 1
         /\ \A g \in Groups : g # x => groups'[g] = groups[g]
         /\ UNCHANGED <<inv, friends, posts, joined>>
<1>1. /\ at[s].place = "create add" /\ at[s].who \in Users /\ at[s].arg \in Groups
      /\ HandlersTyped /\ groups \in [Groups -> Nat]
  BY DEF Typed, HandlersTyped, StoreTyped, AddGroup, Busy, AboutGroups
<1>2. at'[s].place = "enlist" /\ at'[s].who = at[s].who /\ at'[s].arg = at[s].arg
  BY <1>1, GoOnEffect DEF AddGroup, Places
<1>3. groups' = [groups EXCEPT ![at[s].arg] = groups[at[s].arg] + 1]
  BY DEF AddGroup
<1>4. UNCHANGED <<inv, friends, posts, joined>>
  BY DEF AddGroup
<1> DEFINE x == at[s].arg
<1>5. /\ x \in Groups /\ groups' = [groups EXCEPT ![x] = groups[x] + 1]
      /\ groups \in [Groups -> Nat]
  BY <1>1, <1>3
<1> HIDE DEF x
<1>6. /\ groups' \in [Groups -> Nat] /\ groups'[x] = groups[x] + 1
      /\ \A g \in Groups : g # x => groups'[g] = groups[g]
  BY <1>5, OneGroupMore
<1> QED
  BY <1>1, <1>2, <1>4, <1>6 DEF x

LEMMA AddMemberEffect ==
  ASSUME Typed, NEW s \in Servers, AddMember(s)
  PROVE  LET u == at[s].who
             x == at[s].arg IN
         /\ at[s].place = "enlist" /\ u \in Users /\ x \in Groups
         /\ at'[s] = NoHandler
         /\ joined' \in [Users -> [Groups -> Nat]]
         /\ joined'[u][x] = joined[u][x] + 1
         /\ \A c \in Users, d \in Groups : c # u \/ d # x => joined'[c][d] = joined[c][d]
         /\ UNCHANGED <<inv, friends, posts, groups>>
<1>1. /\ at[s].place = "enlist" /\ at[s].who \in Users /\ at[s].arg \in Groups
      /\ HandlersTyped /\ joined \in [Users -> [Groups -> Nat]]
  BY DEF Typed, HandlersTyped, StoreTyped, AddMember, Busy, AboutGroups
<1>2. at'[s] = NoHandler
  BY <1>1, AnswerEffect DEF AddMember
<1>3. joined' = [joined EXCEPT ![at[s].who][at[s].arg] = joined[at[s].who][at[s].arg] + 1]
  BY DEF AddMember
<1> QED
  BY <1>1, <1>2, <1>3, OneMore DEF AddMember

\* What each of the six deletions does.
LEMMA DeleteManyEffect ==
  ASSUME DeleteTyped, NEW place, place # "idle", NEW next, DeleteMany(place, next)
  PROVE  del.place = place /\ del'.place = next /\ del'.who = del.who /\ del.who \in Users
BY DEF DeleteMany, DeleteTyped

LEMMA WithoutEffect ==
  ASSUME NEW f \in [Users -> [Users -> Nat]], NEW u \in Users
  PROVE  /\ Without(f, u) \in [Users -> [Users -> Nat]]
         /\ \A a, b \in Users :
              Without(f, u)[a][b] = IF a = u \/ b = u THEN 0 ELSE f[a][b]
BY DEF Without

LEMMA DeleteEffect ==
  ASSUME Typed
  PROVE  /\ DeleteJoined =>
              /\ del.place = "joined" /\ del'.place = "invitations" /\ del'.who = del.who
              /\ joined' \in [Users -> [Groups -> Nat]]
              /\ \A u \in Users, g \in Groups :
                   joined'[u][g] = IF u = del.who THEN 0 ELSE joined[u][g]
              /\ UNCHANGED <<users, logins, inv, friends, posts, groups, home, history>>
         /\ DeleteInvitations =>
              /\ del.place = "invitations" /\ del'.place = "friendships" /\ del'.who = del.who
              /\ inv' \in [Users -> [Users -> Nat]]
              /\ \A a, b \in Users :
                   inv'[a][b] = IF a = del.who \/ b = del.who THEN 0 ELSE inv[a][b]
              /\ UNCHANGED <<users, logins, friends, posts, groups, joined, home, history>>
         /\ DeleteFriendships =>
              /\ del.place = "friendships" /\ del'.place = "posts" /\ del'.who = del.who
              /\ friends' \in [Users -> [Users -> Nat]]
              /\ \A a, b \in Users :
                   friends'[a][b] = IF a = del.who \/ b = del.who THEN 0 ELSE friends[a][b]
              /\ UNCHANGED <<users, logins, inv, posts, groups, joined, home, history>>
         /\ DeletePosts =>
              /\ del.place = "posts" /\ del'.place = "login" /\ del'.who = del.who
              /\ posts' = posts \ {del.who}
              /\ UNCHANGED <<users, logins, inv, friends, groups, joined, home, history>>
         /\ DeleteLogin =>
              /\ del.place = "login" /\ del'.place = "user" /\ del'.who = del.who
              /\ logins' = logins \ {del.who}
              /\ UNCHANGED <<users, inv, friends, posts, groups, joined, home, history>>
         /\ DeleteUser =>
              /\ del.place = "user" /\ del'.place = "idle" /\ del'.who = NoOne
              /\ users' = users \ {del.who}
              /\ UNCHANGED <<logins, inv, friends, posts, groups, joined, history>>
<1> USE DEF Typed
<1>1. del.place # "idle" => del.who \in Users
  BY DEF DeleteTyped
<1>2. CASE DeleteJoined
  <2>1. del.place = "joined" /\ del'.place = "invitations" /\ del'.who = del.who
    BY <1>2, DeleteManyEffect DEF DeleteJoined
  <2>2. /\ joined' \in [Users -> [Groups -> Nat]]
        /\ \A u \in Users, g \in Groups :
             joined'[u][g] = IF u = del.who THEN 0 ELSE joined[u][g]
    BY <1>2 DEF DeleteJoined, StoreTyped
  <2> QED
    BY <1>2, <2>1, <2>2 DEF DeleteJoined, DeleteInvitations, DeleteFriendships,
       DeletePosts, DeleteLogin, DeleteUser, DeleteMany
<1>3. CASE DeleteInvitations
  <2>1. del.place = "invitations" /\ del'.place = "friendships" /\ del'.who = del.who
    BY <1>3, DeleteManyEffect DEF DeleteInvitations
  <2>2. /\ inv' \in [Users -> [Users -> Nat]]
        /\ \A a, b \in Users :
             inv'[a][b] = IF a = del.who \/ b = del.who THEN 0 ELSE inv[a][b]
    <3>1. /\ inv' = Without(inv, del.who) /\ del.who \in Users
          /\ inv \in [Users -> [Users -> Nat]]
      BY <1>1, <1>3, <2>1 DEF DeleteInvitations, StoreTyped
    <3> QED
      BY <3>1, WithoutEffect
  <2> QED
    BY <1>3, <2>1, <2>2 DEF DeleteJoined, DeleteInvitations, DeleteFriendships,
       DeletePosts, DeleteLogin, DeleteUser, DeleteMany
<1>4. CASE DeleteFriendships
  <2>1. del.place = "friendships" /\ del'.place = "posts" /\ del'.who = del.who
    BY <1>4, DeleteManyEffect DEF DeleteFriendships
  <2>2. /\ friends' \in [Users -> [Users -> Nat]]
        /\ \A a, b \in Users :
             friends'[a][b] = IF a = del.who \/ b = del.who THEN 0 ELSE friends[a][b]
    <3>1. /\ friends' = Without(friends, del.who) /\ del.who \in Users
          /\ friends \in [Users -> [Users -> Nat]]
      BY <1>1, <1>4, <2>1 DEF DeleteFriendships, StoreTyped
    <3> QED
      BY <3>1, WithoutEffect
  <2> QED
    BY <1>4, <2>1, <2>2 DEF DeleteJoined, DeleteInvitations, DeleteFriendships,
       DeletePosts, DeleteLogin, DeleteUser, DeleteMany
<1>5. DeletePosts =>
              /\ del.place = "posts" /\ del'.place = "login" /\ del'.who = del.who
              /\ posts' = posts \ {del.who}
              /\ UNCHANGED <<users, logins, inv, friends, groups, joined, home, history>>
  BY DeleteManyEffect DEF DeletePosts
<1>6. DeleteLogin =>
              /\ del.place = "login" /\ del'.place = "user" /\ del'.who = del.who
              /\ logins' = logins \ {del.who}
              /\ UNCHANGED <<users, inv, friends, posts, groups, joined, home, history>>
  BY DeleteManyEffect DEF DeleteLogin
<1>7. DeleteUser =>
              /\ del.place = "user" /\ del'.place = "idle" /\ del'.who = NoOne
              /\ users' = users \ {del.who}
              /\ UNCHANGED <<logins, inv, friends, posts, groups, joined, history>>
  BY DEF DeleteUser
<1> QED
  BY <1>2, <1>3, <1>4, <1>5, <1>6, <1>7

LEMMA NextStoreTyped ==
  ASSUME Typed, [Next]_vars PROVE StoreTyped' /\ DeleteTyped' /\ HistoryTyped'
<1> USE DEF Typed
<1>1. ASSUME NEW s \in Servers, Handle(s) \/ Terminate(s) \/ Publish(s) \/ Die(s) \/ Retire(s)
      PROVE  StoreTyped' /\ DeleteTyped' /\ HistoryTyped'
  <2>0. HandlersTyped
    OBVIOUS
  <2>1. DeleteTyped'
    BY <1>1, ServerFrame DEF DeleteTyped
  <2>2. StoreTyped'
    <3>1. CASE Writes(s)
      <4>1. UNCHANGED <<users, logins, home>>
        BY <1>1, ServerFrame
      <4>2. CASE AddInvitation(s)
        BY <4>1, <4>2, AddInvitationEffect DEF StoreTyped
      <4>3. CASE DeleteInvitation(s)
        BY <4>1, <4>3, DeleteInvitationEffect DEF StoreTyped
      <4>4. CASE AddFriendship(s)
        BY <4>1, <4>4, AddFriendshipEffect DEF StoreTyped
      <4>5. CASE AddPost(s)
        BY <4>1, <4>5, AddPostEffect DEF StoreTyped
      <4>6. CASE AddGroup(s)
        BY <4>1, <4>6, AddGroupEffect DEF StoreTyped
      <4>7. CASE AddMember(s)
        BY <4>1, <4>7, AddMemberEffect DEF StoreTyped
      <4> QED
        BY <3>1, <4>2, <4>3, <4>4, <4>5, <4>6, <4>7 DEF Writes
    <3> QED
      BY <1>1, <3>1, ServerFrame DEF StoreTyped
  <2>3. HistoryTyped'
    <3>1. CASE Accept(s)
      <4>1. at'[s].who \in Users /\ at'[s].arg \in Users \cup Groups \cup {NoOne}
        BY <2>0, <3>1, AcceptEffect DEF StoreTyped
      <4>2. Topic(at'[s].who, at'[s].arg) \in SUBSET (Users \cup Groups \cup {NoOne})
        BY <4>1 DEF Topic
      <4>3. /\ clashed' \subseteq clashed \cup {Topic(at'[s].who, at'[s].arg)}
            /\ strayed' \subseteq strayed \cup {at'[s].who}
            /\ raced' \subseteq raced \cup ({del.who} \ {NoOne})
        BY <2>0, <3>1, AcceptEffect
      <4> QED
        BY <4>1, <4>2, <4>3 DEF HistoryTyped, DeleteTyped
    <3> QED
      BY <1>1, <3>1, ServerFrame DEF HistoryTyped
  <2> QED
    BY <2>1, <2>2, <2>3
<1>2. CASE LoginServer
  <2>1. ASSUME NEW u \in Users, Register(u) \/ Logout(u) \/ Delete(u)
        PROVE  StoreTyped' /\ DeleteTyped' /\ HistoryTyped'
    <3> USE DEF StoreTyped, DeleteTyped, HistoryTyped
    <3>1. CASE Register(u)
      BY <3>1 DEF Register, LoginServerIdle
    <3>2. CASE Logout(u)
      BY <3>2 DEF Logout, LoginServerIdle
    <3>3. CASE Delete(u)
      BY <3>3 DEF Delete, LoginServerIdle
    <3> QED
      BY <2>1, <3>1, <3>2, <3>3
  <2>2. ASSUME NEW u \in Users, NEW s \in load.servers, Login(u, s)
        PROVE  StoreTyped' /\ DeleteTyped' /\ HistoryTyped'
    BY <2>2, NetAssumption DEF Login, LoginServerIdle,
         StoreTyped, DeleteTyped, HistoryTyped
  <2>3. ASSUME \/ DeleteJoined \/ DeleteInvitations \/ DeleteFriendships \/ DeletePosts
               \/ DeleteLogin
        PROVE  StoreTyped' /\ HistoryTyped' /\ del'.who = del.who
    <3>1. CASE DeleteJoined
      BY <3>1, DeleteEffect DEF StoreTyped, HistoryTyped
    <3>2. CASE DeleteInvitations
      BY <3>2, DeleteEffect DEF StoreTyped, HistoryTyped
    <3>3. CASE DeleteFriendships
      BY <3>3, DeleteEffect DEF StoreTyped, HistoryTyped
    <3>4. CASE DeletePosts
      BY <3>4, DeleteEffect DEF StoreTyped, HistoryTyped
    <3>5. CASE DeleteLogin
      BY <3>5, DeleteEffect DEF StoreTyped, HistoryTyped
    <3> QED
      BY <2>3, <3>1, <3>2, <3>3, <3>4, <3>5
  <2>4. ASSUME \/ DeleteJoined \/ DeleteInvitations \/ DeleteFriendships \/ DeletePosts
               \/ DeleteLogin
        PROVE  DeleteTyped'
    <3>1. /\ del' \in [place : {"idle", "joined", "invitations", "friendships", "posts",
                                "login", "user"}, who : Users \cup {NoOne}]
          /\ del.place # "idle" /\ del'.place # "idle"
      BY <2>4 DEF DeleteJoined, DeleteInvitations, DeleteFriendships, DeletePosts,
           DeleteLogin, DeleteMany, DeleteTyped
    <3>2. del'.place = "user" => del'.who \notin logins'
      BY <2>4, DeleteEffect
    <3> QED
      BY <2>3, <2>4, <3>1, <3>2 DEF DeleteTyped
  <2>5. CASE DeleteUser
    <3>1. UNCHANGED <<logins, inv, friends, posts, groups, joined, history>>
      BY <2>5 DEF DeleteUser
    <3>2. users' \subseteq Users /\ logins' \subseteq users'
      BY <2>5, <3>1, DeleteEffect DEF DeleteTyped, StoreTyped
    <3>3. home' \in [Users -> Servers \cup {NoServer}]
      BY <2>5 DEF DeleteUser, StoreTyped
    <3>4. DeleteTyped'
      BY <2>5, NetAssumption DEF DeleteUser, DeleteTyped
    <3>5. posts' \subseteq Users /\ HistoryTyped'
      BY <3>1 DEF StoreTyped, HistoryTyped
    <3>6. inv' = inv /\ friends' = friends /\ groups' = groups /\ joined' = joined
      BY <3>1
    <3> QED
      BY <3>2, <3>3, <3>4, <3>5, <3>6 DEF StoreTyped
  <2>6. CASE LoginServerDies
    BY <2>6, NetAssumption DEF LoginServerDies, StoreTyped, DeleteTyped, HistoryTyped
  <2> QED
    BY <1>2, <2>1, <2>2, <2>3, <2>4, <2>5, <2>6 DEF LoginServer
<1>3. CASE UNCHANGED vars
  BY <1>3 DEF vars, StoreTyped, DeleteTyped, HistoryTyped
<1> QED
  BY <1>1, <1>2, <1>3, NextCases

LEMMA NextTyped == ASSUME Typed, [Next]_vars PROVE Typed'
<1>1. load' = load
  BY NextCases, ServerFrame, LoginServerFrame DEF vars, Typed
<1> QED
  BY <1>1, NextHandlersTyped, NextTasksTyped, NextThreadsTyped, NextStoreTyped DEF Typed

----------------------------------------------------------------------------
(* Races with a delete *)

\* What a handler has found when it goes on after a check.
LEMMA ChecksFound ==
  ASSUME HandlersTyped, NEW s \in Servers,
         InviteChecks(s) \/ SendChecks(s) \/ GroupChecks(s), at'[s] # NoHandler
  PROVE  LET u == at[s].who
             x == at[s].arg
             p == at[s].place
             q == at'[s].place IN
         \/ p = "invite user" /\ q = "invite counter" /\ x \in users
         \/ p = "invite counter" /\ q = "invite friends" /\ ~Invited(x, u)
         \/ p = "invite friends" /\ q = "invite again" /\ ~Friends(u, x)
         \/ p = "invite again" /\ q = "invite add" /\ ~Invited(u, x) /\ u # x
         \/ p = "send user" /\ q = "send friends" /\ x \in users
         \/ p = "send friends" /\ q = "send online" /\ Friends(u, x)
         \/ p = "create" /\ q = "create add" /\ ~GroupExists(x)
         \/ p = "join group" /\ q = "join member" /\ GroupExists(x)
         \/ p = "join member" /\ q = "enlist" /\ ~IsMember(u, x)
         \/ p = "group" /\ q = "group member" /\ GroupExists(x)
<1> USE GoOnEffect, AnswerEffect DEF Check, Places
<1>1. CASE InviteChecks(s)
  BY <1>1 DEF InviteChecks
<1>2. CASE SendChecks(s)
  BY <1>2 DEF SendChecks
<1>3. CASE GroupChecks(s)
  BY <1>3 DEF GroupChecks
<1> QED
  BY <1>1, <1>2, <1>3

\* The steps of a server that neither accept, nor check, nor write: the handler
\* stays as it is or ends, and the database does not change.
Others(s) == SendMessage(s) \/ SendGroupMessage(s) \/ Terminate(s) \/ Publish(s) \/ Die(s) \/ Retire(s)
LEMMA OthersEffect ==
  ASSUME HandlersTyped, NEW s \in Servers, Others(s)
  PROVE  /\ at' \in [Servers -> Handler]
         /\ at'[s] = at[s] \/ at'[s].place \in {"idle", "dead"}
         /\ \A t \in Servers : t # s => at'[t] = at[t]
         /\ UNCHANGED <<db, home, del, load, history>>
<1>1. CASE SendMessage(s) \/ SendGroupMessage(s) \/ Retire(s)
  BY <1>1, AnswerEffect, Idle DEF SendMessage, SendGroupMessage, PutTask, Retire
<1>2. CASE Terminate(s) \/ Publish(s)
  BY <1>2 DEF Terminate, Publish, HandlersTyped
<1>3. CASE Die(s)
  BY <1>3 DEF Die, NoHandler, HandlersTyped, Handler, Places
<1> QED
  BY <1>1, <1>2, <1>3 DEF Others

\* The kinds of steps that the proofs below tell apart.
LEMMA StepKinds ==
  ASSUME Typed, [Next]_vars
  PROVE  \/ \E s \in Servers :
              \/ Accept(s) \/ InviteChecks(s) \/ SendChecks(s) \/ GroupChecks(s)
              \/ Writes(s) \/ Others(s)
         \/ LoginServer
         \/ UNCHANGED vars
BY NextCases DEF Handle, Writes, Others

LEMMA WritesFrame ==
  ASSUME Typed, NEW s \in Servers, Writes(s)
  PROVE  /\ Busy(s) /\ Continues(s)
         /\ UNCHANGED <<users, logins, home, del, load, history>>
<1>1. HandlersTyped /\ Handle(s) /\ ~Accept(s)
  BY AcceptEffect DEF Writes, Handle, Typed, AddInvitation, DeleteInvitation,
     AddFriendship, AddPost, AddGroup, AddMember
<1>2. Busy(s)
  BY DEF Writes, Busy, AddInvitation, DeleteInvitation, AddFriendship, AddPost,
     AddGroup, AddMember
<1> QED
  BY <1>1, <1>2, HandlerContinues, ServerFrame

LEMMA NextRaces ==
  ASSUME Typed, RacesKnown, OrphansOnlyByRace, [Next]_vars PROVE RacesKnown'
<1> USE DEF Typed
<1>0. HandlersTyped /\ LookedUp \subseteq Places \ {"idle", "dead"} /\ NoOne \notin Users
  BY NetAssumption DEF LookedUp, Places
<1>1. ASSUME NEW s \in Servers, Accept(s) PROVE RacesKnown'
  <2>1. /\ at'[s].who \in users /\ at'[s].place \notin LookedUp
    BY <1>0, <1>1, AcceptEffect DEF StoreTyped, LookedUp
  <2>2. /\ \A t \in Servers : t # s => at'[t] = at[t]
        /\ raced \subseteq raced' /\ UNCHANGED <<users, del>>
        /\ del.who \in {at'[s].who, at'[s].arg} \ {NoOne} => del.who \in raced'
    BY <1>0, <1>1, AcceptEffect
  <2> QED
    BY <1>0, <2>1, <2>2 DEF RacesKnown, Named, Busy
<1>2. ASSUME NEW s \in Servers, Continues(s) \/ at'= at, UNCHANGED <<users, del, raced>>,
             at'[s].place \in LookedUp => at[s].place \in LookedUp \/ at[s].arg \in users \cup raced
      PROVE  RacesKnown'
  <2>1. ASSUME NEW t \in Servers, t # s \/ at' = at PROVE at'[t] = at[t]
    BY <1>2, <2>1 DEF Continues
  <2>2. ASSUME Busy(s)', at' # at
        PROVE  Busy(s) /\ at'[s].who = at[s].who /\ at'[s].arg = at[s].arg
    BY <1>2, <2>2 DEF Continues, Busy, AboutUsers, AboutGroups
  <2> QED
    BY <1>0, <1>2, <2>1, <2>2 DEF RacesKnown, Named, Busy
<1>3. ASSUME NEW s \in Servers, InviteChecks(s) \/ SendChecks(s) \/ GroupChecks(s)
      PROVE  RacesKnown'
  <2>1. Continues(s) /\ UNCHANGED <<users, del, raced>>
    BY <1>0, <1>3, ChecksEffect, Idle DEF Continues
  <2>2. at'[s].place \in LookedUp => at[s].place \in LookedUp \/ at[s].arg \in users
    BY <1>0, <1>3, ChecksFound, Idle DEF LookedUp
  <2> QED
    BY <1>2, <2>1, <2>2
<1>4. ASSUME NEW s \in Servers, Writes(s) PROVE RacesKnown'
  <2>1. Continues(s) /\ UNCHANGED <<users, del, raced>>
    BY <1>4, WritesFrame
  <2>2. CASE DeleteInvitation(s)
    <3>1. /\ at[s].who \in Users /\ at[s].arg \in Users
          /\ at'[s] # NoHandler => inv[at[s].arg][at[s].who] > 0
      BY <2>2, DeleteInvitationEffect
    <3>2. /\ inv[at[s].arg][at[s].who] \in Nat /\ friends[at[s].arg][at[s].who] \in Nat
      BY <3>1 DEF StoreTyped
    <3>3. at'[s] # NoHandler => at[s].arg \in users \cup raced
      BY <3>1, <3>2 DEF OrphansOnlyByRace
    <3> QED
      BY <1>2, <2>1, <3>3, Idle DEF LookedUp
  <2>3. CASE AddGroup(s)
    BY <1>2, <2>1, <2>3, AddGroupEffect DEF LookedUp
  <2>4. CASE ~DeleteInvitation(s) /\ ~AddGroup(s)
    <3>1. at'[s] = NoHandler
      BY <1>4, <2>4, AddInvitationEffect, AddFriendshipEffect, AddPostEffect, AddMemberEffect
         DEF Writes
    <3> QED
      BY <1>2, <2>1, <3>1, Idle DEF LookedUp
  <2> QED
    BY <2>2, <2>3, <2>4
<1>5. ASSUME NEW s \in Servers, Others(s) PROVE RacesKnown'
  <2>1. \A t \in Servers : at'[t] = at[t] \/ at'[t].place \in {"idle", "dead"}
    BY <1>0, <1>5, OthersEffect
  <2>2. UNCHANGED <<users, del, raced>>
    BY <1>0, <1>5, OthersEffect
  <2> QED
    BY <1>0, <2>1, <2>2 DEF RacesKnown, Named, Busy
<1>6. CASE LoginServer
  <2>0. at' = at
    BY <1>6, LoginServerFrame
  <2>1. ASSUME NEW u \in Users, Register(u) \/ Logout(u) PROVE RacesKnown'
    BY <2>0, <2>1 DEF Register, Logout, RacesKnown, Busy, Named
  <2>2. ASSUME NEW u \in Users, Delete(u) PROVE RacesKnown'
    BY <2>0, <2>2 DEF Delete, RacesKnown, Busy, Named
  <2>3. ASSUME NEW u \in Users, NEW s \in load.servers, Login(u, s) PROVE RacesKnown'
    BY <2>0, <2>3 DEF Login, RacesKnown, Busy, Named
  <2>4. ASSUME del'.who = del.who, UNCHANGED <<users, raced>> PROVE RacesKnown'
    BY <2>0, <2>4 DEF RacesKnown, Busy, Named
  <2>5. CASE DeleteUser
    <3>1. /\ users' = users \ {del.who} /\ del'.who = NoOne /\ raced' = raced
          /\ del.who \in Users
      BY <2>5, DeleteEffect DEF DeleteTyped
    <3> QED
      BY <1>0, <2>0, <3>1 DEF RacesKnown, Named, Busy
  <2>6. CASE LoginServerDies
    BY <1>0, <2>0, <2>6 DEF LoginServerDies, RacesKnown, Named, Busy
  <2> QED
    BY <1>6, <2>1, <2>2, <2>3, <2>4, <2>5, <2>6, DeleteEffect DEF LoginServer
<1>7. CASE UNCHANGED vars
  BY <1>7 DEF vars, RacesKnown, Named, Busy
<1> QED
  BY <1>1, <1>3, <1>4, <1>5, <1>6, <1>7, StepKinds

\* A handler that nobody is known to race with does not name the user being
\* deleted.
LEMMA NotNamed ==
  ASSUME Typed, RacesKnown, NEW s \in Servers, Busy(s), del.who \in Users \ raced
  PROVE  at[s].who # del.who /\ at[s].arg # del.who
BY DEF RacesKnown, Named

LEMMA NextClean ==
  ASSUME Typed, RacesKnown, DeleteClean, [Next]_vars PROVE DeleteClean'
<1> USE DEF Typed
<1>0. HandlersTyped /\ NoOne \notin Users
  BY NetAssumption
<1>1. ASSUME UNCHANGED <<del, inv, friends, posts, joined>>, raced \subseteq raced'
      PROVE  DeleteClean'
  BY <1>1 DEF DeleteClean
<1>2. ASSUME NEW s \in Servers, Writes(s) PROVE DeleteClean'
  <2>0. Busy(s) /\ UNCHANGED <<del, raced>>
    BY <1>2, WritesFrame
  <2> SUFFICES ASSUME del.who \in Users \ raced PROVE DeleteClean'
    BY <2>0 DEF DeleteClean
  <2>1. at[s].who # del.who /\ at[s].arg # del.who
    BY <2>0, NotNamed
  <2>2. CASE AddInvitation(s)
    <3>1. /\ \A c, d \in Users : c # at[s].who \/ d # at[s].arg => inv'[c][d] = inv[c][d]
          /\ UNCHANGED <<friends, posts, joined>>
      BY <2>2, AddInvitationEffect
    <3>2. \A a \in Users : /\ inv'[a][del.who] = inv[a][del.who]
                          /\ inv'[del.who][a] = inv[del.who][a]
      BY <2>1, <3>1
    <3> QED
      BY <2>0, <3>1, <3>2 DEF DeleteClean
  <2>3. CASE DeleteInvitation(s)
    BY <2>0, <2>1, <2>3, DeleteInvitationEffect DEF DeleteClean
  <2>4. CASE AddFriendship(s)
    BY <2>0, <2>1, <2>4, AddFriendshipEffect DEF DeleteClean
  <2>5. CASE AddPost(s)
    BY <2>0, <2>1, <2>5, AddPostEffect DEF DeleteClean
  <2>6. CASE AddGroup(s)
    <3>1. UNCHANGED <<inv, friends, posts, joined>>
      BY <2>6, AddGroupEffect
    <3> QED
      BY <1>1, <2>0, <3>1
  <2>7. CASE AddMember(s)
    BY <2>0, <2>1, <2>7, AddMemberEffect DEF DeleteClean
  <2> QED
    BY <1>2, <2>2, <2>3, <2>4, <2>5, <2>6, <2>7 DEF Writes
<1>3. CASE LoginServer
  <2>1. ASSUME NEW u \in Users,
               Register(u) \/ Logout(u) \/ \E s \in load.servers : Login(u, s)
        PROVE  DeleteClean'
    BY <1>1, <2>1 DEF Register, Logout, Login
  <2>2. ASSUME NEW u \in Users, Delete(u) PROVE DeleteClean'
    BY <2>2 DEF Delete, DeleteClean
  <2>3. CASE DeleteJoined
    BY <2>3, DeleteEffect DEF DeleteClean
  <2>4. CASE DeleteInvitations
    BY <2>4, DeleteEffect DEF DeleteClean
  <2>5. CASE DeleteFriendships
    BY <2>5, DeleteEffect DEF DeleteClean
  <2>6. CASE DeletePosts
    BY <2>6, DeleteEffect DEF DeleteClean
  <2>7. CASE DeleteLogin
    BY <2>7, DeleteEffect DEF DeleteClean
  <2>8. CASE DeleteUser \/ LoginServerDies
    BY <1>0, <2>8 DEF DeleteUser, LoginServerDies, DeleteClean
  <2> QED
    BY <1>3, <2>1, <2>2, <2>3, <2>4, <2>5, <2>6, <2>7, <2>8 DEF LoginServer
<1>4. ASSUME NEW s \in Servers,
             Accept(s) \/ InviteChecks(s) \/ SendChecks(s) \/ GroupChecks(s) \/ Others(s)
      PROVE  DeleteClean'
  <2>1. /\ UNCHANGED <<del, inv, friends, posts, joined>>
        /\ raced \subseteq raced'
    BY <1>0, <1>4, AcceptEffect, ChecksEffect, OthersEffect
  <2> QED
    BY <1>1, <2>1
<1> QED
  BY <1>1, <1>2, <1>3, <1>4, StepKinds DEF vars

LEMMA NextOrphans ==
  ASSUME Typed, RacesKnown, DeleteClean, OrphansOnlyByRace, [Next]_vars
  PROVE  OrphansOnlyByRace'
<1> USE DEF Typed
<1>0. HandlersTyped /\ NoOne \notin Users
  BY NetAssumption
<1>t. /\ \A a, b \in Users : inv[a][b] \in Nat /\ friends[a][b] \in Nat
      /\ \A u \in Users, g \in Groups : joined[u][g] \in Nat
  BY DEF StoreTyped
<1>1. ASSUME UNCHANGED <<inv, friends, posts, joined>>, raced \subseteq raced',
             users \subseteq users'
      PROVE  OrphansOnlyByRace'
  BY <1>1 DEF OrphansOnlyByRace
<1>2. ASSUME NEW s \in Servers, Writes(s) PROVE OrphansOnlyByRace'
  <2>0. Busy(s) /\ UNCHANGED <<users, raced>>
    BY <1>2, WritesFrame
  <2>1. /\ at[s].who \in users \cup raced
        /\ at[s].place \in LookedUp => at[s].arg \in users \cup raced
    BY <2>0 DEF RacesKnown
  <2>2. CASE AddInvitation(s)
    <3>1. /\ \A c, d \in Users : c # at[s].who \/ d # at[s].arg => inv'[c][d] = inv[c][d]
          /\ UNCHANGED <<friends, posts, joined>>
          /\ at[s].place = "invite add"
      BY <2>2, AddInvitationEffect
    <3>2. at[s].who \in users \cup raced /\ at[s].arg \in users \cup raced
      BY <2>1, <3>1 DEF LookedUp
    <3>3. ASSUME NEW a \in Users, NEW b \in Users, inv'[a][b] + friends'[a][b] > 0
          PROVE  {a, b} \subseteq users \cup raced
      <4>1. CASE a = at[s].who /\ b = at[s].arg
        BY <3>2, <4>1
      <4>2. CASE a # at[s].who \/ b # at[s].arg
        BY <3>1, <3>3, <4>2 DEF OrphansOnlyByRace
      <4> QED
        BY <4>1, <4>2
    <3> QED
      BY <2>0, <3>1, <3>3 DEF OrphansOnlyByRace
  <2>3. CASE DeleteInvitation(s)
    BY <2>0, <2>1, <2>3, <1>t, DeleteInvitationEffect DEF OrphansOnlyByRace
  <2>4. CASE AddFriendship(s)
    <3>1. /\ \A c, d \in Users : c # at[s].arg \/ d # at[s].who => friends'[c][d] = friends[c][d]
          /\ UNCHANGED <<inv, posts, joined>>
          /\ at[s].place = "befriend"
      BY <2>4, AddFriendshipEffect
    <3>2. at[s].who \in users \cup raced /\ at[s].arg \in users \cup raced
      BY <2>1, <3>1 DEF LookedUp
    <3>3. ASSUME NEW a \in Users, NEW b \in Users, inv'[a][b] + friends'[a][b] > 0
          PROVE  {a, b} \subseteq users \cup raced
      <4>1. CASE a = at[s].arg /\ b = at[s].who
        BY <3>2, <4>1
      <4>2. CASE a # at[s].arg \/ b # at[s].who
        BY <3>1, <3>3, <4>2 DEF OrphansOnlyByRace
      <4> QED
        BY <4>1, <4>2
    <3> QED
      BY <2>0, <3>1, <3>3 DEF OrphansOnlyByRace
  <2>5. CASE AddPost(s)
    BY <2>0, <2>1, <2>5, AddPostEffect DEF OrphansOnlyByRace
  <2>6. CASE AddGroup(s)
    BY <2>0, <2>1, <2>6, AddGroupEffect DEF OrphansOnlyByRace
  <2>7. CASE AddMember(s)
    BY <2>0, <2>1, <2>7, <1>t, AddMemberEffect DEF OrphansOnlyByRace
  <2> QED
    BY <1>2, <2>2, <2>3, <2>4, <2>5, <2>6, <2>7 DEF Writes
<1>3. CASE LoginServer
  <2>1. ASSUME NEW u \in Users,
               \/ Register(u) \/ Logout(u) \/ Delete(u)
               \/ \E s \in load.servers : Login(u, s)
        PROVE  OrphansOnlyByRace'
    BY <1>1, <2>1 DEF Register, Logout, Login, Delete
  <2>3. CASE DeleteJoined
    BY <2>3, DeleteEffect DEF OrphansOnlyByRace
  <2>4. CASE DeleteInvitations
    BY <2>4, <1>t, DeleteEffect DEF OrphansOnlyByRace
  <2>5. CASE DeleteFriendships
    BY <2>5, <1>t, DeleteEffect DEF OrphansOnlyByRace
  <2>6. CASE DeletePosts
    BY <2>6, DeleteEffect DEF OrphansOnlyByRace
  <2>7. CASE DeleteLogin \/ LoginServerDies
    BY <1>1, <2>7, DeleteEffect DEF LoginServerDies
  <2>8. CASE DeleteUser
    <3>1. /\ del.place = "user" /\ users' = users \ {del.who} /\ del.who \in Users
          /\ UNCHANGED <<inv, friends, posts, joined, raced>>
      BY <2>8, DeleteEffect DEF DeleteTyped
    <3>2. CASE del.who \in raced
      BY <3>1, <3>2 DEF OrphansOnlyByRace
    <3>3. CASE del.who \notin raced
      <4>1. /\ \A g \in Groups : joined[del.who][g] = 0
            /\ \A a \in Users : inv[a][del.who] = 0 /\ inv[del.who][a] = 0
            /\ \A a \in Users : friends[a][del.who] = 0 /\ friends[del.who][a] = 0
            /\ del.who \notin posts
        BY <3>1, <3>3 DEF DeleteClean
      <4> QED
        BY <3>1, <4>1 DEF OrphansOnlyByRace
    <3> QED
      BY <3>2, <3>3
  <2> QED
    BY <1>3, <2>1, <2>3, <2>4, <2>5, <2>6, <2>7, <2>8 DEF LoginServer
<1>4. ASSUME NEW s \in Servers,
             Accept(s) \/ InviteChecks(s) \/ SendChecks(s) \/ GroupChecks(s) \/ Others(s)
      PROVE  OrphansOnlyByRace'
  <2>1. /\ UNCHANGED <<users, inv, friends, posts, joined>>
        /\ raced \subseteq raced'
    BY <1>0, <1>4, AcceptEffect, ChecksEffect, OthersEffect
  <2> QED
    BY <1>1, <2>1
<1> QED
  BY <1>1, <1>2, <1>3, <1>4, StepKinds DEF vars

----------------------------------------------------------------------------
(* Overlapping handlers *)

LEMMA NextOverlaps ==
  ASSUME Typed, OverlapsKnown, [Next]_vars PROVE OverlapsKnown'
<1> USE DEF Typed
<1>0. HandlersTyped
  OBVIOUS
<1>1. ASSUME NEW s \in Servers, Accept(s) PROVE OverlapsKnown'
  <2> DEFINE u == at'[s].who
             k == Topic(at'[s].who, at'[s].arg)
  <2>1. /\ \A t \in Servers : t # s => at'[t] = at[t]
        /\ clashed \subseteq clashed' /\ strayed \subseteq strayed'
        /\ \A t \in Servers : t # s /\ Busy(t) /\ Topic(at[t].who, at[t].arg) = k
                                => k \in clashed'
        /\ \A t \in Servers : t # s /\ Busy(t) /\ at[t].who = u => u \in strayed'
    BY <1>0, <1>1, AcceptEffect
  <2> SUFFICES ASSUME NEW t \in Servers, NEW r \in Servers, t # r, Busy(t)', Busy(r)'
               PROVE  /\ HandlerTopic(t)' = HandlerTopic(r)' => HandlerTopic(t)' \in clashed'
                      /\ at'[t].who = at'[r].who => at'[t].who \in strayed'
    BY DEF OverlapsKnown
  <2>2. CASE t # s /\ r # s
    BY <2>1, <2>2 DEF OverlapsKnown, HandlerTopic, Busy
  <2>3. CASE t = s
    BY <2>1, <2>3 DEF HandlerTopic, Busy
  <2>4. CASE r = s
    BY <2>1, <2>4 DEF HandlerTopic, Busy
  <2> QED
    BY <2>2, <2>3, <2>4
<1>2. ASSUME NEW s \in Servers, Continues(s), UNCHANGED <<clashed, strayed>>
      PROVE  OverlapsKnown'
  <2>1. \A t \in Servers : Busy(t)' =>
          Busy(t) /\ at'[t].who = at[t].who /\ at'[t].arg = at[t].arg
    BY <1>2 DEF Continues, Busy, AboutUsers, AboutGroups
  <2> QED
    BY <1>2, <2>1 DEF OverlapsKnown, HandlerTopic
<1>3. ASSUME NEW s \in Servers, InviteChecks(s) \/ SendChecks(s) \/ GroupChecks(s)
      PROVE  OverlapsKnown'
  <2>1. Continues(s) /\ UNCHANGED <<clashed, strayed>>
    BY <1>0, <1>3, ChecksEffect, Idle DEF Continues
  <2> QED
    BY <1>2, <2>1
<1>4. ASSUME NEW s \in Servers, Writes(s) PROVE OverlapsKnown'
  <2>1. Continues(s) /\ UNCHANGED <<clashed, strayed>>
    BY <1>4, WritesFrame
  <2> QED
    BY <1>2, <2>1
<1>5. ASSUME NEW s \in Servers, Others(s) PROVE OverlapsKnown'
  <2>1. \A t \in Servers : at'[t] = at[t] \/ at'[t].place \in {"idle", "dead"}
    BY <1>0, <1>5, OthersEffect
  <2>2. UNCHANGED <<clashed, strayed>>
    BY <1>0, <1>5, OthersEffect
  <2> QED
    BY <2>1, <2>2 DEF OverlapsKnown, HandlerTopic, Busy
<1>6. ASSUME UNCHANGED <<at, clashed, strayed>> PROVE OverlapsKnown'
  BY <1>6 DEF OverlapsKnown, HandlerTopic, Busy
<1> QED
  BY <1>1, <1>3, <1>4, <1>5, <1>6, StepKinds, LoginServerFrame DEF vars

\* Two handlers that do not clash are about different pairs, or groups.
LEMMA DifferentPairs ==
  ASSUME Typed, OverlapsKnown, NEW s \in Servers, NEW t \in Servers, s # t,
         Busy(s), Busy(t), at[s].arg \in Users, at[t].arg \in Users,
         {at[t].who, at[t].arg} \notin clashed
  PROVE  {at[s].who, at[s].arg} # {at[t].who, at[t].arg}
BY DEF OverlapsKnown, HandlerTopic, Topic
LEMMA DifferentGroups ==
  ASSUME Typed, OverlapsKnown, NEW s \in Servers, NEW t \in Servers, s # t,
         Busy(s), Busy(t), at[s].arg \in Groups, at[t].arg \in Groups,
         {at[t].arg} \notin clashed
  PROVE  at[s].arg # at[t].arg
BY NetAssumption DEF OverlapsKnown, HandlerTopic, Topic

----------------------------------------------------------------------------
(* One relation between two users *)

\* The records between other users than the two of a handler that writes stay.
LEMMA WriteCells ==
  ASSUME Typed, NEW s \in Servers, Writes(s), NEW a \in Users, NEW b \in Users,
         inv'[a][b] # inv[a][b] \/ friends'[a][b] # friends[a][b]
  PROVE  {a, b} = {at[s].who, at[s].arg} /\ at[s].arg \in Users
<1>1. CASE AddInvitation(s)
  BY <1>1, AddInvitationEffect
<1>2. CASE DeleteInvitation(s)
  BY <1>2, DeleteInvitationEffect
<1>3. CASE AddFriendship(s)
  BY <1>3, AddFriendshipEffect
<1>4. CASE AddPost(s)
  BY <1>4, AddPostEffect
<1>5. CASE AddGroup(s)
  BY <1>5, AddGroupEffect
<1>6. CASE AddMember(s)
  BY <1>6, AddMemberEffect
<1> QED
  BY <1>1, <1>2, <1>3, <1>4, <1>5, <1>6 DEF Writes

LEMMA UserHandlers ==
  ASSUME HandlersTyped, NEW s \in Servers, at[s].place \in AboutUsers
  PROVE  Busy(s) /\ at[s].who \in Users /\ at[s].arg \in Users
BY DEF HandlersTyped, Busy, AboutUsers

LEMMA FoundKept ==
  ASSUME NEW u \in Users, NEW v \in Users, NEW place, Found(inv, friends, place, u, v),
         \A a, b \in Users : {a, b} = {u, v} =>
           inv'[a][b] = inv[a][b] /\ friends'[a][b] = friends[a][b]
  PROVE  Found(inv', friends', place, u, v)
<1>1. /\ inv'[u][v] = inv[u][v] /\ inv'[v][u] = inv[v][u]
      /\ friends'[u][v] = friends[u][v] /\ friends'[v][u] = friends[v][u]
  OBVIOUS
<1> QED
  BY <1>1 DEF Found

LEMMA FourCells ==
  ASSUME StoreTyped, NEW u \in Users, NEW v \in Users
  PROVE  /\ inv[u][v] \in Nat /\ inv[v][u] \in Nat
         /\ friends[u][v] \in Nat /\ friends[v][u] \in Nat
BY DEF StoreTyped

LEMMA FourLess ==
  ASSUME NEW p \in Nat, NEW q \in Nat, NEW r \in Nat, NEW s \in Nat,
         NEW p2 \in {0, p}, NEW q2 \in {0, q}, NEW r2 \in {0, r}, NEW s2 \in {0, s},
         NEW n \in Nat, p + q + r + s <= n
  PROVE  p2 + q2 + r2 + s2 <= n
OBVIOUS

LEMMA CheckFinds ==
  ASSUME Typed, NEW s \in Servers, FoundStillHolds, {at[s].who, at[s].arg} \notin clashed,
         InviteChecks(s) \/ SendChecks(s) \/ GroupChecks(s),
         at'[s] # NoHandler, at'[s].place \in AboutUsers
  PROVE  Found(inv, friends, at'[s].place, at[s].who, at[s].arg)
<1> DEFINE u == at[s].who
           v == at[s].arg
           p == at[s].place
           q == at'[s].place
<1>0. HandlersTyped /\ StoreTyped
  BY DEF Typed
<1>1. \/ q \notin {"invite friends", "invite again", "invite add", "befriend"}
      \/ p = "invite counter" /\ q = "invite friends" /\ ~Invited(v, u)
      \/ p = "invite friends" /\ q = "invite again" /\ ~Friends(u, v)
      \/ p = "invite again" /\ q = "invite add" /\ ~Invited(u, v) /\ u # v
  BY <1>0, ChecksFound
<1>2. CASE q \notin {"invite friends", "invite again", "invite add", "befriend"}
  BY <1>2 DEF Found
<1>3. CASE q \in {"invite friends", "invite again", "invite add", "befriend"}
  <2>1. p \in AboutUsers
    BY <1>1, <1>3 DEF AboutUsers
  <2>2. /\ u \in Users /\ v \in Users
        /\ inv[u][v] \in Nat /\ inv[v][u] \in Nat
        /\ friends[u][v] \in Nat /\ friends[v][u] \in Nat
    BY <1>0, <2>1, UserHandlers, FourCells
  <2>3. Found(inv, friends, p, u, v)
    BY <2>1 DEF FoundStillHolds
  <2>4. /\ ~Invited(v, u) => inv[v][u] = 0
        /\ ~Invited(u, v) => inv[u][v] = 0
        /\ ~Friends(u, v) => friends[u][v] = 0 /\ friends[v][u] = 0
    BY <2>2 DEF Invited, Friends
  <2>5. /\ p = "invite friends" => inv[v][u] = 0
        /\ p = "invite again" =>
             inv[v][u] = 0 /\ friends[u][v] = 0 /\ friends[v][u] = 0
    BY <2>3 DEF Found
  <2>6. CASE q = "invite friends"
    BY <1>1, <2>4, <2>6 DEF Found
  <2>7. CASE q = "invite again"
    <3>1. inv[v][u] = 0 /\ friends[u][v] = 0 /\ friends[v][u] = 0
      BY <1>1, <2>4, <2>5, <2>7
    <3> QED
      BY <2>7, <3>1 DEF Found
  <2>8. CASE q = "invite add"
    <3>1. inv[v][u] = 0 /\ friends[u][v] = 0 /\ friends[v][u] = 0 /\ inv[u][v] = 0 /\ u # v
      BY <1>1, <2>4, <2>5, <2>8
    <3> QED
      BY <2>8, <3>1 DEF Found
  <2> QED
    BY <1>1, <1>3, <2>6, <2>7, <2>8
<1> QED
  BY <1>2, <1>3

LEMMA NextFound ==
  ASSUME Typed, OverlapsKnown, FoundStillHolds, OneRelationUnlessClash, [Next]_vars
  PROVE  FoundStillHolds'
<1>0. HandlersTyped /\ StoreTyped
  BY DEF Typed
<1>a. AboutUsers \cap {"idle", "dead"} = {}
  BY DEF AboutUsers
<1> SUFFICES ASSUME NEW t \in Servers, at'[t].place \in AboutUsers,
                    {at'[t].who, at'[t].arg} \notin clashed'
             PROVE  Found(inv', friends', at'[t].place, at'[t].who, at'[t].arg)
  BY DEF FoundStillHolds
<1>1. ASSUME at'[t] = at[t], UNCHANGED <<inv, friends>>, clashed \subseteq clashed'
      PROVE  Found(inv', friends', at'[t].place, at'[t].who, at'[t].arg)
  BY <1>1 DEF FoundStillHolds
<1>2. ASSUME NEW s \in Servers, Accept(s)
      PROVE  Found(inv', friends', at'[t].place, at'[t].who, at'[t].arg)
  <2>1. /\ s # t => at'[t] = at[t]
        /\ clashed \subseteq clashed' /\ UNCHANGED <<inv, friends>>
        /\ at'[s].place \in {"invite user", "accept", "send user", "post",
                             "create", "join group", "group"}
    BY <1>0, <1>2, AcceptEffect
  <2>2. CASE t = s
    BY <2>1, <2>2 DEF Found
  <2> QED
    BY <1>1, <2>1, <2>2
<1>3. ASSUME NEW s \in Servers, InviteChecks(s) \/ SendChecks(s) \/ GroupChecks(s)
      PROVE  Found(inv', friends', at'[t].place, at'[t].who, at'[t].arg)
  <2>1. /\ s # t => at'[t] = at[t]
        /\ UNCHANGED <<inv, friends, clashed>>
    BY <1>0, <1>3, ChecksEffect
  <2>3. Continues(s)
    BY <1>0, <1>3, ChecksEffect, Idle DEF Continues
  <2>2. CASE t = s
    <3>1. at'[s] # NoHandler
      BY <1>a, <2>2, Idle
    <3>2. at'[s].who = at[s].who /\ at'[s].arg = at[s].arg
      BY <1>a, <2>2, <2>3 DEF Continues
    <3> QED
      BY <1>3, <2>1, <2>2, <3>1, <3>2, CheckFinds
  <2> QED
    BY <1>1, <2>1, <2>2
<1>4. ASSUME NEW s \in Servers, Writes(s)
      PROVE  Found(inv', friends', at'[t].place, at'[t].who, at'[t].arg)
  <2>1. Busy(s) /\ Continues(s) /\ UNCHANGED clashed
    BY <1>4, WritesFrame
  <2>2. CASE t # s
    <3>1. at'[t] = at[t]
      BY <2>1, <2>2 DEF Continues
    <3>2. /\ Busy(t) /\ at[t].who \in Users /\ at[t].arg \in Users
          /\ Found(inv, friends, at[t].place, at[t].who, at[t].arg)
      BY <1>0, <2>1, <3>1, UserHandlers DEF FoundStillHolds
    <3>3. ASSUME at[s].arg \in Users
          PROVE  {at[s].who, at[s].arg} # {at[t].who, at[t].arg}
      BY <2>1, <2>2, <3>1, <3>2, <3>3, DifferentPairs
    <3>4. \A a, b \in Users : {a, b} = {at[t].who, at[t].arg} =>
            inv'[a][b] = inv[a][b] /\ friends'[a][b] = friends[a][b]
      BY <1>4, <3>3, WriteCells
    <3> QED
      BY <3>1, <3>2, <3>4, FoundKept
  <2>3. CASE t = s
    <3>1. \/ at'[s].place = "idle"
          \/ at'[s].place = "enlist"
          \/ DeleteInvitation(s)
      BY <1>4, Idle, AddInvitationEffect, AddFriendshipEffect, AddPostEffect,
         AddGroupEffect, AddMemberEffect DEF Writes
    <3>2. DeleteInvitation(s) /\ at'[s] # NoHandler
      BY <1>a, <2>3, <3>1, Idle DEF AboutUsers
    <3> DEFINE u == at[s].who
               v == at[s].arg
    <3>3. /\ u \in Users /\ v \in Users
          /\ inv[v][u] > 0 /\ inv'[v][u] = inv[v][u] - 1
          /\ \A c, d \in Users : c # v \/ d # u => inv'[c][d] = inv[c][d]
          /\ at'[s].place = "befriend" /\ at'[s].who = u /\ at'[s].arg = v
          /\ UNCHANGED friends
      BY <3>2, DeleteInvitationEffect
    <3>4. inv[u][v] + inv[v][u] + friends[u][v] + friends[v][u] <= IF u = v THEN 0 ELSE 1
      BY <2>1, <2>3, <3>3 DEF OneRelationUnlessClash
    <3>5. /\ inv[u][v] \in Nat /\ inv[v][u] \in Nat
          /\ friends[u][v] \in Nat /\ friends[v][u] \in Nat
      BY <1>0, <3>3, FourCells
    <3> HIDE DEF u, v
    <3>6. u # v
      BY <3>3, <3>4, <3>5
    <3>7. /\ inv[v][u] = 1 /\ inv[u][v] = 0 /\ friends[u][v] = 0 /\ friends[v][u] = 0
      <4>1. inv[u][v] + inv[v][u] + friends[u][v] + friends[v][u] <= 1 /\ inv[v][u] > 0
        BY <3>3, <3>4, <3>6
      <4> QED
        BY <3>5, <4>1
    <3>8. inv'[v][u] = 0 /\ inv'[u][v] = 0 /\ friends'[u][v] = 0 /\ friends'[v][u] = 0
      BY <3>3, <3>6, <3>7
    <3> QED
      BY <2>3, <3>3, <3>6, <3>8 DEF Found
  <2> QED
    BY <2>2, <2>3
<1>5. ASSUME NEW s \in Servers, Others(s)
      PROVE  Found(inv', friends', at'[t].place, at'[t].who, at'[t].arg)
  <2>1. at'[t] = at[t]
    BY <1>0, <1>5, <1>a, OthersEffect
  <2>2. UNCHANGED <<inv, friends, clashed>>
    BY <1>0, <1>5, OthersEffect
  <2> QED
    BY <1>1, <2>1, <2>2
<1>6. CASE LoginServer
  <2>1. at' = at /\ clashed' = clashed
    BY <1>6, LoginServerFrame
  <2>2. /\ at[t].who \in Users /\ at[t].arg \in Users
        /\ Found(inv, friends, at[t].place, at[t].who, at[t].arg)
    BY <1>0, <2>1, UserHandlers DEF FoundStillHolds
  <2>3. CASE DeleteInvitations
    BY <2>1, <2>2, <2>3, DeleteEffect DEF Found
  <2>4. CASE DeleteFriendships
    BY <2>1, <2>2, <2>4, DeleteEffect DEF Found
  <2>5. CASE ~DeleteInvitations /\ ~DeleteFriendships
    <3>1. UNCHANGED <<inv, friends>>
      BY <1>6, <2>5, DeleteEffect DEF LoginServer, Register, Login, Logout, Delete,
         LoginServerDies
    <3> QED
      BY <1>1, <2>1, <3>1
  <2> QED
    BY <2>3, <2>4, <2>5
<1>7. CASE UNCHANGED vars
  BY <1>1, <1>7 DEF vars
<1> QED
  BY <1>2, <1>3, <1>4, <1>5, <1>6, <1>7, StepKinds

\* One relation between two users: who invites, or turns an invitation into a
\* friendship, has found nothing else between the two.
LEMMA NextOneRelation ==
  ASSUME Typed, FoundStillHolds, OneRelationUnlessClash, [Next]_vars
  PROVE  OneRelationUnlessClash'
<1>0. HandlersTyped /\ StoreTyped
  BY DEF Typed
<1> DEFINE Between(i, f, a, b) == i[a][b] + i[b][a] + f[a][b] + f[b][a]
<1> SUFFICES ASSUME NEW a \in Users, NEW b \in Users, {a, b} \notin clashed'
             PROVE  Between(inv', friends', a, b) <= IF a = b THEN 0 ELSE 1
  BY DEF OneRelationUnlessClash
<1>t. /\ inv[a][b] \in Nat /\ inv[b][a] \in Nat
      /\ friends[a][b] \in Nat /\ friends[b][a] \in Nat
  BY <1>0, FourCells
<1>c. clashed \subseteq clashed'
  <2>1. \A s \in Servers : Accept(s) => clashed \subseteq clashed'
    BY <1>0, AcceptEffect
  <2>2. \A s \in Servers : InviteChecks(s) \/ SendChecks(s) \/ GroupChecks(s)
                             => clashed' = clashed
    BY <1>0, ChecksEffect
  <2>3. \A s \in Servers : Writes(s) => clashed' = clashed
    BY WritesFrame
  <2>4. \A s \in Servers : Others(s) => clashed' = clashed
    BY <1>0, OthersEffect
  <2> QED
    BY <2>1, <2>2, <2>3, <2>4, StepKinds, LoginServerFrame DEF vars
<1>b. Between(inv, friends, a, b) <= IF a = b THEN 0 ELSE 1
  BY <1>c DEF OneRelationUnlessClash
<1>1. ASSUME UNCHANGED <<inv, friends>>
      PROVE  Between(inv', friends', a, b) <= IF a = b THEN 0 ELSE 1
  BY <1>1, <1>b
<1>2. ASSUME NEW s \in Servers, Writes(s)
      PROVE  Between(inv', friends', a, b) <= IF a = b THEN 0 ELSE 1
  <2> DEFINE u == at[s].who
             v == at[s].arg
  <2>1. CASE {a, b} # {u, v} \/ v \notin Users
    <3>1. /\ inv'[a][b] = inv[a][b] /\ inv'[b][a] = inv[b][a]
          /\ friends'[a][b] = friends[a][b] /\ friends'[b][a] = friends[b][a]
      BY <1>2, <2>1, WriteCells
    <3> QED
      BY <3>1, <1>b
  <2>2. CASE {a, b} = {u, v} /\ v \in Users
    <3>1. /\ at[s].place \in AboutUsers => Found(inv, friends, at[s].place, u, v)
          /\ (a = u /\ b = v) \/ (a = v /\ b = u)
      BY <1>c, <2>2 DEF FoundStillHolds
    <3>2. CASE AddInvitation(s)
      <4>1. at[s].place = "invite add" /\ u \in Users
        BY <3>2, AddInvitationEffect
      <4>2. /\ UNCHANGED friends
            /\ inv'[u][v] = inv[u][v] + 1
            /\ \A c, d \in Users : c # u \/ d # v => inv'[c][d] = inv[c][d]
        BY <3>2, AddInvitationEffect
      <4>3. /\ u # v /\ inv[u][v] = 0 /\ inv[v][u] = 0
            /\ friends[u][v] = 0 /\ friends[v][u] = 0
        BY <3>1, <4>1 DEF Found, AboutUsers
      <4> HIDE DEF u, v
      <4>4. /\ inv'[u][v] = 1 /\ inv'[v][u] = 0
            /\ friends'[u][v] = 0 /\ friends'[v][u] = 0
        <5>1. /\ inv[u][v] \in Nat /\ inv[v][u] \in Nat
              /\ friends[u][v] \in Nat /\ friends[v][u] \in Nat
          BY <1>0, <2>2, <4>1, FourCells DEF u, v
        <5>2. inv'[u][v] = 1
          BY <4>2, <4>3, <5>1
        <5>3. inv'[v][u] = inv[v][u]
          BY <2>2, <4>1, <4>2, <4>3
        <5> QED
          BY <4>2, <4>3, <5>2, <5>3
      <4>5. a # b
        BY <3>1, <4>3
      <4> QED
        BY <3>1, <4>4, <4>5
    <3>3. CASE DeleteInvitation(s)
      <4>1. /\ UNCHANGED friends /\ inv' \in [Users -> [Users -> Nat]]
            /\ \A c, d \in Users :
                 inv'[c][d] = inv[c][d] \/ inv'[c][d] = inv[c][d] - 1
        BY <3>3, DeleteInvitationEffect
      <4>2. /\ inv'[a][b] = inv[a][b] \/ inv'[a][b] = inv[a][b] - 1
            /\ inv'[b][a] = inv[b][a] \/ inv'[b][a] = inv[b][a] - 1
            /\ friends' = friends
        BY <4>1
      <4> QED
        BY <4>2, <1>b, <1>t
    <3>4. CASE AddFriendship(s)
      <4>1. /\ at[s].place = "befriend" /\ UNCHANGED inv
            /\ friends'[v][u] = friends[v][u] + 1
            /\ \A c, d \in Users : c # v \/ d # u => friends'[c][d] = friends[c][d]
        BY <3>4, AddFriendshipEffect
      <4>2. /\ u # v /\ inv[u][v] = 0 /\ inv[v][u] = 0
            /\ friends[u][v] = 0 /\ friends[v][u] = 0
        BY <3>1, <4>1 DEF Found, AboutUsers
      <4> HIDE DEF u, v
      <4>3. /\ a # b
            /\ friends'[v][u] = 1 /\ friends'[u][v] = 0 /\ inv'[u][v] = 0 /\ inv'[v][u] = 0
        BY <3>1, <4>1, <4>2
      <4> QED
        BY <3>1, <4>3
    <3>5. CASE AddPost(s) \/ AddGroup(s) \/ AddMember(s)
      BY <1>1, <3>5, AddPostEffect, AddGroupEffect, AddMemberEffect
    <3> QED
      BY <1>2, <3>2, <3>3, <3>4, <3>5 DEF Writes
  <2> QED
    BY <2>1, <2>2
<1>3. CASE LoginServer
  <2>0. (IF a = b THEN 0 ELSE 1) \in Nat
    OBVIOUS
  <2>1. CASE DeleteInvitations
    <3>1. /\ inv'[a][b] \in {0, inv[a][b]} /\ inv'[b][a] \in {0, inv[b][a]}
          /\ friends'[a][b] \in {0, friends[a][b]} /\ friends'[b][a] \in {0, friends[b][a]}
      BY <2>1, DeleteEffect
    <3>2. inv[a][b] + inv[b][a] + friends[a][b] + friends[b][a] <= IF a = b THEN 0 ELSE 1
      BY <1>b
    <3> HIDE DEF Between
    <3>3. inv'[a][b] + inv'[b][a] + friends'[a][b] + friends'[b][a]
            <= IF a = b THEN 0 ELSE 1
      <4>1. PICK n \in Nat : n = IF a = b THEN 0 ELSE 1
        BY <2>0
      <4>2. PICK p \in Nat, q \in Nat, r \in Nat, z \in Nat :
              p = inv[a][b] /\ q = inv[b][a] /\ r = friends[a][b] /\ z = friends[b][a]
        BY <1>t
      <4>3. PICK p2 \in {0, p}, q2 \in {0, q}, r2 \in {0, r}, z2 \in {0, z} :
              /\ p2 = inv'[a][b] /\ q2 = inv'[b][a]
              /\ r2 = friends'[a][b] /\ z2 = friends'[b][a]
        BY <3>1, <4>2
      <4>4. p + q + r + z <= n
        BY <3>2, <4>1, <4>2
      <4>5. p2 + q2 + r2 + z2 <= n
        BY <4>4, FourLess
      <4> QED
        BY <4>1, <4>3, <4>5
    <3> QED
      BY <3>3 DEF Between
  <2>2. CASE DeleteFriendships
    <3>1. /\ inv'[a][b] \in {0, inv[a][b]} /\ inv'[b][a] \in {0, inv[b][a]}
          /\ friends'[a][b] \in {0, friends[a][b]} /\ friends'[b][a] \in {0, friends[b][a]}
      BY <2>2, DeleteEffect
    <3>2. inv[a][b] + inv[b][a] + friends[a][b] + friends[b][a] <= IF a = b THEN 0 ELSE 1
      BY <1>b
    <3> HIDE DEF Between
    <3>3. inv'[a][b] + inv'[b][a] + friends'[a][b] + friends'[b][a]
            <= IF a = b THEN 0 ELSE 1
      <4>1. PICK n \in Nat : n = IF a = b THEN 0 ELSE 1
        BY <2>0
      <4>2. PICK p \in Nat, q \in Nat, r \in Nat, z \in Nat :
              p = inv[a][b] /\ q = inv[b][a] /\ r = friends[a][b] /\ z = friends[b][a]
        BY <1>t
      <4>3. PICK p2 \in {0, p}, q2 \in {0, q}, r2 \in {0, r}, z2 \in {0, z} :
              /\ p2 = inv'[a][b] /\ q2 = inv'[b][a]
              /\ r2 = friends'[a][b] /\ z2 = friends'[b][a]
        BY <3>1, <4>2
      <4>4. p + q + r + z <= n
        BY <3>2, <4>1, <4>2
      <4>5. p2 + q2 + r2 + z2 <= n
        BY <4>4, FourLess
      <4> QED
        BY <4>1, <4>3, <4>5
    <3> QED
      BY <3>3 DEF Between
  <2>3. CASE ~DeleteInvitations /\ ~DeleteFriendships
    <3>1. UNCHANGED <<inv, friends>>
      BY <1>3, <2>3, DeleteEffect DEF LoginServer, Register, Login, Logout, Delete,
         LoginServerDies
    <3> QED
      BY <1>1, <3>1
  <2> QED
    BY <2>1, <2>2, <2>3
<1>4. ASSUME NEW s \in Servers,
             Accept(s) \/ InviteChecks(s) \/ SendChecks(s) \/ GroupChecks(s) \/ Others(s)
      PROVE  UNCHANGED <<inv, friends>>
  BY <1>0, <1>4, AcceptEffect, ChecksEffect, OthersEffect
<1>5. UNCHANGED vars => UNCHANGED <<inv, friends>>
  BY DEF vars
<1> QED
  BY <1>1, <1>2, <1>3, <1>4, <1>5, StepKinds

----------------------------------------------------------------------------
(* Groups and their members *)

LEMMA GroupHandlers ==
  ASSUME HandlersTyped, NEW s \in Servers, at[s].place \in AboutGroups
  PROVE  Busy(s) /\ at[s].who \in Users /\ at[s].arg \in Groups
BY DEF HandlersTyped, Busy, AboutGroups

\* What a handler at a place has found about u and g.
FoundGroup(place, u, g) ==
  /\ place \in {"join member", "enlist"} => groups[g] > 0
  /\ place = "create add" /\ {g} \notin clashed => groups[g] = 0
  /\ place \in {"create add", "enlist"} /\ u \notin strayed => joined[u][g] = 0

LEMMA CheckFindsGroup ==
  ASSUME Typed, MembersSound, NEW s \in Servers,
         InviteChecks(s) \/ SendChecks(s) \/ GroupChecks(s), at'[s] # NoHandler
  PROVE  FoundGroup(at'[s].place, at[s].who, at[s].arg)
<1> DEFINE u == at[s].who
           g == at[s].arg
           p == at[s].place
           q == at'[s].place
<1>0. HandlersTyped /\ StoreTyped
  BY DEF Typed
<1>1. \/ q \notin {"join member", "enlist", "create add"}
      \/ p = "create" /\ q = "create add" /\ ~GroupExists(g)
      \/ p = "join group" /\ q = "join member" /\ GroupExists(g)
      \/ p = "join member" /\ q = "enlist" /\ ~IsMember(u, g)
  BY <1>0, ChecksFound
<1>m. /\ \A c \in Users, d \in Groups : joined[c][d] > 0 => groups[d] > 0
      /\ p = "join member" => groups[g] > 0
  BY DEF MembersSound
<1>2. ASSUME p \in {"create", "join member"}
      PROVE  /\ u \in Users /\ g \in Groups
             /\ groups[g] \in Nat /\ joined[u][g] \in Nat
  <2>1. u \in Users /\ g \in Groups
    BY <1>0, <1>2, GroupHandlers DEF AboutGroups
  <2> QED
    BY <1>0, <2>1 DEF StoreTyped
<1>3. CASE q \notin {"join member", "enlist", "create add"}
  BY <1>3 DEF FoundGroup
<1>4. CASE p = "create" /\ q = "create add" /\ ~GroupExists(g)
  <2>1. /\ u \in Users /\ g \in Groups
        /\ groups[g] \in Nat /\ joined[u][g] \in Nat
    BY <1>2, <1>4
  <2>2. ~(groups[g] > 0)
    BY <1>4 DEF GroupExists
  <2>3. ~(joined[u][g] > 0)
    BY <1>m, <2>1, <2>2
  <2>4. groups[g] = 0 /\ joined[u][g] = 0
    BY <2>1, <2>2, <2>3
  <2> QED
    BY <1>4, <2>4 DEF FoundGroup
<1>5. CASE p = "join group" /\ q = "join member" /\ GroupExists(g)
  BY <1>5 DEF GroupExists, FoundGroup
<1>6. CASE p = "join member" /\ q = "enlist" /\ ~IsMember(u, g)
  <2>1. joined[u][g] \in Nat /\ ~(joined[u][g] > 0) /\ groups[g] > 0
    BY <1>2, <1>6, <1>m DEF IsMember
  <2>2. joined[u][g] = 0
    BY <2>1
  <2> QED
    BY <1>6, <2>1, <2>2 DEF FoundGroup
<1> QED
  BY <1>1, <1>3, <1>4, <1>5, <1>6

LEMMA NextMembers ==
  ASSUME Typed, OverlapsKnown, MembersSound, [Next]_vars PROVE MembersSound'
<1>0. HandlersTyped /\ StoreTyped
  BY DEF Typed
<1>a. AboutGroups \cap {"idle", "dead"} = {}
  BY DEF AboutGroups
<1>t. /\ \A g \in Groups : groups[g] \in Nat
      /\ \A u \in Users, g \in Groups : joined[u][g] \in Nat
  BY <1>0 DEF StoreTyped
<1>m. MembersSound <=>
        /\ \A u \in Users, g \in Groups : joined[u][g] > 0 => groups[g] > 0
        /\ \A s \in Servers : FoundGroup(at[s].place, at[s].who, at[s].arg)
  BY DEF MembersSound, FoundGroup
<1>1. ASSUME UNCHANGED <<groups, joined>>,
             clashed \subseteq clashed', strayed \subseteq strayed',
             \A t \in Servers :
               \/ at'[t] = at[t]
               \/ at'[t].place \notin {"join member", "enlist", "create add"}
               \/ FoundGroup(at'[t].place, at'[t].who, at'[t].arg)
      PROVE  MembersSound'
  BY <1>1 DEF MembersSound, FoundGroup
<1>2. ASSUME NEW s \in Servers, Accept(s) PROVE MembersSound'
  <2>1. /\ \A t \in Servers : s # t => at'[t] = at[t]
        /\ clashed \subseteq clashed' /\ strayed \subseteq strayed'
        /\ UNCHANGED <<groups, joined>>
        /\ at'[s].place \in {"invite user", "accept", "send user", "post",
                             "create", "join group", "group"}
    BY <1>0, <1>2, AcceptEffect
  <2> QED
    BY <1>1, <2>1
<1>3. ASSUME NEW s \in Servers, InviteChecks(s) \/ SendChecks(s) \/ GroupChecks(s)
      PROVE  MembersSound'
  <2>1. /\ \A t \in Servers : s # t => at'[t] = at[t]
        /\ UNCHANGED <<groups, joined, clashed, strayed>>
    BY <1>0, <1>3, ChecksEffect
  <2>2. Continues(s)
    BY <1>0, <1>3, ChecksEffect, Idle DEF Continues
  <2>3. CASE at'[s].place \in {"idle", "dead"}
    BY <1>1, <2>1, <2>3
  <2>4. CASE at'[s].place \notin {"idle", "dead"}
    <3>1. at'[s] # NoHandler /\ at'[s].who = at[s].who /\ at'[s].arg = at[s].arg
      BY <2>2, <2>4, Idle DEF Continues
    <3>2. FoundGroup(at'[s].place, at'[s].who, at'[s].arg)
      BY <1>3, <3>1, CheckFindsGroup
    <3> QED
      BY <1>1, <2>1, <3>2
  <2> QED
    BY <2>3, <2>4
<1>4. ASSUME NEW s \in Servers, AddGroup(s) PROVE MembersSound'
  <2> DEFINE u == at[s].who
             x == at[s].arg
  <2>1. /\ at[s].place = "create add" /\ u \in Users /\ x \in Groups
        /\ at'[s].place = "enlist" /\ at'[s].who = u /\ at'[s].arg = x
        /\ groups'[x] = groups[x] + 1
        /\ \A g \in Groups : g # x => groups'[g] = groups[g]
        /\ UNCHANGED joined
    BY <1>4, AddGroupEffect
  <2>2. Busy(s) /\ Continues(s) /\ UNCHANGED <<clashed, strayed>>
    BY <1>4, WritesFrame DEF Writes
  <2>3. ASSUME NEW g \in Groups, groups[g] > 0 PROVE groups'[g] > 0
    <3>1. CASE g = x
      <4>1. groups[x] \in Nat /\ groups'[x] = groups[x] + 1
        BY <1>t, <2>1
      <4>2. groups'[x] > 0
        BY <4>1
      <4> QED
        BY <3>1, <4>2
    <3>2. CASE g # x
      BY <2>1, <2>3, <3>2
    <3> QED
      BY <3>1, <3>2
  <2>4. ASSUME NEW t \in Servers, t # s
        PROVE  /\ at'[t].place \in {"join member", "enlist"} => groups'[at'[t].arg] > 0
               /\ at'[t].place = "create add" /\ {at'[t].arg} \notin clashed' =>
                    groups'[at'[t].arg] = 0
               /\ at'[t].place \in {"create add", "enlist"} /\ at'[t].who \notin strayed' =>
                    joined'[at'[t].who][at'[t].arg] = 0
    <3>1. at'[t] = at[t]
      BY <2>2, <2>4 DEF Continues
    <3>2. at[t].place \in AboutGroups => Busy(t) /\ at[t].arg \in Groups
      BY <1>0, GroupHandlers
    <3>3. at[t].place = "create add" /\ {at[t].arg} \notin clashed => at[t].arg # x
      BY <2>1, <2>2, <2>4, <3>2, DifferentGroups DEF AboutGroups
    <3> QED
      BY <2>1, <2>2, <2>3, <3>1, <3>2, <3>3 DEF MembersSound, AboutGroups
  <2>5. /\ groups'[x] > 0
        /\ u \notin strayed => joined[u][x] = 0
    <3>1. groups[x] \in Nat /\ groups'[x] = groups[x] + 1
      BY <1>t, <2>1
    <3>2. u \notin strayed => joined[u][x] = 0
      BY <2>1 DEF MembersSound
    <3> QED
      BY <3>1, <3>2
  <2>6. \A c \in Users, g \in Groups : joined'[c][g] > 0 => groups'[g] > 0
    BY <2>1, <2>3 DEF MembersSound
  <2> QED
    BY <2>1, <2>2, <2>4, <2>5, <2>6 DEF MembersSound
<1>5. ASSUME NEW s \in Servers, AddMember(s) PROVE MembersSound'
  <2> DEFINE u == at[s].who
             x == at[s].arg
  <2>1. /\ at[s].place = "enlist" /\ u \in Users /\ x \in Groups
        /\ at'[s] = NoHandler
        /\ \A c \in Users, d \in Groups : c # u \/ d # x => joined'[c][d] = joined[c][d]
        /\ UNCHANGED groups
    BY <1>5, AddMemberEffect
  <2>2. Busy(s) /\ Continues(s) /\ UNCHANGED <<clashed, strayed>>
    BY <1>5, WritesFrame DEF Writes
  <2>3. groups[x] > 0
    BY <2>1 DEF MembersSound
  <2>4. \A c \in Users, g \in Groups : joined'[c][g] > 0 => groups'[g] > 0
    BY <2>1, <2>3 DEF MembersSound
  <2>5. ASSUME NEW t \in Servers
        PROVE  /\ at'[t].place \in {"join member", "enlist"} => groups'[at'[t].arg] > 0
               /\ at'[t].place = "create add" /\ {at'[t].arg} \notin clashed' =>
                    groups'[at'[t].arg] = 0
               /\ at'[t].place \in {"create add", "enlist"} /\ at'[t].who \notin strayed' =>
                    joined'[at'[t].who][at'[t].arg] = 0
    <3>1. CASE t = s
      BY <2>1, <3>1, Idle
    <3>2. CASE t # s
      <4>1. at'[t] = at[t]
        BY <2>2, <3>2 DEF Continues
      <4>2. at[t].place \in AboutGroups =>
              Busy(t) /\ at[t].who \in Users /\ at[t].arg \in Groups
        BY <1>0, GroupHandlers
      <4>3. Busy(t) /\ at[t].who \notin strayed => at[t].who # u
        BY <2>2, <3>2 DEF OverlapsKnown
      <4> QED
        BY <2>1, <2>2, <4>1, <4>2, <4>3 DEF MembersSound, AboutGroups
    <3> QED
      BY <3>1, <3>2
  <2> QED
    BY <2>4, <2>5 DEF MembersSound
<1>6. ASSUME NEW s \in Servers,
             AddInvitation(s) \/ DeleteInvitation(s) \/ AddFriendship(s) \/ AddPost(s)
      PROVE  MembersSound'
  <2>1. UNCHANGED <<groups, joined>>
    BY <1>6, AddInvitationEffect, DeleteInvitationEffect, AddFriendshipEffect, AddPostEffect
  <2>2. UNCHANGED <<clashed, strayed>> /\ \A t \in Servers : t # s => at'[t] = at[t]
    BY <1>6, WritesFrame DEF Writes, Continues
  <2>3. at'[s].place \in {"idle", "befriend"}
    BY <1>6, Idle, AddInvitationEffect, DeleteInvitationEffect, AddFriendshipEffect,
       AddPostEffect
  <2> QED
    BY <1>1, <2>1, <2>2, <2>3
<1>7. ASSUME NEW s \in Servers, Others(s) PROVE MembersSound'
  <2>1. \A t \in Servers : at'[t] = at[t] \/ at'[t].place \in {"idle", "dead"}
    BY <1>0, <1>7, OthersEffect
  <2>2. UNCHANGED <<groups, joined, clashed, strayed>>
    BY <1>0, <1>7, OthersEffect
  <2> QED
    BY <1>1, <2>1, <2>2
<1>8. CASE LoginServer
  <2>1. UNCHANGED <<at, groups, clashed, strayed>>
    BY <1>8, LoginServerFrame
  <2>2. CASE DeleteJoined
    <3>1. \A u \in Users, g \in Groups : joined'[u][g] \in {0, joined[u][g]}
      BY <2>2, DeleteEffect
    <3>2. ASSUME NEW u \in Users, NEW g \in Groups, joined'[u][g] > 0 PROVE groups'[g] > 0
      <4>1. joined[u][g] > 0
        BY <3>1, <3>2
      <4>2. groups[g] > 0
        BY <4>1 DEF MembersSound
      <4> QED
        BY <2>1, <4>2
    <3>3. ASSUME NEW t \in Servers,
                 at[t].place \in {"create add", "enlist"} /\ at[t].who \notin strayed
          PROVE  joined'[at[t].who][at[t].arg] = 0
      <4>1. at[t].who \in Users /\ at[t].arg \in Groups
        BY <1>0, <3>3, GroupHandlers DEF AboutGroups
      <4>2. joined[at[t].who][at[t].arg] = 0
        BY <3>3 DEF MembersSound
      <4> QED
        BY <3>1, <4>1, <4>2
    <3> QED
      BY <2>1, <3>2, <3>3 DEF MembersSound
  <2>3. CASE ~DeleteJoined
    <3>1. UNCHANGED joined
      BY <1>8, <2>3, DeleteEffect DEF LoginServer, Register, Login, Logout, Delete,
         LoginServerDies
    <3> QED
      BY <1>1, <2>1, <3>1
  <2> QED
    BY <2>2, <2>3
<1>9. CASE UNCHANGED vars
  BY <1>1, <1>9 DEF vars
<1> QED
  BY <1>2, <1>3, <1>4, <1>5, <1>6, <1>7, <1>8, <1>9, StepKinds DEF Writes

\* What is recorded about overlaps is kept.
LEMMA HistoryGrows ==
  ASSUME Typed, [Next]_vars
  PROVE  clashed \subseteq clashed' /\ strayed \subseteq strayed' /\ raced \subseteq raced'
<1>0. HandlersTyped
  BY DEF Typed
<1>1. \A s \in Servers : Accept(s) =>
        clashed \subseteq clashed' /\ strayed \subseteq strayed' /\ raced \subseteq raced'
  BY <1>0, AcceptEffect
<1>2. \A s \in Servers : InviteChecks(s) \/ SendChecks(s) \/ GroupChecks(s)
                             => UNCHANGED history
  BY <1>0, ChecksEffect
<1>3. \A s \in Servers : Writes(s) => UNCHANGED history
  BY WritesFrame
<1>4. \A s \in Servers : Others(s) => UNCHANGED history
  BY <1>0, OthersEffect
<1>5. LoginServer => raced \subseteq raced'
  BY DeleteEffect DEF LoginServer, Register, Login, Logout, Delete, LoginServerDies
<1> QED
  BY <1>1, <1>2, <1>3, <1>4, <1>5, StepKinds, LoginServerFrame DEF vars

LEMMA NextGroupOnce ==
  ASSUME Typed, MembersSound, GroupOnceUnlessClash, [Next]_vars
  PROVE  GroupOnceUnlessClash'
<1>0. HandlersTyped /\ clashed \subseteq clashed'
  BY HistoryGrows DEF Typed
<1>1. ASSUME UNCHANGED groups PROVE GroupOnceUnlessClash'
  BY <1>0, <1>1 DEF GroupOnceUnlessClash
<1>2. ASSUME NEW s \in Servers, AddGroup(s) PROVE GroupOnceUnlessClash'
  <2>1. /\ at[s].place = "create add" /\ groups'[at[s].arg] = groups[at[s].arg] + 1
        /\ \A g \in Groups : g # at[s].arg => groups'[g] = groups[g]
    BY <1>2, AddGroupEffect
  <2>2. {at[s].arg} \notin clashed => groups[at[s].arg] = 0
    BY <2>1 DEF MembersSound
  <2>3. ASSUME NEW g \in Groups, {g} \notin clashed' PROVE groups'[g] <= 1
    <3>1. CASE g = at[s].arg
      <4>1. groups[at[s].arg] = 0
        BY <1>0, <2>2, <2>3, <3>1
      <4>2. groups'[at[s].arg] = 0 + 1
        BY <2>1, <4>1
      <4> QED
        BY <3>1, <4>2
    <3>2. CASE g # at[s].arg
      BY <1>0, <2>1, <2>3, <3>2 DEF GroupOnceUnlessClash
    <3> QED
      BY <3>1, <3>2
  <2> QED
    BY <2>3 DEF GroupOnceUnlessClash
<1>3. ASSUME NEW s \in Servers,
             \/ Accept(s) \/ InviteChecks(s) \/ SendChecks(s) \/ GroupChecks(s)
             \/ Others(s)
      PROVE  UNCHANGED groups
  BY <1>0, <1>3, AcceptEffect, ChecksEffect, OthersEffect
<1>4. ASSUME NEW s \in Servers, Writes(s), ~AddGroup(s) PROVE UNCHANGED groups
  BY <1>4, AddInvitationEffect, DeleteInvitationEffect, AddFriendshipEffect,
     AddPostEffect, AddMemberEffect DEF Writes
<1> QED
  BY <1>1, <1>2, <1>3, <1>4, StepKinds, LoginServerFrame DEF vars

LEMMA NextMemberOnce ==
  ASSUME Typed, MembersSound, MemberOnce, [Next]_vars PROVE MemberOnce'
<1>0. HandlersTyped /\ strayed \subseteq strayed'
  BY HistoryGrows DEF Typed
<1>1. ASSUME UNCHANGED joined PROVE MemberOnce'
  BY <1>0, <1>1 DEF MemberOnce
<1>2. ASSUME NEW s \in Servers, AddMember(s) PROVE MemberOnce'
  <2> DEFINE w == at[s].who
             x == at[s].arg
  <2>1. /\ at[s].place = "enlist" /\ joined'[w][x] = joined[w][x] + 1
        /\ \A u \in Users, g \in Groups : u # w \/ g # x => joined'[u][g] = joined[u][g]
    BY <1>2, AddMemberEffect
  <2>2. w \notin strayed => joined[w][x] = 0
    BY <2>1 DEF MembersSound
  <2>3. ASSUME NEW u \in Users, NEW g \in Groups, u \notin strayed' PROVE joined'[u][g] <= 1
    <3>1. CASE u = w /\ g = x
      BY <1>0, <2>1, <2>2, <2>3, <3>1
    <3>2. CASE u # w \/ g # x
      BY <1>0, <2>1, <2>3, <3>2 DEF MemberOnce
    <3> QED
      BY <3>1, <3>2
  <2> QED
    BY <2>3 DEF MemberOnce
<1>3. ASSUME NEW s \in Servers,
             \/ Accept(s) \/ InviteChecks(s) \/ SendChecks(s) \/ GroupChecks(s)
             \/ Others(s)
      PROVE  UNCHANGED joined
  BY <1>0, <1>3, AcceptEffect, ChecksEffect, OthersEffect
<1>4. ASSUME NEW s \in Servers, Writes(s), ~AddMember(s) PROVE UNCHANGED joined
  BY <1>4, AddInvitationEffect, DeleteInvitationEffect, AddFriendshipEffect,
     AddPostEffect, AddGroupEffect DEF Writes
<1>5. CASE DeleteJoined
  <2>1. \A u \in Users, g \in Groups : joined'[u][g] \in {0, joined[u][g]}
    BY <1>5, DeleteEffect
  <2> QED
    BY <1>0, <2>1 DEF MemberOnce
<1>6. LoginServer /\ ~DeleteJoined => UNCHANGED joined
  BY DeleteEffect DEF LoginServer, Register, Login, Logout, Delete, LoginServerDies
<1> QED
  BY <1>1, <1>2, <1>3, <1>4, <1>5, <1>6, StepKinds DEF vars

----------------------------------------------------------------------------
(* Messages between friends *)

LEMMA TwoMore ==
  ASSUME NEW p \in Nat, NEW q \in Nat, NEW p2, p2 = p \/ p2 = p + 1,
         NEW q2, q2 = q \/ q2 = q + 1, p + q > 0
  PROVE  p2 + q2 > 0
OBVIOUS

LEMMA NextWrites ==
  ASSUME Typed, RacesKnown, WritesToFriend, [Next]_vars PROVE WritesToFriend'
<1>0. HandlersTyped /\ StoreTyped /\ raced \subseteq raced'
  BY HistoryGrows DEF Typed
<1> SUFFICES ASSUME NEW t \in Servers, at'[t].place = "send online"
             PROVE  \/ friends'[at'[t].who][at'[t].arg] + friends'[at'[t].arg][at'[t].who] > 0
                    \/ {at'[t].who, at'[t].arg} \cap raced' # {}
  BY DEF WritesToFriend, Friends, Named
<1> DEFINE u == at[t].who
           v == at[t].arg
           Goal == \/ friends'[u][v] + friends'[v][u] > 0
                   \/ {u, v} \cap raced' # {}
<1>1. ASSUME at'[t] = at[t]
      PROVE  /\ Busy(t) /\ u \in Users /\ v \in Users
             /\ friends[u][v] \in Nat /\ friends[v][u] \in Nat
             /\ friends[u][v] + friends[v][u] > 0 \/ {u, v} \cap raced # {}
  BY <1>0, <1>1, UserHandlers, FourCells DEF WritesToFriend, Friends, Named, AboutUsers
<1>2. ASSUME at'[t] = at[t], UNCHANGED friends PROVE Goal
  BY <1>0, <1>1, <1>2
<1>3. ASSUME NEW s \in Servers, Accept(s) PROVE at'[t] = at[t] /\ UNCHANGED friends
  BY <1>0, <1>3, AcceptEffect
<1>4. ASSUME NEW s \in Servers, InviteChecks(s) \/ SendChecks(s) \/ GroupChecks(s)
      PROVE  /\ UNCHANGED friends /\ at'[t].who = u /\ at'[t].arg = v
             /\ at'[t] = at[t] \/ Friends(u, v)
  <2>1. /\ s # t => at'[t] = at[t]
        /\ UNCHANGED friends /\ Continues(s)
    BY <1>0, <1>4, ChecksEffect, Idle DEF Continues
  <2>2. CASE s = t
    <3>1. Friends(u, v)
      BY <1>0, <1>4, <2>2, ChecksFound, Idle
    <3> QED
      BY <2>1, <2>2, <3>1 DEF Continues
  <2> QED
    BY <2>1, <2>2
<1>5. ASSUME NEW s \in Servers, Writes(s) PROVE at'[t] = at[t] /\ Goal
  <2>1. Continues(s)
    BY <1>5, WritesFrame
  <2>2. at'[s].place # "send online"
    BY <1>5, Idle, AddInvitationEffect, DeleteInvitationEffect, AddFriendshipEffect,
       AddPostEffect, AddGroupEffect, AddMemberEffect DEF Writes
  <2>3. at'[t] = at[t]
    BY <2>1, <2>2 DEF Continues
  <2>4. \A a, b \in Users : friends'[a][b] = friends[a][b] \/ friends'[a][b] = friends[a][b] + 1
    BY <1>5, AddInvitationEffect, DeleteInvitationEffect, AddFriendshipEffect,
       AddPostEffect, AddGroupEffect, AddMemberEffect DEF Writes
  <2>5. /\ friends'[u][v] = friends[u][v] \/ friends'[u][v] = friends[u][v] + 1
        /\ friends'[v][u] = friends[v][u] \/ friends'[v][u] = friends[v][u] + 1
    BY <1>1, <2>3, <2>4
  <2>6. Goal
    <3>1. ASSUME friends[u][v] + friends[v][u] > 0
          PROVE  friends'[u][v] + friends'[v][u] > 0
      <4>1. friends[u][v] \in Nat /\ friends[v][u] \in Nat
        BY <1>1, <2>3
      <4> HIDE DEF u, v
      <4>2. friends[u][v] + friends[v][u] > 0
        BY <3>1
      <4> QED
        BY <2>5, <4>1, <4>2, TwoMore
    <3> QED
      BY <1>0, <1>1, <2>3, <3>1
  <2> QED
    BY <2>3, <2>6
<1>6. ASSUME NEW s \in Servers, Others(s) PROVE at'[t] = at[t] /\ UNCHANGED friends
  BY <1>0, <1>6, OthersEffect
<1>7. ASSUME LoginServer PROVE at'[t] = at[t] /\ Goal
  <2>1. at'[t] = at[t]
    BY <1>7, LoginServerFrame
  <2>2. CASE DeleteFriendships
    <3>1. CASE del.who \in {u, v}
      <4>1. del.who \in raced
        BY <1>1, <2>1, <3>1 DEF RacesKnown, Named
      <4> QED
        BY <1>0, <2>1, <3>1, <4>1
    <3>2. CASE del.who \notin {u, v}
      <4>1. friends'[u][v] = friends[u][v] /\ friends'[v][u] = friends[v][u]
        BY <1>1, <2>1, <2>2, <3>2, DeleteEffect
      <4> QED
        BY <1>0, <1>1, <2>1, <4>1
    <3> QED
      BY <3>1, <3>2
  <2>3. ~DeleteFriendships => UNCHANGED friends
    BY <1>7, DeleteEffect DEF LoginServer, Register, Login, Logout, Delete, LoginServerDies
  <2> QED
    BY <1>2, <2>1, <2>2, <2>3
<1>8. UNCHANGED vars => at'[t] = at[t] /\ UNCHANGED friends
  BY DEF vars
<1>9. \/ at'[t] = at[t] /\ Goal
      \/ UNCHANGED friends /\ at'[t].who = u /\ at'[t].arg = v /\ Friends(u, v)
  BY <1>2, <1>3, <1>4, <1>5, <1>6, <1>7, <1>8, StepKinds
<1> QED
  BY <1>9 DEF Friends

----------------------------------------------------------------------------
(* The invariant *)

LEMMA InitNetInv == Init => NetInv
<1> SUFFICES ASSUME Init PROVE NetInv
  OBVIOUS
<1>1. Typed
  BY InitTyped
<1>2. /\ \A s \in Servers : at[s] = NoHandler /\ ~Busy(s) /\ at[s].place = "idle"
      /\ del.who = NoOne
  BY Idle DEF Init, Busy
<1>3. RacesKnown /\ OverlapsKnown /\ FoundStillHolds /\ WritesToFriend
  BY <1>2 DEF RacesKnown, OverlapsKnown, FoundStillHolds, WritesToFriend, LookedUp,
     AboutUsers
<1>4. DeleteClean
  BY <1>2, NetAssumption DEF DeleteClean
<1>5. /\ posts = {} /\ \A a, b \in Users : inv[a][b] = 0 /\ friends[a][b] = 0
      /\ \A u \in Users, g \in Groups : joined[u][g] = 0
      /\ \A g \in Groups : groups[g] = 0
  BY DEF Init
<1>6. OrphansOnlyByRace /\ OneRelationUnlessClash /\ GroupOnceUnlessClash /\ MemberOnce
  BY <1>5 DEF OrphansOnlyByRace, OneRelationUnlessClash, GroupOnceUnlessClash, MemberOnce
<1>7. MembersSound
  BY <1>2, <1>5 DEF MembersSound
<1> QED
  BY <1>1, <1>3, <1>4, <1>6, <1>7 DEF NetInv

LEMMA NextNetInv == NetInv /\ [Next]_vars => NetInv'
BY NextTyped, NextRaces, NextClean, NextOrphans, NextOverlaps, NextFound,
   NextOneRelation, NextMembers, NextGroupOnce, NextMemberOnce, NextWrites DEF NetInv

LEMMA NetInvariant == Spec => []NetInv
<1>1. Init => NetInv
  BY InitNetInv
<1>2. NetInv /\ [Next]_vars => NetInv'
  BY NextNetInv
<1> QED
  BY <1>1, <1>2, PTL DEF Spec

\* Every variable keeps its type and no task queue exceeds its bound.
THEOREM TypeCorrect == Spec => []TypeOK
<1>1. NetInv => TypeOK
  BY TypedImpliesTypeOK DEF NetInv
<1> QED
  BY <1>1, NetInvariant, PTL

\* A record of a user who no longer exists stems from a handler that named the
\* user while the user's delete ran.
THEOREM OrphansByRaceOnly == Spec => []OrphansOnlyByRace
<1>1. NetInv => OrphansOnlyByRace
  BY DEF NetInv
<1> QED
  BY <1>1, NetInvariant, PTL

\* Two users have one invitation or friendship at most, unless two requests
\* about them overlapped.
THEOREM OneRelationAtMost == Spec => []OneRelationUnlessClash
<1>1. NetInv => OneRelationUnlessClash
  BY DEF NetInv
<1> QED
  BY <1>1, NetInvariant, PTL

\* A group is recorded once, unless two requests about it overlapped.
THEOREM GroupRecordedOnce == Spec => []GroupOnceUnlessClash
<1>1. NetInv => GroupOnceUnlessClash
  BY DEF NetInv
<1> QED
  BY <1>1, NetInvariant, PTL

\* A user joins a group once, unless two of the user's own requests overlapped.
THEOREM MemberRecordedOnce == Spec => []MemberOnce
<1>1. NetInv => MemberOnce
  BY DEF NetInv
<1> QED
  BY <1>1, NetInvariant, PTL

----------------------------------------------------------------------------
(* What a step may never do *)

LEMMA OnlySendsGrow ==
  ASSUME Typed, [Next]_vars, NEW s \in Servers, tasks'[s] # tasks[s]
  PROVE  \/ SendMessage(s) \/ SendGroupMessage(s) \/ Publish(s)
         \/ Retire(s) /\ tasks'[s] = <<>>
<1>1. HandlersTyped /\ TasksTyped
  BY DEF Typed
<1>2. ASSUME NEW t \in Servers, SendMessage(t) \/ SendGroupMessage(t) \/ Publish(t) \/ Retire(t)
      PROVE  t = s /\ (Retire(t) => tasks'[s] = <<>>)
  BY <1>1, <1>2 DEF SendMessage, SendGroupMessage, PutTask, Publish, Retire, TasksTyped
<1>3. ASSUME NEW t \in Servers, Accept(t) PROVE tasks' = tasks
  BY <1>1, <1>3, AcceptEffect
<1>4. ASSUME NEW t \in Servers, InviteChecks(t) \/ SendChecks(t) \/ GroupChecks(t)
      PROVE  tasks' = tasks
  BY <1>1, <1>4, ChecksEffect
<1>5. ASSUME NEW t \in Servers, Writes(t) \/ Terminate(t) \/ Die(t) PROVE tasks' = tasks
  BY <1>5 DEF Writes, AddInvitation, DeleteInvitation, AddFriendship, AddPost, AddGroup,
     AddMember, Terminate, Die
<1>6. LoginServer \/ UNCHANGED vars => tasks' = tasks
  BY LoginServerFrame DEF vars
<1> QED
  BY <1>2, <1>3, <1>4, <1>5, <1>6, StepKinds DEF Others

\* A direct message is queued between friends only, unless one of the two was
\* being deleted.
THEOREM OnlyFriendsWriteToEachOther == Spec => OnlyFriendsWrite
<1> DEFINE Step == \A s \in Servers :
      Len(tasks'[s]) > Len(tasks[s]) /\ at[s].arg \in Users =>
        \/ Friends(at[s].who, at[s].arg)
        \/ {at[s].who, at[s].arg} \cap raced # {}
<1>1. ASSUME NetInv, [Next]_vars PROVE Step
  <2> SUFFICES ASSUME NEW s \in Servers, Len(tasks'[s]) > Len(tasks[s]), at[s].arg \in Users
               PROVE  \/ Friends(at[s].who, at[s].arg)
                      \/ {at[s].who, at[s].arg} \cap raced # {}
    OBVIOUS
  <2>1. Typed /\ HandlersTyped /\ TasksTyped /\ WritesToFriend
    BY <1>1 DEF NetInv, Typed
  <2>2. tasks[s] \in Seq(Task) /\ Len(tasks[s]) \in Nat
    BY <2>1, LenProperties DEF TasksTyped
  <2>3. tasks'[s] # tasks[s]
    BY <2>2
  <2>4. ~Publish(s)
    <3>1. Publish(s) => Len(tasks'[s]) = Len(tasks[s]) - 1
      BY <2>1, <2>2, HeadTailProperties DEF Publish, TasksTyped
    <3> QED
      BY <2>2, <3>1
  <2>5. tasks'[s] # <<>>
    BY <2>2
  <2>6. ~SendGroupMessage(s)
    BY <2>1, NetAssumption DEF SendGroupMessage, PutTask, HandlersTyped, AboutGroups
  <2>7. SendMessage(s)
    BY <1>1, <2>1, <2>3, <2>4, <2>5, <2>6, OnlySendsGrow
  <2>8. at[s].place = "send online"
    BY <2>7 DEF SendMessage, PutTask
  <2> QED
    BY <2>1, <2>8 DEF WritesToFriend, Named
<1>2. NetInv /\ [Next]_vars => [Step]_vars
  BY <1>1
<1>3. Spec => [][Step]_vars
  BY <1>2, NetInvariant, PTL DEF Spec
<1> QED
  BY <1>3 DEF OnlyFriendsWrite

\* The servers whose handlers h are about to turn a's invitation of b into a
\* friendship.
Accepting(h, a, b) ==
  {s \in Servers : h[s] = [place |-> "befriend", who |-> b, arg |-> a]}

LEMMA RecordOf ==
  ASSUME NEW h \in Handler, NEW p, NEW w, NEW x
  PROVE  h = [place |-> p, who |-> w, arg |-> x] <=> h.place = p /\ h.who = w /\ h.arg = x
BY DEF Handler

LEMMA AcceptingIs ==
  ASSUME NEW h \in [Servers -> Handler], NEW a, NEW b
  PROVE  /\ Accepting(h, a, b) =
              {s \in Servers : h[s].place = "befriend" /\ h[s].who = b /\ h[s].arg = a}
         /\ IsFiniteSet(Accepting(h, a, b)) /\ Cardinality(Accepting(h, a, b)) \in Nat
<1>1. \A s \in Servers :
        h[s] = [place |-> "befriend", who |-> b, arg |-> a] <=>
          h[s].place = "befriend" /\ h[s].who = b /\ h[s].arg = a
  BY RecordOf
<1>2. Accepting(h, a, b) \in SUBSET Servers
  BY DEF Accepting
<1> QED
  BY <1>1, <1>2, NetAssumption, FS_Subset, FS_CardinalityType DEF Accepting

\* No handler begins to accept: the number does not grow.
LEMMA AcceptingShrinks ==
  ASSUME HandlersTyped, at' \in [Servers -> Handler], NEW a, NEW b,
         \A s \in Servers : at'[s] = at[s] \/ at'[s].place # "befriend"
  PROVE  Cardinality(Accepting(at', a, b)) <= Cardinality(Accepting(at, a, b))
<1>1. at \in [Servers -> Handler]
  BY DEF HandlersTyped
<1>2. Accepting(at', a, b) \in SUBSET Accepting(at, a, b)
  BY <1>1, AcceptingIs
<1> QED
  BY <1>1, <1>2, AcceptingIs, FS_Subset

\* Only a new invitation adds to what is between two users: an invitation that
\* several servers try to accept becomes one friendship.
THEOREM InvitationsSpentOnce == Spec => InvitationSpentOnce
<1> DEFINE Inviting(a, b) ==
             \E s \in Servers : at[s] = [place |-> "invite add", who |-> a, arg |-> b]
           Step == \A a, b \in Users : Ties(a, b)' > Ties(a, b) => Inviting(a, b)
<1>1. ASSUME NetInv, [Next]_vars PROVE Step
  <2> SUFFICES ASSUME NEW a \in Users, NEW b \in Users, ~Inviting(a, b)
               PROVE  ~(Ties(a, b)' > Ties(a, b))
    OBVIOUS
  <2> HIDE DEF Inviting
  <2>0. /\ Typed /\ HandlersTyped /\ HandlersTyped' /\ StoreTyped /\ StoreTyped'
        /\ at \in [Servers -> Handler] /\ at' \in [Servers -> Handler]
    BY <1>1, NextTyped DEF NetInv, Typed, HandlersTyped
  <2>a. /\ inv[a][b] \in Nat /\ inv'[a][b] \in Nat
        /\ friends[a][b] \in Nat /\ friends'[a][b] \in Nat
    BY <2>0 DEF StoreTyped
  <2>b. /\ Cardinality(Accepting(at, a, b)) \in Nat
        /\ Cardinality(Accepting(at', a, b)) \in Nat
    BY <2>0, AcceptingIs
  <2>1. PICK i \in Nat, i2 \in Nat, f \in Nat, f2 \in Nat, n \in Nat, n2 \in Nat :
          /\ i = inv[a][b] /\ i2 = inv'[a][b] /\ f = friends[a][b] /\ f2 = friends'[a][b]
          /\ n = Cardinality(Accepting(at, a, b)) /\ n2 = Cardinality(Accepting(at', a, b))
    BY <2>a, <2>b
  <2>2. Ties(a, b) = i + f + n /\ Ties(a, b)' = i2 + f2 + n2
    BY <2>1 DEF Ties, Accepting
  <2>3. ASSUME i2 <= i, f2 <= f, n2 <= n PROVE ~(Ties(a, b)' > Ties(a, b))
    BY <2>2, <2>3
  <2>4. ASSUME \A s \in Servers : at'[s] = at[s] \/ at'[s].place # "befriend" PROVE n2 <= n
    BY <2>0, <2>1, <2>4, AcceptingShrinks
  <2>5. ASSUME UNCHANGED <<inv, friends>> PROVE i2 <= i /\ f2 <= f
    BY <2>1, <2>5
  <2>6. ASSUME NEW s \in Servers, Accept(s) PROVE i2 <= i /\ f2 <= f /\ n2 <= n
    <3>1. \A t \in Servers : at'[t] = at[t] \/ at'[t].place # "befriend"
      BY <2>0, <2>6, AcceptEffect
    <3>2. UNCHANGED <<inv, friends>>
      BY <2>0, <2>6, AcceptEffect
    <3> QED
      BY <2>4, <2>5, <3>1, <3>2
  <2>7. ASSUME NEW s \in Servers, InviteChecks(s) \/ SendChecks(s) \/ GroupChecks(s)
        PROVE  i2 <= i /\ f2 <= f /\ n2 <= n
    <3>1. UNCHANGED <<inv, friends>> /\ \A t \in Servers : t # s => at'[t] = at[t]
      BY <2>0, <2>7, ChecksEffect
    <3>2. at'[s].place # "befriend"
      BY <2>0, <2>7, ChecksFound, Idle
    <3> QED
      BY <2>4, <2>5, <3>1, <3>2
  <2>8. ASSUME NEW s \in Servers, Others(s) PROVE i2 <= i /\ f2 <= f /\ n2 <= n
    <3>1. \A t \in Servers : at'[t] = at[t] \/ at'[t].place # "befriend"
      BY <2>0, <2>8, OthersEffect
    <3>2. UNCHANGED <<inv, friends>>
      BY <2>0, <2>8, OthersEffect
    <3> QED
      BY <2>4, <2>5, <3>1, <3>2
  <2>9. ASSUME LoginServer PROVE i2 <= i /\ f2 <= f /\ n2 <= n
    <3>1. n2 <= n
      BY <2>4, <2>9, LoginServerFrame
    <3>2. /\ DeleteInvitations => i2 \in {0, i} /\ f2 = f
          /\ DeleteFriendships => i2 = i /\ f2 \in {0, f}
      BY <2>1, <2>0, DeleteEffect
    <3>3. ~DeleteInvitations /\ ~DeleteFriendships => UNCHANGED <<inv, friends>>
      BY <2>0, <2>9, DeleteEffect DEF LoginServer, Register, Login, Logout, Delete,
         LoginServerDies
    <3> QED
      BY <2>1, <2>5, <3>1, <3>2, <3>3
  <2>10. ASSUME NEW s \in Servers, Writes(s) PROVE ~(Ties(a, b)' > Ties(a, b))
    <3> DEFINE u == at[s].who
               x == at[s].arg
    <3>1. \A t \in Servers : t # s => at'[t] = at[t]
      BY <2>0, <2>10, WritesFrame DEF Continues
    <3>2. CASE AddInvitation(s)
      <4>1. /\ at[s].place = "invite add" /\ u \in Users /\ x \in Users
            /\ at'[s] = NoHandler /\ UNCHANGED friends
        BY <2>0, <3>2, AddInvitationEffect
      <4>2. \A c, d \in Users : c # u \/ d # x => inv'[c][d] = inv[c][d]
        BY <2>0, <3>2, AddInvitationEffect
      <4>3. a # u \/ b # x
        <5>1. at[s] # [place |-> "invite add", who |-> a, arg |-> b]
          BY DEF Inviting
        <5>2. at[s] \in Handler
          BY <2>0
        <5>3. ASSUME at[s].place = "invite add" /\ at[s].who = a /\ at[s].arg = b
              PROVE  FALSE
          <6>1. at[s] = [place |-> "invite add", who |-> a, arg |-> b]
            BY <5>2, <5>3 DEF Handler
          <6> QED
            BY <5>1, <6>1
        <5> QED
          BY <4>1, <5>3
      <4>4. inv'[a][b] = inv[a][b]
        BY <4>2, <4>3
      <4>5. n2 <= n
        BY <2>4, <3>1, <4>1, Idle
      <4>6. i2 = i
        BY <2>1, <4>4
      <4>7. f2 = f
        BY <2>1, <4>1
      <4> QED
        BY <2>3, <4>5, <4>6, <4>7
    <3>3. CASE DeleteInvitation(s)
      <4>1. /\ at[s].place = "accept" /\ u \in Users /\ x \in Users
            /\ UNCHANGED friends
        BY <2>0, <3>3, DeleteInvitationEffect
      <4>2. f2 = f
        BY <2>1, <4>1
      <4>3. CASE at'[s] = NoHandler
        <5>1. inv'[a][b] = inv[a][b] \/ inv'[a][b] = inv[a][b] - 1
          BY <2>0, <3>3, DeleteInvitationEffect
        <5>2. i2 <= i
          BY <2>1, <5>1
        <5>3. n2 <= n
          BY <2>4, <3>1, <4>3, Idle
        <5> QED
          BY <2>1, <2>3, <4>2, <5>2, <5>3
      <4>4. CASE at'[s] # NoHandler
        <5>1. /\ inv'[x][u] = inv[x][u] - 1
              /\ \A c, d \in Users : c # x \/ d # u => inv'[c][d] = inv[c][d]
              /\ at'[s].place = "befriend" /\ at'[s].who = u /\ at'[s].arg = x
          BY <2>0, <3>3, <4>4, DeleteInvitationEffect
        <5>2. CASE a = x /\ b = u
          <6>1. Accepting(at', a, b) = Accepting(at, a, b) \cup {s} /\ s \notin Accepting(at, a, b)
            BY <2>0, <3>1, <4>1, <5>1, <5>2, AcceptingIs
          <6>2. n2 = n + 1
            BY <2>1, <2>0, <6>1, AcceptingIs, FS_AddElement
          <6>3. i2 = i - 1
            BY <2>1, <5>1, <5>2
          <6> QED
            BY <2>1, <2>2, <4>2, <6>2, <6>3
        <5>3. CASE a # x \/ b # u
          <6>1. \A t \in Servers :
                  at'[t].place = "befriend" /\ at'[t].who = b /\ at'[t].arg = a <=>
                    at[t].place = "befriend" /\ at[t].who = b /\ at[t].arg = a
            BY <3>1, <4>1, <5>1, <5>3
          <6>2. Accepting(at', a, b) = Accepting(at, a, b)
            <7> DEFINE A(h) == {t \in Servers : h[t].place = "befriend" /\ h[t].who = b
                                               /\ h[t].arg = a}
            <7>1. A(at') = A(at)
              BY <6>1
            <7>2. Accepting(at', a, b) = A(at') /\ Accepting(at, a, b) = A(at)
              BY <2>0, AcceptingIs
            <7> HIDE DEF A
            <7> QED
              BY <7>1, <7>2
          <6>3. i2 = i
            <7>1. inv'[a][b] = inv[a][b]
              BY <5>1, <5>3
            <7> QED
              BY <2>1, <7>1
          <6>4. n2 = n
            BY <2>1, <6>2
          <6> QED
            BY <2>1, <2>3, <4>2, <6>3, <6>4
        <5> QED
          BY <5>2, <5>3
      <4> QED
        BY <4>3, <4>4
    <3>4. CASE AddFriendship(s)
      <4>1. /\ at[s].place = "befriend" /\ u \in Users /\ x \in Users
            /\ at'[s] = NoHandler /\ UNCHANGED inv
            /\ friends'[x][u] = friends[x][u] + 1
        BY <2>0, <3>4, AddFriendshipEffect
      <4>2. \A c, d \in Users : c # x \/ d # u => friends'[c][d] = friends[c][d]
        BY <2>0, <3>4, AddFriendshipEffect
      <4>3. i2 = i
        BY <2>1, <4>1
      <4>4. CASE a = x /\ b = u
        <5>1. Accepting(at', a, b) = Accepting(at, a, b) \ {s} /\ s \in Accepting(at, a, b)
          BY <2>0, <3>1, <4>1, <4>4, Idle, AcceptingIs
        <5>2. n2 = n - 1
          BY <2>1, <2>0, <5>1, AcceptingIs, FS_RemoveElement
        <5>3. f2 = f + 1
          BY <2>1, <4>1, <4>4
        <5> QED
          BY <2>1, <2>2, <4>3, <5>2, <5>3
      <4>5. CASE a # x \/ b # u
        <5>1. n2 <= n
          BY <2>4, <3>1, <4>1, Idle
        <5>2. f2 = f
          BY <2>1, <4>2, <4>5
        <5> QED
          BY <2>1, <2>3, <4>3, <5>1, <5>2
      <4> QED
        BY <4>4, <4>5
    <3>5. CASE AddPost(s) \/ AddGroup(s) \/ AddMember(s)
      <4>1. UNCHANGED <<inv, friends>> /\ at'[s].place # "befriend"
        BY <2>0, <3>5, Idle, AddPostEffect, AddGroupEffect, AddMemberEffect
      <4> QED
        BY <2>3, <2>4, <2>5, <3>1, <4>1
    <3> QED
      BY <2>10, <3>2, <3>3, <3>4, <3>5 DEF Writes
  <2>11. UNCHANGED vars => UNCHANGED <<inv, friends, at>>
    BY DEF vars
  <2> QED
    BY <1>1, <2>0, <2>3, <2>4, <2>5, <2>6, <2>7, <2>8, <2>9, <2>10, <2>11, StepKinds
<1>2. NetInv /\ [Next]_vars => [Step]_vars
  BY <1>1
<1>3. Spec => [][Step]_vars
  BY <1>2, NetInvariant, PTL DEF Spec
<1> QED
  BY <1>3 DEF InvitationSpentOnce
=============================================================================
