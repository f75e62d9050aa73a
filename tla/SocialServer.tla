---------------------------- MODULE SocialServer ----------------------------
(***************************************************************************)
(* The single social server of Project_4 (server.cpp): one process answers *)
(* one request at a time and keeps everything in MongoDB.  A handler with  *)
(* several writes takes one step per write, because the process may stop   *)
(* between two of them and be started again on the same database.  The     *)
(* list, receive-post and send handlers write nothing and are left out.    *)
(***************************************************************************)
EXTENDS Naturals

CONSTANTS Users, Groups, NoOne

ASSUME NameAssumption == NoOne \notin Users \cup Groups

VARIABLES
  users,    \* names in Users
  logins,   \* names in LoginUsers: one record, one token each
  inv,      \* inv[a][b]: number of records {inviter: a, invitee: b}
  friends,  \* friends[a][b]: number of records {user_name_1: a, user_name_2: b}
  posts,    \* names with at least one record in Posts
  groups,   \* groups[g]: number of records of g in Groups
  joined,   \* joined[u][g]: number of records in JoinedGroups
  pc,       \* the next write of the handler being run, or "idle"
  who, arg  \* the user it serves, and the user or group it names

store   == <<users, logins, inv, friends, posts, groups, joined>>
handler == <<pc, who, arg>>
vars == <<store, handler>>

Writes == {"befriend", "enlist", "del friends", "del posts", "del login",
           "del joined", "del user"}

TypeOK ==
  /\ users \subseteq Users /\ logins \subseteq Users /\ posts \subseteq Users
  /\ inv \in [Users -> [Users -> Nat]] /\ friends \in [Users -> [Users -> Nat]]
  /\ groups \in [Groups -> Nat] /\ joined \in [Users -> [Groups -> Nat]]
  /\ pc \in Writes \cup {"idle"}
  /\ pc # "idle" => who \in users
  /\ pc = "befriend" => arg \in users
  /\ pc = "enlist" => arg \in Groups

Init ==
  /\ users = {} /\ logins = {} /\ posts = {}
  /\ inv = [a \in Users |-> [b \in Users |-> 0]] /\ friends = [a \in Users |-> [b \in Users |-> 0]]
  /\ groups = [g \in Groups |-> 0]
  /\ joined = [u \in Users |-> [g \in Groups |-> 0]]
  /\ pc = "idle" /\ who = NoOne /\ arg = NoOne

----------------------------------------------------------------------------
\* The handler's last write is done and the server accepts the next request.
Idle == pc' = "idle" /\ who' = NoOne /\ arg' = NoOne
\* u's token is found, and the handler goes on to a further write.
Begin(u, x, next) ==
  /\ pc = "idle" /\ u \in logins
  /\ pc' = next /\ who' = u /\ arg' = x
\* u's token is found, and the handler needs a single write.
Once(u) == pc = "idle" /\ u \in logins /\ UNCHANGED handler

Register(u) ==
  /\ pc = "idle" /\ u \notin users
  /\ users' = users \cup {u}
  /\ UNCHANGED <<logins, inv, friends, posts, groups, joined, handler>>

\* A user with a record gets the same token back.
Login(u) ==
  /\ pc = "idle" /\ u \in users
  /\ logins' = logins \cup {u}
  /\ UNCHANGED <<users, inv, friends, posts, groups, joined, handler>>

Logout(u) ==
  /\ Once(u)
  /\ logins' = logins \ {u}
  /\ UNCHANGED <<users, inv, friends, posts, groups, joined, handler>>

\* Mutant: an invitation of the other direction is overlooked.
InviteEvenIfInvited(u, v) ==
  /\ Once(u)
  /\ v \in users /\ friends[u][v] = 0 /\ friends[v][u] = 0
  /\ inv[u][v] = 0 /\ u # v
  /\ inv' = [inv EXCEPT ![u][v] = @ + 1]
  /\ UNCHANGED <<users, logins, friends, posts, groups, joined, handler>>
Invite(u, v) ==
  /\ Once(u)
  /\ v \in users /\ inv[v][u] = 0
  /\ friends[u][v] = 0 /\ friends[v][u] = 0
  /\ inv[u][v] = 0 /\ u # v
  /\ inv' = [inv EXCEPT ![u][v] = @ + 1]
  /\ UNCHANGED <<users, logins, friends, posts, groups, joined, handler>>

\* Mutant: the number of deleted invitations is ignored.
AcceptUninvited(u, v) ==
  /\ Begin(u, v, "befriend")
  /\ inv' = [inv EXCEPT ![v][u] = IF @ > 0 THEN @ - 1 ELSE 0]
  /\ UNCHANGED <<users, logins, friends, posts, groups, joined>>
\* The invitation is deleted first, the friendship added after it.
AcceptInvite(u, v) ==
  /\ Begin(u, v, "befriend")
  /\ inv[v][u] > 0
  /\ inv' = [inv EXCEPT ![v][u] = @ - 1]
  /\ UNCHANGED <<users, logins, friends, posts, groups, joined>>

AddNewFriendship ==
  /\ pc = "befriend"
  /\ friends' = [friends EXCEPT ![arg][who] = @ + 1]
  /\ Idle
  /\ UNCHANGED <<users, logins, inv, posts, groups, joined>>

Post(u) ==
  /\ Once(u)
  /\ posts' = posts \cup {u}
  /\ UNCHANGED <<users, logins, inv, friends, groups, joined, handler>>

CreateGroup(u, g) ==
  /\ Begin(u, g, "enlist")
  /\ groups[g] = 0
  /\ groups' = [groups EXCEPT ![g] = @ + 1]
  /\ UNCHANGED <<users, logins, inv, friends, posts, joined>>

EnlistCreator ==
  /\ pc = "enlist"
  /\ joined' = [joined EXCEPT ![who][arg] = @ + 1]
  /\ Idle
  /\ UNCHANGED <<users, logins, inv, friends, posts, groups>>

\* Mutant: a member may join again.
JoinAgain(u, g) ==
  /\ Once(u) /\ groups[g] > 0
  /\ joined' = [joined EXCEPT ![u][g] = @ + 1]
  /\ UNCHANGED <<users, logins, inv, friends, posts, groups, handler>>
JoinGroup(u, g) ==
  /\ Once(u)
  /\ groups[g] > 0 /\ joined[u][g] = 0
  /\ joined' = [joined EXCEPT ![u][g] = @ + 1]
  /\ UNCHANGED <<users, logins, inv, friends, posts, groups, handler>>

----------------------------------------------------------------------------
(* delete: six writes, the user's own record last *)

Without(records, u) ==
  [a \in Users |-> [b \in Users |-> IF u \in {a, b} THEN 0 ELSE records[a][b]]]
Then(place, next) == pc = place /\ pc' = next /\ UNCHANGED <<who, arg>>

\* Mutant: the friendships are left out.
DeleteLeavingFriends(u) ==
  /\ Begin(u, NoOne, "del posts")
  /\ inv' = Without(inv, u)
  /\ UNCHANGED <<users, logins, friends, posts, groups, joined>>
Delete(u) ==
  /\ Begin(u, NoOne, "del friends")
  /\ inv' = Without(inv, u)
  /\ UNCHANGED <<users, logins, friends, posts, groups, joined>>

\* Mutant: only the friendships with the user as user_name_1.
DeleteFirstFriends ==
  /\ Then("del friends", "del posts")
  /\ friends' = [friends EXCEPT ![who] = [b \in Users |-> 0]]
  /\ UNCHANGED <<users, logins, inv, posts, groups, joined>>
DeleteAllFriends ==
  /\ Then("del friends", "del posts")
  /\ friends' = Without(friends, who)
  /\ UNCHANGED <<users, logins, inv, posts, groups, joined>>

DeleteAllPosts ==
  /\ Then("del posts", "del login")
  /\ posts' = posts \ {who}
  /\ UNCHANGED <<users, logins, inv, friends, groups, joined>>

DeleteLoginRecord ==
  /\ Then("del login", "del joined")
  /\ logins' = logins \ {who}
  /\ UNCHANGED <<users, inv, friends, posts, groups, joined>>

DeleteJoinedGroupRecords ==
  /\ Then("del joined", "del user")
  /\ joined' = [joined EXCEPT ![who] = [g \in Groups |-> 0]]
  /\ UNCHANGED <<users, logins, inv, friends, posts, groups>>

DeleteUser ==
  /\ pc = "del user"
  /\ users' = users \ {who}
  /\ Idle
  /\ UNCHANGED <<logins, inv, friends, posts, groups, joined>>

\* The process stops between two writes (an exception of the database driver
\* that nobody catches, or a kill) and is started again.
Crash ==
  /\ pc # "idle"
  /\ Idle
  /\ UNCHANGED store

----------------------------------------------------------------------------
Request ==
  \/ \E u \in Users : Register(u) \/ Login(u) \/ Logout(u) \/ Post(u) \/ Delete(u)
  \/ \E u, v \in Users : Invite(u, v) \/ AcceptInvite(u, v)
  \/ \E u \in Users, g \in Groups : CreateGroup(u, g) \/ JoinGroup(u, g)
LaterWrite ==
  \/ AddNewFriendship \/ EnlistCreator \/ DeleteAllFriends \/ DeleteAllPosts
  \/ DeleteLoginRecord \/ DeleteJoinedGroupRecords \/ DeleteUser

Next == Request \/ LaterWrite \/ Crash
Spec == Init /\ [][Next]_vars

----------------------------------------------------------------------------
(* Properties *)

\* Every record names users that exist: no crash in the middle of a delete, or
\* of any other handler, leaves a record of somebody who is gone (and whose
\* name the next one to register would inherit with friends and groups).
NamesExist ==
  /\ logins \subseteq users /\ posts \subseteq users
  /\ \A a, b \in Users :
        inv[a][b] + friends[a][b] > 0 => a \in users /\ b \in users
  /\ \A u \in Users, g \in Groups : joined[u][g] > 0 => u \in users

\* Two users have at most one relation, of one record: an invitation one way or
\* a friendship; and nobody has one with himself (the checks of lines 851-880,
\* and the two writes of accept-invite).
Relations(a, b) == inv[a][b] + inv[b][a] + friends[a][b] + friends[b][a]
OneRelation == \A a, b \in Users : Relations(a, b) <= (IF a = b THEN 0 ELSE 1)

\* Groups and memberships are unique, and a membership's group exists.
GroupsOnce ==
  /\ \A g \in Groups : groups[g] <= 1
  /\ \A u \in Users, g \in Groups : joined[u][g] <= groups[g]

\* Where a delete has got to: what it has deleted so far stays deleted.
DeleteProgress ==
  /\ pc \in {"del friends", "del posts", "del login", "del joined", "del user"} =>
        \A a \in Users : inv[a][who] = 0 /\ inv[who][a] = 0
  /\ pc \in {"del posts", "del login", "del joined", "del user"} =>
        \A a \in Users : friends[a][who] = 0 /\ friends[who][a] = 0
  /\ pc \in {"del login", "del joined", "del user"} => who \notin posts
  /\ pc \in {"del joined", "del user"} => who \notin logins
  /\ pc = "del user" => \A g \in Groups : joined[who][g] = 0

\* Between the two writes of a handler nobody else can come in between: the
\* pair has no other relation, the new group no member.
HalfDone ==
  /\ pc = "befriend" => who # arg /\ Relations(who, arg) = 0
  /\ pc = "enlist" => groups[arg] = 1 /\ joined[who][arg] = 0

\* The inductive invariant of the store.
StoreInv == NamesExist /\ OneRelation /\ GroupsOnce /\ DeleteProgress /\ HalfDone

\* The server implements the social graph: an invitation being turned into a
\* friendship still counts as an invitation.
Tie == [a \in Users |-> [b \in Users |->
          IF friends[a][b] > 0 THEN "friends"
          ELSE IF inv[a][b] > 0 \/ (pc = "befriend" /\ a = arg /\ b = who)
               THEN "invited" ELSE "none"]]
Graph == INSTANCE SocialGraph WITH tie <- Tie
GraphSpec == Graph!Spec

\* Without groups it is still the server of Project_3: what Project_4 added to
\* delete comes between two of its writes, and create-group is invisible.
Old == INSTANCE SocialServer3 WITH
  pc  <- IF pc = "del joined" THEN "del user" ELSE IF pc = "enlist" THEN "idle" ELSE pc,
  who <- IF pc = "enlist" THEN NoOne ELSE who,
  arg <- IF pc = "enlist" THEN NoOne ELSE arg
OldSpec == Old!Spec
=============================================================================
