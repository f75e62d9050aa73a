---------------------------- MODULE SocialServer3 ----------------------------
(***************************************************************************)
(* The social server of Project_3 (server.cpp), which Project_4 extends by *)
(* groups and messages: one request at a time, everything in MongoDB, one  *)
(* step per write because the process may stop between two writes.  The    *)
(* list handlers and receive-post write nothing and are left out.          *)
(* SocialServer implements this specification (SocialServer!OldSpec).      *)
(***************************************************************************)
EXTENDS Naturals

CONSTANTS Users, NoOne

VARIABLES
  users, logins,   \* names in Users and in LoginUsers
  inv, friends,    \* records in Invitations and Friendships, counted by pair
  posts,           \* names with a record in Posts
  pc, who, arg     \* the next write of the handler, its user, the other user

handler == <<pc, who, arg>>
vars == <<users, logins, inv, friends, posts, handler>>

Init ==
  /\ users = {} /\ logins = {} /\ posts = {}
  /\ inv = [a \in Users |-> [b \in Users |-> 0]] /\ friends = inv
  /\ pc = "idle" /\ who = NoOne /\ arg = NoOne

Idle == pc' = "idle" /\ who' = NoOne /\ arg' = NoOne
CheckLogin(u) == pc = "idle" /\ u \in logins
CheckFriendshipExists(u, v) == friends[u][v] + friends[v][u] > 0
\* A handler's write after which another one follows.
Then(place, next) == pc = place /\ pc' = next /\ UNCHANGED <<who, arg>>

----------------------------------------------------------------------------
Register(u) ==
  /\ pc = "idle" /\ u \notin users
  /\ users' = users \cup {u}
  /\ UNCHANGED <<logins, inv, friends, posts, handler>>

Login(u) ==
  /\ pc = "idle" /\ u \in users
  /\ logins' = logins \cup {u}
  /\ UNCHANGED <<users, inv, friends, posts, handler>>

Logout(u) ==
  /\ CheckLogin(u)
  /\ logins' = logins \ {u}
  /\ UNCHANGED <<users, inv, friends, posts, handler>>

Invite(u, v) ==
  /\ CheckLogin(u) /\ v \in users \ {u}
  /\ inv[v][u] = 0 /\ ~CheckFriendshipExists(u, v) /\ inv[u][v] = 0
  /\ inv' = [inv EXCEPT ![u][v] = @ + 1]
  /\ UNCHANGED <<users, logins, friends, posts, handler>>

AcceptInvite(u, v) ==
  /\ CheckLogin(u) /\ inv[v][u] > 0
  /\ inv' = [inv EXCEPT ![v][u] = @ - 1]
  /\ pc' = "befriend" /\ who' = u /\ arg' = v
  /\ UNCHANGED <<users, logins, friends, posts>>

AddNewFriendship ==
  /\ pc = "befriend"
  /\ friends' = [friends EXCEPT ![arg][who] = @ + 1]
  /\ Idle
  /\ UNCHANGED <<users, logins, inv, posts>>

Post(u) ==
  /\ CheckLogin(u)
  /\ posts' = posts \cup {u}
  /\ UNCHANGED <<users, logins, inv, friends, handler>>

----------------------------------------------------------------------------
(* delete: invitations, friendships, posts, login record, user *)

Without(records, u) ==
  [a \in Users |-> [b \in Users |-> IF u \in {a, b} THEN 0 ELSE records[a][b]]]

Delete(u) ==
  /\ CheckLogin(u)
  /\ inv' = Without(inv, u)
  /\ pc' = "del friends" /\ who' = u /\ arg' = NoOne
  /\ UNCHANGED <<users, logins, friends, posts>>

DeleteAllFriends ==
  /\ Then("del friends", "del posts")
  /\ friends' = Without(friends, who)
  /\ UNCHANGED <<users, logins, inv, posts>>

DeleteAllPosts ==
  /\ Then("del posts", "del login")
  /\ posts' = posts \ {who}
  /\ UNCHANGED <<users, logins, inv, friends>>

DeleteLoginRecordByToken ==
  /\ Then("del login", "del user")
  /\ logins' = logins \ {who}
  /\ UNCHANGED <<users, inv, friends, posts>>

DeleteUser ==
  /\ pc = "del user"
  /\ users' = users \ {who}
  /\ Idle
  /\ UNCHANGED <<logins, inv, friends, posts>>

Crash == pc # "idle" /\ Idle /\ UNCHANGED <<users, logins, inv, friends, posts>>

----------------------------------------------------------------------------
Next ==
  \/ \E u \in Users : Register(u) \/ Login(u) \/ Logout(u) \/ Post(u) \/ Delete(u)
  \/ \E u, v \in Users : Invite(u, v) \/ AcceptInvite(u, v)
  \/ AddNewFriendship \/ DeleteAllFriends \/ DeleteAllPosts
  \/ DeleteLoginRecordByToken \/ DeleteUser \/ Crash
Spec == Init /\ [][Next]_vars
=============================================================================
