------------------------- MODULE SocialServerProofs -------------------------
(***************************************************************************)
(* Proofs about SocialServer for any sets of users and groups: the store   *)
(* stays consistent through every crash, and the server implements the     *)
(* social graph.                                                           *)
(***************************************************************************)
EXTENDS SocialServer, TLAPS

----------------------------------------------------------------------------
(* The invariant *)

Inv == TypeOK /\ StoreInv

\* The empty store satisfies the invariant.
LEMMA InitInv == Init => Inv
<1> SUFFICES ASSUME Init PROVE Inv
  OBVIOUS
<1>1. /\ \A a, b \in Users : inv[a][b] = 0 /\ friends[a][b] = 0
      /\ \A u \in Users, g \in Groups : joined[u][g] = 0
  BY DEF Init
<1>2. TypeOK
  BY DEF Init, TypeOK
<1>3. NamesExist /\ OneRelation
  BY <1>1 DEF Init, NamesExist, OneRelation, Relations
<1>4. GroupsOnce /\ DeleteProgress /\ HalfDone
  BY <1>1 DEF Init, GroupsOnce, DeleteProgress, HalfDone
<1> QED
  BY <1>2, <1>3, <1>4 DEF Inv, StoreInv

\* Records of invitations and friendships that only become fewer, keep every
\* pair to one relation.
LEMMA FewerRecords ==
  ASSUME \A a, b \in Users :
           /\ inv[a][b] \in Nat /\ inv'[a][b] \in Nat
           /\ friends[a][b] \in Nat /\ friends'[a][b] \in Nat
           /\ inv'[a][b] <= inv[a][b] /\ friends'[a][b] <= friends[a][b]
  PROVE  /\ OneRelation => OneRelation'
         /\ \A a, b \in Users : inv'[a][b] + friends'[a][b] > 0
                                  => inv[a][b] + friends[a][b] > 0
<1>1. ASSUME OneRelation, NEW a \in Users, NEW b \in Users
      PROVE  Relations(a, b)' <= (IF a = b THEN 0 ELSE 1)
  <2>1. Relations(a, b) <= (IF a = b THEN 0 ELSE 1)
    BY <1>1 DEF OneRelation
  <2>2. Relations(a, b)' <= Relations(a, b) /\ Relations(a, b) \in Nat
        /\ Relations(a, b)' \in Nat
    BY DEF Relations
  <2> QED BY <2>1, <2>2
<1>2. ASSUME NEW a \in Users, NEW b \in Users, inv'[a][b] + friends'[a][b] > 0
      PROVE  inv[a][b] + friends[a][b] > 0
  BY <1>2
<1> QED BY <1>1, <1>2 DEF OneRelation

\* A request's first (or only) write preserves the invariant.
LEMMA RequestInv == Inv /\ Request => Inv'
<1> SUFFICES ASSUME Inv, Request PROVE Inv'
  OBVIOUS
<1> USE DEF Inv, StoreInv
<1>t. /\ inv \in [Users -> [Users -> Nat]] /\ friends \in [Users -> [Users -> Nat]]
      /\ \A a, b \in Users : inv[a][b] \in Nat /\ friends[a][b] \in Nat
      /\ \A u \in Users, g \in Groups : joined[u][g] \in Nat
      /\ \A g \in Groups : groups[g] \in Nat
  BY DEF TypeOK
<1>p. pc = "idle"
  BY DEF Request, Register, Login, Logout, Once, Post, Delete,
         Begin, Invite, AcceptInvite, CreateGroup, JoinGroup
<1>1. ASSUME NEW u \in Users, Register(u) \/ Login(u) \/ Logout(u) \/ Post(u)
      PROVE  Inv'
  <2>1. /\ UNCHANGED <<inv, friends, groups, joined, handler>>
        /\ users \subseteq users' /\ users' \subseteq Users
        /\ logins' \subseteq users' /\ posts' \subseteq users'
    BY <1>1 DEF Register, Login, Logout, Post, Once, handler, TypeOK, NamesExist
  <2>2. TypeOK'
    BY <2>1, <1>t, <1>p DEF TypeOK, handler
  <2>3. NamesExist'
    BY <2>1 DEF NamesExist
  <2>4. OneRelation' /\ GroupsOnce'
    BY <2>1 DEF OneRelation, Relations, GroupsOnce
  <2>5. DeleteProgress' /\ HalfDone'
    BY <2>1, <1>t, <1>p DEF DeleteProgress, HalfDone, handler
  <2> QED BY <2>2, <2>3, <2>4, <2>5
<1>2. ASSUME NEW u \in Users, NEW v \in Users, Invite(u, v)
      PROVE  Inv'
  <2>1. /\ inv' \in [Users -> [Users -> Nat]]
        /\ \A a, b \in Users :
             inv'[a][b] = IF a = u /\ b = v THEN inv[a][b] + 1 ELSE inv[a][b]
    BY <1>2, <1>t DEF Invite
  <2>2. /\ UNCHANGED <<users, logins, friends, posts, groups, joined, handler>>
        /\ u \in users /\ v \in users /\ u # v
        /\ inv[u][v] = 0 /\ inv[v][u] = 0 /\ friends[u][v] = 0 /\ friends[v][u] = 0
    BY <1>2 DEF Invite, Once, NamesExist
  <2>3. TypeOK'
    BY <2>1, <2>2, <1>t, <1>p DEF TypeOK, handler
  <2>4. NamesExist'
    BY <2>1, <2>2, <1>t, <1>p DEF NamesExist
  <2>5. OneRelation'
    BY <2>1, <2>2, <1>t, <1>p DEF OneRelation, Relations
  <2>6. GroupsOnce' /\ DeleteProgress' /\ HalfDone'
    BY <2>2, <1>t, <1>p DEF GroupsOnce, DeleteProgress, HalfDone, handler
  <2> QED BY <2>3, <2>4, <2>5, <2>6
<1>3. ASSUME NEW u \in Users, NEW v \in Users, AcceptInvite(u, v)
      PROVE  Inv'
  <2>1. /\ inv' \in [Users -> [Users -> Nat]]
        /\ \A a, b \in Users :
             inv'[a][b] = IF a = v /\ b = u THEN inv[a][b] - 1 ELSE inv[a][b]
    BY <1>3, <1>t DEF AcceptInvite
  <2>2. /\ UNCHANGED <<users, logins, friends, posts, groups, joined>>
        /\ pc' = "befriend" /\ who' = u /\ arg' = v
        /\ u \in logins /\ inv[v][u] > 0
    BY <1>3 DEF AcceptInvite, Begin
  <2>3. u \in users /\ v \in users
    BY <2>2, <1>t, <1>p DEF NamesExist
  <2>4. TypeOK'
    BY <2>1, <2>2, <2>3, <1>t, <1>p DEF TypeOK, Writes
  <2>5. NamesExist'
    BY <2>1, <2>2, <1>t, <1>p DEF NamesExist
  <2>6. OneRelation'
    BY <2>1, <2>2, <1>t, <1>p DEF OneRelation, Relations
  <2>7. u # v /\ Relations(u, v)' = 0
    <3>1. Relations(u, v) <= (IF u = v THEN 0 ELSE 1)
      BY DEF OneRelation
    <3>2. Relations(u, v)' = Relations(u, v) - 1 \/ u = v
      BY <2>1, <2>2, <1>t DEF Relations
    <3>3. Relations(u, v) >= 1
      BY <2>2, <1>t DEF Relations
    <3> QED BY <3>1, <3>2, <3>3, <2>1, <2>2, <1>t DEF Relations
  <2>8. GroupsOnce' /\ DeleteProgress' /\ HalfDone'
    BY <2>2, <2>7, <1>t, <1>p DEF GroupsOnce, DeleteProgress, HalfDone, Relations
  <2> QED BY <2>4, <2>5, <2>6, <2>8
<1>4. ASSUME NEW u \in Users, NEW g \in Groups, CreateGroup(u, g)
      PROVE  Inv'
  <2>1. /\ UNCHANGED <<users, logins, inv, friends, posts, joined>>
        /\ pc' = "enlist" /\ who' = u /\ arg' = g
        /\ u \in logins /\ groups[g] = 0
        /\ groups' = [groups EXCEPT ![g] = @ + 1]
    BY <1>4 DEF CreateGroup, Begin
  <2>2. /\ groups' \in [Groups -> Nat] /\ groups'[g] = 1
        /\ \A k \in Groups : k # g => groups'[k] = groups[k]
    BY <2>1, <1>t, <1>p DEF TypeOK
  <2>3. TypeOK'
    BY <2>1, <2>2, <1>t, <1>p DEF TypeOK, NamesExist, Writes
  <2>4. NamesExist' /\ OneRelation' /\ DeleteProgress'
    BY <2>1 DEF NamesExist, OneRelation, Relations, DeleteProgress
  <2>5. GroupsOnce' /\ HalfDone'
    BY <2>1, <2>2, <1>t, <1>p DEF GroupsOnce, HalfDone
  <2> QED BY <2>3, <2>4, <2>5
<1>5. ASSUME NEW u \in Users, NEW g \in Groups, JoinGroup(u, g)
      PROVE  Inv'
  <2>1. /\ UNCHANGED <<users, logins, inv, friends, posts, groups, handler>>
        /\ u \in users /\ groups[g] > 0 /\ joined[u][g] = 0
        /\ joined' = [joined EXCEPT ![u][g] = @ + 1]
    BY <1>5 DEF JoinGroup, Once, NamesExist
  <2>2. /\ joined' \in [Users -> [Groups -> Nat]]
        /\ \A a \in Users, k \in Groups :
             joined'[a][k] = IF a = u /\ k = g THEN joined[a][k] + 1 ELSE joined[a][k]
    BY <2>1, <1>t, <1>p DEF TypeOK
  <2>3. TypeOK'
    BY <2>1, <2>2, <1>t, <1>p DEF TypeOK, handler
  <2>4. NamesExist' /\ OneRelation'
    BY <2>1, <2>2, <1>t, <1>p DEF NamesExist, OneRelation, Relations
  <2>5. GroupsOnce' /\ DeleteProgress' /\ HalfDone'
    BY <2>1, <2>2, <1>t, <1>p DEF GroupsOnce, DeleteProgress, HalfDone, handler
  <2> QED BY <2>3, <2>4, <2>5
<1>6. ASSUME NEW u \in Users, Delete(u)
      PROVE  Inv'
  <2>1. /\ inv' \in [Users -> [Users -> Nat]]
        /\ \A a, b \in Users : inv'[a][b] = 0 \/ (a # u /\ b # u /\ inv'[a][b] = inv[a][b])
    BY <1>6, <1>t DEF Delete, Without
  <2>2. /\ UNCHANGED <<users, logins, friends, posts, groups, joined>>
        /\ pc' = "del friends" /\ who' = u /\ u \in logins
    BY <1>6 DEF Delete, Begin
  <2>3. TypeOK'
    BY <2>1, <2>2, <1>t, <1>p DEF TypeOK, NamesExist, Writes
  <2>4. /\ OneRelation'
        /\ \A a, b \in Users : inv'[a][b] + friends'[a][b] > 0
                                 => inv[a][b] + friends[a][b] > 0
    <3>1. ASSUME NEW a \in Users, NEW b \in Users
          PROVE  /\ inv'[a][b] \in Nat /\ inv'[a][b] <= inv[a][b]
                 /\ friends'[a][b] \in Nat /\ friends'[a][b] <= friends[a][b]
      <4>1. inv[a][b] \in Nat /\ friends[a][b] \in Nat
        BY <1>t
      <4>2. inv'[a][b] = 0 \/ inv'[a][b] = inv[a][b]
        BY <2>1
      <4>3. friends'[a][b] = friends[a][b]
        BY <2>2
      <4> QED BY <4>1, <4>2, <4>3
    <3> QED BY <3>1, <1>t, FewerRecords
  <2>5. NamesExist'
    BY <2>4, <2>2 DEF NamesExist
  <2>6. GroupsOnce' /\ DeleteProgress' /\ HalfDone'
    BY <2>1, <2>2, <1>t, <1>p DEF GroupsOnce, DeleteProgress, HalfDone
  <2> QED BY <2>3, <2>4, <2>5, <2>6
<1> QED
  BY <1>1, <1>2, <1>3, <1>4, <1>5, <1>6, Zenon DEF Request
\* A later write of a handler preserves the invariant.
LEMMA LaterWriteInv == Inv /\ LaterWrite => Inv'
<1> SUFFICES ASSUME Inv, LaterWrite PROVE Inv'
  OBVIOUS
<1> USE DEF Inv, StoreInv
<1>t. /\ inv \in [Users -> [Users -> Nat]] /\ friends \in [Users -> [Users -> Nat]]
      /\ joined \in [Users -> [Groups -> Nat]] /\ groups \in [Groups -> Nat]
      /\ \A a, b \in Users : inv[a][b] \in Nat /\ friends[a][b] \in Nat
      /\ \A u \in Users, g \in Groups : joined[u][g] \in Nat
      /\ \A g \in Groups : groups[g] \in Nat
  BY DEF TypeOK
<1>w. who \in users /\ who \in Users
  BY DEF TypeOK, LaterWrite, AddNewFriendship, EnlistCreator, DeleteAllFriends,
         DeleteAllPosts, DeleteLoginRecord, DeleteJoinedGroupRecords, DeleteUser,
         Then
<1>1. CASE AddNewFriendship
  <2>1. /\ UNCHANGED <<users, logins, inv, posts, groups, joined>>
        /\ pc = "befriend" /\ pc' = "idle"
        /\ friends' = [friends EXCEPT ![arg][who] = @ + 1]
    BY <1>1 DEF AddNewFriendship, Idle
  <2>2. arg \in users /\ arg \in Users /\ arg # who /\ Relations(who, arg) = 0
    BY <2>1 DEF TypeOK, HalfDone
  <2>3. /\ friends' \in [Users -> [Users -> Nat]]
        /\ \A a, b \in Users : friends'[a][b] =
              IF a = arg /\ b = who THEN friends[a][b] + 1 ELSE friends[a][b]
    BY <2>1, <2>2, <1>t, <1>w
  <2>4. TypeOK'
    BY <2>1, <2>3 DEF TypeOK
  <2>5. NamesExist'
    BY <2>1, <2>2, <2>3, <1>t, <1>w DEF NamesExist
  <2>6. OneRelation'
    BY <2>1, <2>2, <2>3, <1>t, <1>w DEF OneRelation, Relations
  <2>7. GroupsOnce' /\ DeleteProgress' /\ HalfDone'
    BY <2>1 DEF GroupsOnce, DeleteProgress, HalfDone
  <2> QED BY <2>4, <2>5, <2>6, <2>7
<1>2. CASE EnlistCreator
  <2>1. /\ UNCHANGED <<users, logins, inv, friends, posts, groups>>
        /\ pc = "enlist" /\ pc' = "idle"
        /\ joined' = [joined EXCEPT ![who][arg] = @ + 1]
    BY <1>2 DEF EnlistCreator, Idle
  <2>2. arg \in Groups /\ groups[arg] = 1 /\ joined[who][arg] = 0
    BY <2>1 DEF TypeOK, HalfDone
  <2>3. /\ joined' \in [Users -> [Groups -> Nat]]
        /\ \A a \in Users, k \in Groups : joined'[a][k] =
              IF a = who /\ k = arg THEN joined[a][k] + 1 ELSE joined[a][k]
    BY <2>1, <2>2, <1>t, <1>w
  <2>4. TypeOK'
    BY <2>1, <2>3 DEF TypeOK
  <2>5. NamesExist' /\ OneRelation'
    BY <2>1, <2>3, <1>t, <1>w DEF NamesExist, OneRelation, Relations
  <2>6. GroupsOnce'
    BY <2>1, <2>2, <2>3, <1>t DEF GroupsOnce
  <2>7. DeleteProgress' /\ HalfDone'
    BY <2>1 DEF DeleteProgress, HalfDone
  <2> QED BY <2>4, <2>5, <2>6, <2>7
<1>3. CASE DeleteAllFriends
  <2>1. /\ UNCHANGED <<users, logins, inv, posts, groups, joined, who, arg>>
        /\ pc = "del friends" /\ pc' = "del posts"
        /\ friends' = Without(friends, who)
    BY <1>3 DEF DeleteAllFriends, Then
  <2>2. /\ friends' \in [Users -> [Users -> Nat]]
        /\ \A a, b \in Users :
              friends'[a][b] = 0 \/ (a # who /\ b # who /\ friends'[a][b] = friends[a][b])
    BY <2>1, <1>t DEF Without
  <2>3. TypeOK'
    BY <2>1, <2>2 DEF TypeOK, Writes
  <2>4. /\ OneRelation'
        /\ \A a, b \in Users : inv'[a][b] + friends'[a][b] > 0
                                 => inv[a][b] + friends[a][b] > 0
    <3>1. ASSUME NEW a \in Users, NEW b \in Users
          PROVE  /\ inv'[a][b] \in Nat /\ inv'[a][b] <= inv[a][b]
                 /\ friends'[a][b] \in Nat /\ friends'[a][b] <= friends[a][b]
      <4>1. inv[a][b] \in Nat /\ friends[a][b] \in Nat
        BY <1>t
      <4>2. friends'[a][b] = 0 \/ friends'[a][b] = friends[a][b]
        BY <2>2
      <4>3. inv'[a][b] = inv[a][b]
        BY <2>1
      <4> QED BY <4>1, <4>2, <4>3
    <3> QED BY <3>1, <1>t, FewerRecords
  <2>5. NamesExist'
    BY <2>4, <2>1 DEF NamesExist
  <2>6. GroupsOnce' /\ DeleteProgress' /\ HalfDone'
    BY <2>1, <2>2, <1>w DEF GroupsOnce, DeleteProgress, HalfDone
  <2> QED BY <2>3, <2>4, <2>5, <2>6
<1>4. CASE DeleteAllPosts \/ DeleteLoginRecord
  <2>1. /\ UNCHANGED <<users, inv, friends, groups, joined, who, arg>>
        /\ \/ /\ pc = "del posts" /\ pc' = "del login"
              /\ posts' = posts \ {who} /\ logins' = logins
           \/ /\ pc = "del login" /\ pc' = "del joined"
              /\ logins' = logins \ {who} /\ posts' = posts
    BY <1>4 DEF DeleteAllPosts, DeleteLoginRecord, Then
  <2>2. TypeOK'
    BY <2>1 DEF TypeOK, Writes
  <2>3. NamesExist' /\ OneRelation' /\ GroupsOnce'
    BY <2>1 DEF NamesExist, OneRelation, Relations, GroupsOnce
  <2>4. DeleteProgress' /\ HalfDone'
    BY <2>1 DEF DeleteProgress, HalfDone
  <2> QED BY <2>2, <2>3, <2>4
<1>5. CASE DeleteJoinedGroupRecords
  <2>1. /\ UNCHANGED <<users, logins, inv, friends, posts, groups, who, arg>>
        /\ pc = "del joined" /\ pc' = "del user"
        /\ joined' = [joined EXCEPT ![who] = [g \in Groups |-> 0]]
    BY <1>5 DEF DeleteJoinedGroupRecords, Then
  <2>2. /\ joined' \in [Users -> [Groups -> Nat]]
        /\ \A u \in Users, g \in Groups :
              joined'[u][g] = 0 \/ (u # who /\ joined'[u][g] = joined[u][g])
    BY <2>1, <1>t, <1>w
  <2>3. TypeOK'
    BY <2>1, <2>2 DEF TypeOK, Writes
  <2>f. ASSUME NEW u \in Users, NEW g \in Groups
        PROVE  /\ joined'[u][g] <= joined[u][g]
               /\ joined'[u][g] > 0 => joined[u][g] > 0
    <3>1. joined[u][g] \in Nat
      BY <1>t
    <3>2. joined'[u][g] = 0 \/ joined'[u][g] = joined[u][g]
      BY <2>2
    <3> QED BY <3>1, <3>2
  <2>4. NamesExist' /\ OneRelation'
    BY <2>1, <2>f DEF NamesExist, OneRelation, Relations
  <2>5. GroupsOnce'
    <3>1. ASSUME NEW u \in Users, NEW g \in Groups
          PROVE  joined'[u][g] <= groups[g]
      <4>1. joined[u][g] <= groups[g] /\ joined'[u][g] <= joined[u][g]
        BY <2>f DEF GroupsOnce
      <4>2. joined'[u][g] \in Nat /\ joined[u][g] \in Nat /\ groups[g] \in Nat
        BY <1>t, <2>2
      <4> QED BY <4>1, <4>2
    <3> QED BY <2>1, <3>1 DEF GroupsOnce
  <2>6. DeleteProgress'
    BY <2>1, <2>2, <1>w DEF DeleteProgress
  <2>7. HalfDone'
    BY <2>1 DEF HalfDone
  <2> QED BY <2>3, <2>4, <2>5, <2>6, <2>7
<1>6. CASE DeleteUser
  <2>1. /\ UNCHANGED <<logins, inv, friends, posts, groups, joined>>
        /\ pc = "del user" /\ pc' = "idle" /\ users' = users \ {who}
    BY <1>6 DEF DeleteUser, Idle
  <2>2. TypeOK'
    BY <2>1 DEF TypeOK
  <2>3. /\ who \notin logins /\ who \notin posts
        /\ \A a \in Users : /\ inv[a][who] = 0 /\ inv[who][a] = 0
                            /\ friends[a][who] = 0 /\ friends[who][a] = 0
        /\ \A g \in Groups : joined[who][g] = 0
    BY <2>1 DEF DeleteProgress
  <2>4. NamesExist'
    <3>1. logins' \subseteq users' /\ posts' \subseteq users'
      BY <2>1, <2>3 DEF NamesExist
    <3>2. ASSUME NEW a \in Users, NEW b \in Users, inv[a][b] + friends[a][b] > 0
          PROVE  a \in users' /\ b \in users'
      <4>1. a # who /\ b # who
        BY <2>3, <3>2
      <4> QED BY <4>1, <3>2, <2>1 DEF NamesExist
    <3>3. ASSUME NEW u \in Users, NEW g \in Groups, joined[u][g] > 0
          PROVE  u \in users'
      <4>1. u # who
        BY <2>3, <3>3
      <4> QED BY <4>1, <3>3, <2>1 DEF NamesExist
    <3> QED BY <2>1, <3>1, <3>2, <3>3 DEF NamesExist
  <2>5. OneRelation' /\ GroupsOnce' /\ DeleteProgress' /\ HalfDone'
    BY <2>1 DEF OneRelation, Relations, GroupsOnce, DeleteProgress, HalfDone
  <2> QED BY <2>2, <2>4, <2>5
<1> QED
  BY <1>1, <1>2, <1>3, <1>4, <1>5, <1>6 DEF LaterWrite

\* A crash, or no step at all, preserves the invariant.
LEMMA CrashInv == Inv /\ (Crash \/ UNCHANGED vars) => Inv'
<1> SUFFICES ASSUME Inv, Crash \/ UNCHANGED vars PROVE Inv'
  OBVIOUS
<1> USE DEF Inv, StoreInv
<1>1. UNCHANGED store /\ (pc' = "idle" \/ UNCHANGED handler)
  BY DEF Crash, Idle, vars
<1>2. TypeOK'
  BY <1>1 DEF TypeOK, store, handler
<1>3. NamesExist' /\ OneRelation' /\ GroupsOnce'
  BY <1>1 DEF NamesExist, OneRelation, Relations, GroupsOnce, store
<1>4. DeleteProgress' /\ HalfDone'
  BY <1>1 DEF DeleteProgress, HalfDone, Relations, store, handler
<1> QED
  BY <1>2, <1>3, <1>4

\* The store is consistent in every state: after any requests of any users,
\* with a crash between any two writes.
THEOREM StoreInvariant == Spec => [](TypeOK /\ StoreInv)
<1>1. Inv /\ [Next]_vars => Inv'
  BY RequestInv, LaterWriteInv, CrashInv DEF Next
<1> QED
  BY InitInv, <1>1, PTL DEF Spec, Inv

\* No record ever names a user who does not exist.
THEOREM NamesAlwaysExist == Spec => []NamesExist
BY StoreInvariant, PTL DEF StoreInv

\* Two users never have more than one relation, nobody one with himself.
THEOREM AlwaysOneRelation == Spec => []OneRelation
BY StoreInvariant, PTL DEF StoreInv

\* Groups and memberships are never doubled.
THEOREM GroupsAlwaysOnce == Spec => []GroupsOnce
BY StoreInvariant, PTL DEF StoreInv
----------------------------------------------------------------------------
(* The social graph *)

Between(a, b) == IF friends[a][b] > 0 THEN "friends"
                 ELSE IF inv[a][b] > 0 \/ (pc = "befriend" /\ a = arg /\ b = who)
                      THEN "invited" ELSE "none"

\* A step after which every tie is as before or gone is a step of the graph.
LEMMA TiesEnd ==
  ASSUME \A a, b \in Users : Between(a, b)' = Between(a, b) \/ Between(a, b)' = "none"
  PROVE  Graph!Next
<1> DEFINE S == {p \in Users \X Users : Between(p[1], p[2])' = "none"}
<1>1. ASSUME NEW a \in Users, NEW b \in Users
      PROVE  Between(a, b)' = IF <<a, b>> \in S THEN "none" ELSE Between(a, b)
  <2>1. <<a, b>> \in S <=> Between(a, b)' = "none"
    OBVIOUS
  <2> QED BY <2>1
<1>2. Tie = [a \in Users |-> [b \in Users |-> Between(a, b)]]
  BY DEF Tie, Between
<1>3. Tie' = [a \in Users |-> [b \in Users |-> Between(a, b)']]
  BY DEF Tie, Between
<1> HIDE DEF S
<1>4. Tie' = [a \in Users |-> [b \in Users |->
                IF <<a, b>> \in S THEN "none" ELSE Tie[a][b]]]
  BY <1>1, <1>2, <1>3
<1>5. S \in SUBSET Graph!Pairs
  BY DEF S, Graph!Pairs
<1> QED
  BY <1>4, <1>5 DEF Graph!Next, Graph!Drop

\* A step that changes no tie is a stutter of the graph.
LEMMA TiesStay ==
  ASSUME \A a, b \in Users : Between(a, b)' = Between(a, b)
  PROVE  Tie' = Tie
<1>2. Tie = [a \in Users |-> [b \in Users |-> Between(a, b)]]
  BY DEF Tie, Between
<1>3. Tie' = [a \in Users |-> [b \in Users |-> Between(a, b)']]
  BY DEF Tie, Between
<1> QED BY <1>2, <1>3

\* A step that changes one tie, from the first value to the second.
LEMMA TieChanges ==
  ASSUME NEW u \in Users, NEW v \in Users, NEW new,
         Between(u, v)' = new,
         \A a, b \in Users : a # u \/ b # v => Between(a, b)' = Between(a, b)
  PROVE  Tie' = [Tie EXCEPT ![u][v] = new] /\ Tie[u][v] = Between(u, v)
                                          /\ Tie[v][u] = Between(v, u)
<1>2. Tie = [a \in Users |-> [b \in Users |-> Between(a, b)]]
  BY DEF Tie, Between
<1>3. Tie' = [a \in Users |-> [b \in Users |-> Between(a, b)']]
  BY DEF Tie, Between
<1> QED BY <1>2, <1>3

\* The empty store has no ties.
LEMMA GraphInit == Init => Graph!Init
<1> SUFFICES ASSUME Init PROVE Tie = [a \in Users |-> [b \in Users |-> "none"]]
  BY DEF Graph!Init
<1>1. \A a, b \in Users : friends[a][b] = 0 /\ inv[a][b] = 0 /\ pc = "idle"
  BY DEF Init
<1> QED BY <1>1 DEF Tie

\* Every step of the server is a step of the graph, or changes no tie.
LEMMA GraphStep == Inv /\ [Next]_vars => [Graph!Next]_Tie
<1> SUFFICES ASSUME Inv, [Next]_vars PROVE Graph!Next \/ Tie' = Tie
  OBVIOUS
<1>t. \A a, b \in Users : inv[a][b] \in Nat /\ friends[a][b] \in Nat
  BY DEF Inv, TypeOK
<1>y. inv \in [Users -> [Users -> Nat]] /\ friends \in [Users -> [Users -> Nat]]
  BY DEF Inv, TypeOK
<1>1. ASSUME NEW u \in Users,
             \/ Register(u) \/ Login(u) \/ Logout(u) \/ Post(u)
             \/ \E g \in Groups : CreateGroup(u, g) \/ JoinGroup(u, g)
      PROVE  Tie' = Tie
  <2>1. UNCHANGED <<inv, friends>> /\ pc = "idle" /\ pc' # "befriend"
    BY <1>1 DEF Register, Login, Logout, Post, CreateGroup, JoinGroup, Once,
                Begin, handler
  <2> QED BY <2>1, TiesStay DEF Between
<1>2. CASE \/ EnlistCreator \/ DeleteAllPosts \/ DeleteLoginRecord
           \/ DeleteJoinedGroupRecords \/ DeleteUser
  <2>1. UNCHANGED <<inv, friends>> /\ pc # "befriend" /\ pc' # "befriend"
    BY <1>2 DEF EnlistCreator, DeleteAllPosts, DeleteLoginRecord,
                DeleteJoinedGroupRecords, DeleteUser, Then, Idle
  <2> QED BY <2>1, TiesStay DEF Between
<1>3. ASSUME NEW u \in Users, NEW v \in Users, Invite(u, v)
      PROVE  Graph!Next
  <2>1. /\ UNCHANGED friends /\ pc = "idle" /\ pc' = "idle" /\ u # v
        /\ inv[u][v] = 0 /\ inv[v][u] = 0 /\ friends[u][v] = 0 /\ friends[v][u] = 0
        /\ inv' = [inv EXCEPT ![u][v] = @ + 1]
    BY <1>3 DEF Invite, Once, handler
  <2>2. inv'[u][v] = 1 /\ \A a, b \in Users : a # u \/ b # v => inv'[a][b] = inv[a][b]
    BY <2>1, <1>t, <1>y
  <2>3. /\ Between(u, v)' = "invited" /\ Between(u, v) = "none" /\ Between(v, u) = "none"
        /\ \A a, b \in Users : a # u \/ b # v => Between(a, b)' = Between(a, b)
    BY <2>1, <2>2, <1>t DEF Between
  <2>4. Graph!Ask(u, v)
    BY <2>1, <2>3, TieChanges DEF Graph!Ask
  <2> QED BY <2>4 DEF Graph!Next
<1>4. ASSUME NEW u \in Users, NEW v \in Users, AcceptInvite(u, v)
      PROVE  Tie' = Tie
  <2>1. /\ UNCHANGED friends /\ pc = "idle" /\ pc' = "befriend"
        /\ who' = u /\ arg' = v /\ inv[v][u] > 0
        /\ inv' = [inv EXCEPT ![v][u] = @ - 1]
    BY <1>4 DEF AcceptInvite, Begin
  <2>2. \A a, b \in Users : a # v \/ b # u => inv'[a][b] = inv[a][b]
    BY <2>1, <1>t, <1>y
  <2>3. Between(v, u)' = Between(v, u)
    BY <2>1 DEF Between
  <2>4. \A a, b \in Users : a # v \/ b # u => Between(a, b)' = Between(a, b)
    BY <2>1, <2>2 DEF Between
  <2> QED BY <2>3, <2>4, TiesStay
<1>5. CASE AddNewFriendship
  <2>1. /\ UNCHANGED inv /\ pc = "befriend" /\ pc' = "idle"
        /\ friends' = [friends EXCEPT ![arg][who] = @ + 1]
    BY <1>5 DEF AddNewFriendship, Idle
  <2>2. /\ who \in Users /\ arg \in Users /\ who # arg
        /\ friends[arg][who] = 0
    <3>1. who \in Users /\ arg \in Users /\ who # arg /\ Relations(who, arg) = 0
      BY <2>1 DEF Inv, StoreInv, TypeOK, HalfDone
    <3> QED BY <3>1, <1>t DEF Relations
  <2>3. /\ friends'[arg][who] = 1
        /\ \A a, b \in Users : a # arg \/ b # who => friends'[a][b] = friends[a][b]
    BY <2>1, <2>2, <1>t, <1>y
  <2>4. Between(arg, who) = "invited"
    BY <2>1, <2>2 DEF Between
  <2>5. \A a, b \in Users :
          Between(a, b)' = IF a = arg /\ b = who THEN "friends" ELSE Between(a, b)
    BY <2>1, <2>2, <2>3 DEF Between
  <2>6. PICK u \in Users, v \in Users :
          /\ u = arg /\ v = who
          /\ \A a, b \in Users :
               Between(a, b)' = IF a = u /\ b = v THEN "friends" ELSE Between(a, b)
    BY <2>2, <2>5
  <2>7. Between(u, v)' = "friends" /\ Between(u, v) = "invited"
    BY <2>4, <2>6
  <2>8. \A a, b \in Users : a # u \/ b # v => Between(a, b)' = Between(a, b)
    BY <2>6
  <2>9. Graph!Agree(u, v)
    BY <2>7, <2>8, TieChanges DEF Graph!Agree
  <2> QED BY <2>9 DEF Graph!Next
<1>6. ASSUME (\E u \in Users : Delete(u)) \/ DeleteAllFriends
      PROVE  Graph!Next
  <2>1. ASSUME NEW u \in Users, Delete(u)
        PROVE  Graph!Next
    <3>1. /\ UNCHANGED friends /\ pc # "befriend" /\ pc' # "befriend"
          /\ \A a, b \in Users : inv'[a][b] = 0 \/ inv'[a][b] = inv[a][b]
      BY <2>1 DEF Delete, Begin, Without
    <3>2. \A a, b \in Users : Between(a, b)' = Between(a, b) \/ Between(a, b)' = "none"
      BY <3>1 DEF Between
    <3> QED BY <3>2, TiesEnd
  <2>2. CASE DeleteAllFriends
    <3>1. /\ UNCHANGED inv /\ pc = "del friends" /\ pc' = "del posts"
          /\ friends' = Without(friends, who) /\ who \in Users
      BY <2>2 DEF DeleteAllFriends, Then, Inv, TypeOK
    <3>2. \A a, b \in Users :
            \/ friends'[a][b] = 0 /\ inv[a][b] = 0
            \/ friends'[a][b] = friends[a][b]
      BY <3>1 DEF Without, Inv, StoreInv, DeleteProgress
    <3>3. ASSUME NEW a \in Users, NEW b \in Users
          PROVE  Between(a, b)' = Between(a, b) \/ Between(a, b)' = "none"
      <4>1. CASE friends'[a][b] = friends[a][b]
        BY <4>1, <3>1 DEF Between
      <4>2. CASE friends'[a][b] = 0 /\ inv[a][b] = 0
        <5>1. friends'[a][b] = 0 /\ inv'[a][b] = 0 /\ pc' = "del posts"
          BY <4>2, <3>1
        <5>0. ~(0 > 0)
          OBVIOUS
        <5>2. ~(friends'[a][b] > 0) /\ ~(inv'[a][b] > 0)
          BY <5>1, <5>0, Zenon
        <5> QED BY <5>1, <5>2 DEF Between
      <4> QED BY <4>1, <4>2, <3>2
    <3> QED BY <3>3, TiesEnd
  <2> QED BY <1>6, <2>1, <2>2
<1>7. ASSUME Crash PROVE Graph!Next
  <2>1. UNCHANGED <<inv, friends>> /\ pc' = "idle"
    BY <1>7 DEF Crash, Idle, store
  <2>2. \A a, b \in Users : Between(a, b)' = Between(a, b) \/ Between(a, b)' = "none"
    BY <2>1 DEF Between
  <2> QED BY <2>2, TiesEnd
<1>8. CASE UNCHANGED vars
  BY <1>8, TiesStay DEF Between, vars, store, handler
<1> QED
  BY <1>1, <1>2, <1>3, <1>4, <1>5, <1>6, <1>7, <1>8 DEF Next, Request, LaterWrite

\* The server implements the social graph: whatever requests and crashes come,
\* a friendship only comes out of an invitation, and a pair has one tie.
THEOREM ServerImplementsGraph == Spec => GraphSpec
<1>1. Spec => []Inv
  BY StoreInvariant DEF Inv
<1> QED
  BY <1>1, GraphInit, GraphStep, PTL DEF Spec, GraphSpec, Graph!Spec

----------------------------------------------------------------------------
(* The server of Project_3 *)

\* Between requests no user is named: the handler's variables are reset.
Resting == pc = "idle" => who = NoOne /\ arg = NoOne

LEMMA AlwaysResting == Spec => []Resting
<1>1. Init => Resting
  BY DEF Init, Resting
<1>2. Resting /\ [Next]_vars => Resting'
  <2> SUFFICES ASSUME Resting, [Next]_vars PROVE Resting'
    OBVIOUS
  <2>1. CASE Request
    BY <2>1 DEF Request, Register, Login, Logout, Post, Delete, Invite, AcceptInvite,
       CreateGroup, JoinGroup, Begin, Once, handler, Resting
  <2>2. CASE LaterWrite
    BY <2>2 DEF LaterWrite, AddNewFriendship, EnlistCreator, DeleteAllFriends,
       DeleteAllPosts, DeleteLoginRecord, DeleteJoinedGroupRecords, DeleteUser,
       Then, Idle, Resting
  <2>3. CASE Crash \/ UNCHANGED vars
    BY <2>3 DEF Crash, Idle, vars, handler, Resting
  <2> QED
    BY <2>1, <2>2, <2>3 DEF Next
<1> QED
  BY <1>1, <1>2, PTL DEF Spec

\* Each handler of Project_4 that Project_3 has too makes the same writes in
\* the same order; what concerns groups changes nothing Project_3 keeps.
LEMMA OldRequestStep ==
  ASSUME TypeOK, Resting, Request
  PROVE  [Old!Next]_(Old!vars)
<1>1. ASSUME NEW u \in Users, Register(u) \/ Login(u) \/ Logout(u) \/ Post(u) \/ Delete(u)
      PROVE  Old!Register(u) \/ Old!Login(u) \/ Old!Logout(u) \/ Old!Post(u) \/ Old!Delete(u)
  BY <1>1 DEF Register, Login, Logout, Post, Delete, Begin, Once, handler, Without,
     Old!Register, Old!Login, Old!Logout, Old!Post, Old!Delete, Old!CheckLogin,
     Old!Without, Old!handler
<1>2. ASSUME NEW u \in Users, NEW v \in Users, AcceptInvite(u, v)
      PROVE  Old!AcceptInvite(u, v)
  BY <1>2 DEF AcceptInvite, Begin, Old!AcceptInvite, Old!CheckLogin
<1>3. ASSUME NEW u \in Users, NEW v \in Users, Invite(u, v)
      PROVE  Old!Invite(u, v)
  BY <1>3 DEF TypeOK, Invite, Once, handler, Old!Invite, Old!CheckLogin,
     Old!CheckFriendshipExists, Old!handler
<1>4. ASSUME NEW u \in Users, NEW g \in Groups, CreateGroup(u, g) \/ JoinGroup(u, g)
      PROVE  UNCHANGED Old!vars
  BY <1>4 DEF CreateGroup, JoinGroup, Begin, Once, handler, Resting, Old!vars, Old!handler
<1> QED
  BY <1>1, <1>2, <1>3, <1>4 DEF Request, Old!Next

\* Each later write is the same write there, or one about groups.
LEMMA OldLaterWriteStep ==
  ASSUME LaterWrite
  PROVE  [Old!Next]_(Old!vars)
<1>1. CASE AddNewFriendship
  BY <1>1 DEF AddNewFriendship, Idle, Old!AddNewFriendship, Old!Idle, Old!Next
<1>2. CASE DeleteAllFriends
  BY <1>2 DEF DeleteAllFriends, Then, Without, Old!DeleteAllFriends, Old!Then,
     Old!Without, Old!Next
<1>3. CASE DeleteAllPosts
  BY <1>3 DEF DeleteAllPosts, Then, Old!DeleteAllPosts, Old!Then, Old!Next
<1>4. CASE DeleteLoginRecord
  BY <1>4 DEF DeleteLoginRecord, Then, Old!DeleteLoginRecordByToken, Old!Then, Old!Next
<1>5. CASE DeleteUser
  BY <1>5 DEF DeleteUser, Idle, Old!DeleteUser, Old!Idle, Old!Next
<1>6. CASE EnlistCreator \/ DeleteJoinedGroupRecords
  BY <1>6 DEF EnlistCreator, DeleteJoinedGroupRecords, Idle, Then, Old!vars, Old!handler
<1> QED
  BY <1>1, <1>2, <1>3, <1>4, <1>5, <1>6 DEF LaterWrite

\* Project_4's server does to users, logins, invitations, friendships and posts
\* what Project_3's server could do, also when it crashes between two writes:
\* the extension by groups has changed no handler.
THEOREM ServerImplementsOldServer == Spec => OldSpec
<1>1. Init => Old!Init
  BY DEF Init, Old!Init
<1>2. ASSUME TypeOK, Resting, [Next]_vars
      PROVE  [Old!Next]_(Old!vars)
  <2>1. CASE Crash
    BY <2>1 DEF Crash, Idle, store, Old!Crash, Old!Idle, Old!Next, Old!vars, Old!handler
  <2>2. CASE UNCHANGED vars
    BY <2>2 DEF vars, store, handler, Old!vars, Old!handler
  <2> QED
    BY <1>2, <2>1, <2>2, OldRequestStep, OldLaterWriteStep DEF Next
<1> QED
  BY <1>1, <1>2, StoreInvariant, AlwaysResting, PTL DEF Spec, OldSpec, Old!Spec
=============================================================================
