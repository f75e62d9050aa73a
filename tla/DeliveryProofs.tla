---------------------------- MODULE DeliveryProofs ----------------------------
(***************************************************************************)
(* Proofs about Delivery, for any users, groups, clients, servers and       *)
(* workloads: until a subscription has failed or a user has been in two     *)
(* clients at once, only a terminate command ends a server's AMQP thread;   *)
(* and a user who has not been in two clients is printed the messages of    *)
(* each server in their order.                                              *)
(***************************************************************************)
EXTENDS Delivery, SequenceTheorems, FiniteSetTheorems, TLAPS

Places == {"off", "starting", "on", "printing", "unbind"}

Message == [from : Users, to : Users \cup Groups, via : Servers \cup {NoServer}]
Kinds == {"none", "start", "subscribe", "stop", "exit"}
Duty == [kind : Kinds, who : Users \cup {NoOne}, arg : Groups \cup {NoOne}]

\* The types of the variables.
TypedServers ==
  /\ logins \subseteq Users /\ home \in [Users -> Servers \cup {NoServer}]
  /\ member \in [Users -> SUBSET Groups]
  /\ sent \in Seq(Message)
  /\ tasks \in [Servers -> Seq(Nat)] /\ amqp \in [Servers -> {"on", "dead"}]
  /\ exchange \subseteq Groups /\ bound \subseteq Users /\ queue \in [Users -> Seq(Nat)]
TypedClients ==
  /\ live \in [Clients -> SUBSET Users]
  /\ todo \in [Clients -> Duty]
  /\ place \in [Clients -> [Users -> Places]]
  /\ subs \in [Clients -> [Users -> SUBSET Groups]]
  /\ inbox \in [Clients -> [Users -> Seq(Nat)]]
  /\ cur \in [Clients -> [Users -> Nat]] /\ got \in [Users -> Seq(Nat)]
  /\ shared \subseteq Users /\ skipped \in BOOLEAN /\ load \in Workloads
Typed == TypedServers /\ TypedClients

----------------------------------------------------------------------------
(* The servers' AMQP threads *)

\* What a client's main thread and its AMQP threads know of each other.
Known(c) ==
  /\ \A u \in Users :
       /\ u \in live[c] => place[c][u] # "off"
       /\ place[c][u] = "starting" =>
            todo[c] = [kind |-> "start", who |-> u, arg |-> NoOne]
       /\ place[c][u] = "unbind" => todo[c].kind \in {"stop", "exit"} /\ todo[c].who = u
  /\ todo[c].kind \in {"start", "subscribe", "stop"} => todo[c].who \in Users
  /\ todo[c].kind = "subscribe" => todo[c].arg \in Groups
  /\ todo[c].kind = "stop" => todo[c].who \notin live[c]
  /\ todo[c].kind = "exit" => live[c] = {}
ThreadsKnown == \A c \in Clients : Known(c)

\* Two clients have threads for one user only when this has been noted.
OneClient ==
  \A u \in Users \ shared : \A c, d \in Clients :
    place[c][u] # "off" /\ place[d][u] # "off" => c = d

\* Until something goes wrong a thread has declared the exchanges of its user's
\* groups or is about to, and so the exchange of every message is there.
GroupsKnown(c, u) ==
  \A g \in member[u] :
    /\ place[c][u] = "starting" => g \in subs[c][u]
    /\ place[c][u] \notin {"off", "starting"} =>
         g \in exchange \/ todo[c] = [kind |-> "subscribe", who |-> u, arg |-> g]
Fine == shared = {} /\ ~skipped
Declared ==
  Fine => /\ \A c \in Clients, u \in Users : GroupsKnown(c, u)
          /\ \A i \in DOMAIN sent : sent[i].to \in Users \cup exchange
          /\ \A s \in Servers \ terminated : amqp[s] = "on"

----------------------------------------------------------------------------
(* The order of the messages *)

\* Messages i and j of the history m go over different servers or in this order.
Before(m, i, j) == m[i].via = m[j].via => i < j
AllBefore(m, S, T) == \A i \in S, j \in T : Before(m, i, j)
InOrder(m, ids) == \A i, j \in DOMAIN ids : i < j => Before(m, ids[i], ids[j])

\* A server's queue is in the order of the answers.
TasksInOrder ==
  \A s \in Servers :
    /\ ToSet(tasks[s]) \subseteq DOMAIN sent /\ InOrder(sent, tasks[s])
    /\ \A x \in ToSet(tasks[s]) : sent[x].via = s

\* Only a thread that consumes has messages, and then none is left in the queue.
Waiting ==
  \A u \in Users :
    /\ \A c \in Clients : c \notin Consumers(u) => inbox[c][u] = <<>>
    /\ Consumers(u) # {} => queue[u] = <<>>

\* What has come to u, from the oldest: printed, in a thread's hand, delivered,
\* or queued; all of it before what the servers have yet to publish.
InHand(c, u) == IF place[c][u] = "printing" THEN {cur[c][u]} ELSE {}
Held(c, u) == InHand(c, u) \cup ToSet(inbox[c][u])
Out(S) ==
  S \subseteq DOMAIN sent /\ \A s \in Servers : AllBefore(sent, S, ToSet(tasks[s]))
Flow(u) ==
  /\ InOrder(sent, got[u]) /\ Out(ToSet(got[u]))
  /\ InOrder(sent, queue[u]) /\ Out(ToSet(queue[u]))
  /\ AllBefore(sent, ToSet(got[u]), ToSet(queue[u]))
  /\ \A c \in Clients :
       /\ InOrder(sent, inbox[c][u]) /\ Out(Held(c, u))
       /\ AllBefore(sent, ToSet(got[u]), Held(c, u))
       /\ AllBefore(sent, InHand(c, u), ToSet(inbox[c][u]))
FlowInv == \A u \in Users \ shared : Flow(u)

DeliveryInv ==
  /\ Typed /\ ThreadsKnown /\ OneClient /\ Declared
  /\ TasksInOrder /\ Waiting /\ FlowInv

----------------------------------------------------------------------------
(* What the operations on sequences of messages do to their order *)

\* Taking the first message.
LEMMA TailInOrder ==
  ASSUME NEW m, NEW s \in Seq(Nat), s # <<>>
  PROVE  /\ Head(s) \in ToSet(s) /\ Head(s) \in Nat
         /\ Tail(s) \in Seq(Nat) /\ ToSet(Tail(s)) \subseteq ToSet(s)
         /\ ToSet(s) = {Head(s)} \cup ToSet(Tail(s))
         /\ InOrder(m, s) => /\ InOrder(m, Tail(s))
                             /\ AllBefore(m, {Head(s)}, ToSet(Tail(s)))
<1> DEFINE t == Tail(s)
<1>1. Len(s) \in Nat \ {0} /\ DOMAIN s = 1..Len(s) /\ Head(s) = s[1]
  BY EmptySeq, LenProperties
<1>2. /\ t \in Seq(Nat) /\ Len(t) = Len(s) - 1
      /\ \A i \in 1..Len(t) : t[i] = s[i + 1]
  BY HeadTailProperties
<1>3. DOMAIN t = 1..(Len(s) - 1)
  BY <1>2, LenProperties
<1>4. Head(s) \in Nat
  BY <1>1, ElementOfSeq
<1> HIDE DEF t
<1>5. ToSet(s) = {Head(s)} \cup ToSet(t)
  <2>1. ASSUME NEW i \in DOMAIN s PROVE s[i] \in {Head(s)} \cup ToSet(t)
    <3>1. CASE i = 1
      BY <3>1, <1>1
    <3>2. CASE i # 1
      <4>1. i - 1 \in 1..(Len(s) - 1) /\ (i - 1) + 1 = i
        BY <3>2, <1>1
      <4>2. t[i - 1] = s[i]
        BY <4>1, <1>2
      <4> QED
        BY <4>1, <4>2, <1>3 DEF ToSet
    <3> QED
      BY <3>1, <3>2
  <2>2. ASSUME NEW i \in DOMAIN t PROVE t[i] \in ToSet(s)
    <3>1. i + 1 \in DOMAIN s /\ t[i] = s[i + 1]
      BY <1>1, <1>2, <1>3
    <3> QED
      BY <3>1 DEF ToSet
  <2>3. Head(s) \in ToSet(s)
    BY <1>1 DEF ToSet
  <2> QED
    BY <2>1, <2>2, <2>3 DEF ToSet
<1>6. ASSUME InOrder(m, s)
      PROVE  InOrder(m, t) /\ AllBefore(m, {Head(s)}, ToSet(t))
  <2>1. ASSUME NEW i \in DOMAIN t PROVE i + 1 \in DOMAIN s /\ t[i] = s[i + 1]
    BY <1>1, <1>2, <1>3
  <2>2. ASSUME NEW i \in DOMAIN t, NEW j \in DOMAIN t, i < j
        PROVE  Before(m, t[i], t[j])
    <3>1. i + 1 < j + 1
      BY <2>2, <1>3
    <3> QED
      BY <2>1, <3>1, <1>6 DEF InOrder
  <2>3. ASSUME NEW j \in DOMAIN t PROVE Before(m, Head(s), t[j])
    <3>1. 1 \in DOMAIN s /\ 1 < j + 1
      BY <1>1, <1>3
    <3> QED
      BY <2>1, <3>1, <1>1, <1>6 DEF InOrder
  <2> QED
    BY <2>2, <2>3 DEF InOrder, AllBefore, ToSet
<1> QED
  BY <1>2, <1>4, <1>5, <1>6 DEF t

\* Putting one sequence behind another.
LEMMA ConcatInOrder ==
  ASSUME NEW m, NEW s \in Seq(Nat), NEW t \in Seq(Nat)
  PROVE  /\ s \o t \in Seq(Nat) /\ ToSet(s \o t) = ToSet(s) \cup ToSet(t)
         /\ InOrder(m, s) /\ InOrder(m, t) /\ AllBefore(m, ToSet(s), ToSet(t)) =>
              InOrder(m, s \o t)
<1> DEFINE r == s \o t
<1>1. /\ Len(s) \in Nat /\ DOMAIN s = 1..Len(s)
      /\ Len(t) \in Nat /\ DOMAIN t = 1..Len(t)
  BY LenProperties
<1>2. /\ r \in Seq(Nat) /\ Len(r) = Len(s) + Len(t)
      /\ \A i \in 1..(Len(s) + Len(t)) :
           r[i] = IF i <= Len(s) THEN s[i] ELSE t[i - Len(s)]
  BY ConcatProperties
<1>3. DOMAIN r = 1..(Len(s) + Len(t))
  BY <1>2, LenProperties
<1> HIDE DEF r
<1>4. ASSUME NEW i \in DOMAIN r
      PROVE  \/ i \in DOMAIN s /\ r[i] = s[i]
             \/ i > Len(s) /\ i - Len(s) \in DOMAIN t /\ r[i] = t[i - Len(s)]
  BY <1>1, <1>2, <1>3
<1>5. ToSet(r) = ToSet(s) \cup ToSet(t)
  <2>1. ToSet(r) \subseteq ToSet(s) \cup ToSet(t)
    BY <1>4 DEF ToSet
  <2>2. ASSUME NEW i \in DOMAIN s PROVE i \in DOMAIN r /\ r[i] = s[i]
    BY <1>1, <1>2, <1>3
  <2>3. ASSUME NEW i \in DOMAIN t
        PROVE  i + Len(s) \in DOMAIN r /\ r[i + Len(s)] = t[i]
    <3>1. i + Len(s) \in 1..(Len(s) + Len(t)) /\ (i + Len(s)) - Len(s) = i
          /\ ~(i + Len(s) <= Len(s))
      BY <1>1
    <3> QED
      BY <3>1, <1>2, <1>3
  <2>4. ToSet(s) \subseteq ToSet(r)
    BY <2>2 DEF ToSet
  <2>5. ToSet(t) \subseteq ToSet(r)
    BY <2>3 DEF ToSet
  <2> QED
    BY <2>1, <2>4, <2>5
<1>6. ASSUME InOrder(m, s), InOrder(m, t), AllBefore(m, ToSet(s), ToSet(t))
      PROVE  InOrder(m, r)
  <2> SUFFICES ASSUME NEW i \in DOMAIN r, NEW j \in DOMAIN r, i < j
               PROVE  Before(m, r[i], r[j])
    BY DEF InOrder
  <2>1. CASE i \in DOMAIN s /\ r[i] = s[i] /\ j \in DOMAIN s /\ r[j] = s[j]
    BY <2>1, <1>6 DEF InOrder
  <2>2. CASE /\ i \in DOMAIN s /\ r[i] = s[i]
             /\ j - Len(s) \in DOMAIN t /\ r[j] = t[j - Len(s)]
    BY <2>2, <1>6 DEF AllBefore, ToSet
  <2>3. CASE /\ i > Len(s) /\ i - Len(s) \in DOMAIN t /\ r[i] = t[i - Len(s)]
             /\ j - Len(s) \in DOMAIN t /\ r[j] = t[j - Len(s)]
    <3>1. i - Len(s) < j - Len(s)
      BY <1>1, <1>3
    <3> QED
      BY <2>3, <3>1, <1>6 DEF InOrder
  <2>4. i > Len(s) => ~(j \in DOMAIN s)
    BY <1>1, <1>3
  <2> QED
    BY <1>4, <2>1, <2>2, <2>3, <2>4
<1> QED
  BY <1>2, <1>5, <1>6 DEF r

\* One message behind the others.
LEMMA AppendInOrder ==
  ASSUME NEW m, NEW s \in Seq(Nat), NEW x \in Nat
  PROVE  /\ Append(s, x) \in Seq(Nat) /\ ToSet(Append(s, x)) = ToSet(s) \cup {x}
         /\ Append(s, x) = s \o <<x>>
         /\ InOrder(m, s) /\ AllBefore(m, ToSet(s), {x}) => InOrder(m, Append(s, x))
<1>1. Append(s, x) = s \o <<x>>
  BY AppendIsConcat
<1>2. <<x>> \in Seq(Nat) /\ DOMAIN <<x>> = {1} /\ <<x>>[1] = x
  OBVIOUS
<1>3. ToSet(<<x>>) = {x} /\ InOrder(m, <<x>>)
  BY <1>2 DEF ToSet, InOrder
<1>4. /\ s \o <<x>> \in Seq(Nat) /\ ToSet(s \o <<x>>) = ToSet(s) \cup {x}
      /\ InOrder(m, s) /\ AllBefore(m, ToSet(s), {x}) => InOrder(m, s \o <<x>>)
  <2> DEFINE t == <<x>>
  <2>1. t \in Seq(Nat) /\ ToSet(t) = {x} /\ InOrder(m, t)
    BY <1>2, <1>3
  <2> HIDE DEF t
  <2>2. /\ s \o t \in Seq(Nat) /\ ToSet(s \o t) = ToSet(s) \cup {x}
        /\ InOrder(m, s) /\ AllBefore(m, ToSet(s), {x}) => InOrder(m, s \o t)
    BY <2>1, ConcatInOrder
  <2> QED
    BY <2>2 DEF t
<1> QED
  BY <1>1, <1>4

\* What never came is in any order.
LEMMA NothingInOrder ==
  ASSUME NEW m
  PROVE  InOrder(m, <<>>) /\ ToSet(<<>>) = {} /\ <<>> \in Seq(Nat)
         /\ \A s \in Seq(Nat) : s \o <<>> = s /\ <<>> \o s = s
<1>1. DOMAIN <<>> = {}
  OBVIOUS
<1>2. InOrder(m, <<>>) /\ ToSet(<<>>) = {}
  BY <1>1 DEF InOrder, ToSet
<1>3. \A s \in Seq(Nat) : s \o <<>> = s /\ <<>> \o s = s
  BY ConcatEmptySeq
<1> QED
  BY <1>2, <1>3

\* The ranks in a finite set of naturals are the numbers up to its size, and
\* grow with the elements.
LEMMA RanksGrow ==
  ASSUME NEW S, S \subseteq Nat, IsFiniteSet(S)
  PROVE  /\ Cardinality(S) \in Nat
         /\ \A i, j \in S : i < j =>
              Cardinality({k \in S : k <= i}) < Cardinality({k \in S : k <= j})
         /\ \A r \in 1..Cardinality(S) : \E i \in S : Cardinality({k \in S : k <= i}) = r
<1> DEFINE Upto(i) == {k \in S : k <= i}
           rank(i) == Cardinality(Upto(i))
           C == Cardinality(S)
           f == [i \in S |-> rank(i)]
<1>1. C \in Nat
  BY FS_CardinalityType
<1>2. \A i \in S : IsFiniteSet(Upto(i)) /\ rank(i) \in Nat /\ rank(i) <= C
  <2> TAKE i \in S
  <2>1. Upto(i) \in SUBSET S
    OBVIOUS
  <2>2. IsFiniteSet(Upto(i)) /\ rank(i) <= C
    BY <2>1, FS_Subset
  <2> QED BY <2>2, FS_CardinalityType
<1>3. \A i \in S : rank(i) \in 1..C
  <2> TAKE i \in S
  <2>1. i \in Upto(i)
    OBVIOUS
  <2>2. rank(i) # 0
    BY <2>1, <1>2, FS_EmptySet
  <2> QED BY <2>2, <1>1, <1>2
<1>4. \A i, j \in S : i < j => rank(i) < rank(j)
  <2> SUFFICES ASSUME NEW i \in S, NEW j \in S, i < j PROVE rank(i) < rank(j)
    OBVIOUS
  <2>1. Upto(i) \in SUBSET Upto(j) /\ j \in Upto(j) /\ j \notin Upto(i)
    <3>1. i \in Nat /\ j \in Nat /\ j <= j /\ ~(j <= i)
      OBVIOUS
    <3>2. \A k \in S : k <= i => k <= j
      BY <3>1
    <3> QED
      BY <3>1, <3>2
  <2>2. rank(i) <= rank(j)
    BY <2>1, <1>2, FS_Subset
  <2>3. rank(i) # rank(j)
    BY <2>1, <1>2, FS_Subset
  <2> QED
    BY <2>2, <2>3, <1>2
<1> HIDE DEF rank
<1>5. f \in Injection(S, 1..C)
  <2>1. f \in [S -> 1..C]
    BY <1>3
  <2>2. ASSUME NEW i \in S, NEW j \in S, f[i] = f[j] PROVE i = j
    <3>1. rank(i) = rank(j) /\ rank(i) \in Nat
      BY <2>2, <1>3
    <3>2. ~(i < j) /\ ~(j < i)
      BY <3>1, <1>4
    <3> QED BY <3>2
  <2> QED BY <2>1, <2>2 DEF Injection, IsInjective
<1>6. IsFiniteSet(1..C) /\ Cardinality(1..C) = C
  BY <1>1, FS_Interval
<1>7. f \in Surjection(S, 1..C)
  BY <1>5, <1>6, FS_Injection
<1>8. \A r \in 1..C : \E i \in S : rank(i) = r
  BY <1>7 DEF Surjection
<1> QED
  BY <1>1, <1>4, <1>8 DEF rank

\* Of the messages a consumer gives back, those of the personal queue keep
\* their order.
LEMMA PrivateInOrder ==
  ASSUME NEW ids \in Seq(Nat)
  PROVE  /\ Private(ids) \in Seq(Nat) /\ ToSet(Private(ids)) \subseteq ToSet(ids)
         /\ InOrder(sent, ids) => InOrder(sent, Private(ids))
         /\ ids = <<>> => Private(ids) = <<>>
<1> DEFINE mine == {i \in DOMAIN ids : sent[ids[i]].to \in Users}
           rank(i) == Cardinality({j \in mine : j <= i})
           C == Cardinality(mine)
           pos(k) == CHOOSE i \in mine : rank(i) = k
           back == [k \in 1..C |-> ids[pos(k)]]
<1>1. Private(ids) = back
  BY DEF Private
<1>2. Len(ids) \in Nat /\ DOMAIN ids = 1..Len(ids)
  BY LenProperties
<1>3. IsFiniteSet(mine) /\ mine \subseteq Nat /\ mine \subseteq DOMAIN ids
  <2>1. IsFiniteSet(1..Len(ids))
    BY <1>2, FS_Interval
  <2>2. mine \in SUBSET (1..Len(ids))
    BY <1>2
  <2> QED
    BY <2>1, <2>2, <1>2, FS_Subset
<1> HIDE DEF mine
<1>4. /\ C \in Nat
      /\ \A i, j \in mine : i < j => rank(i) < rank(j)
      /\ \A r \in 1..C : \E i \in mine : rank(i) = r
  BY <1>3, RanksGrow
<1> HIDE DEF rank, C
<1>5. \A k \in 1..C : pos(k) \in mine /\ rank(pos(k)) = k
  BY <1>4
<1> HIDE DEF pos
<1>6. \A k \in 1..C : pos(k) \in DOMAIN ids /\ ids[pos(k)] \in Nat
  BY <1>2, <1>3, <1>5, ElementOfSeq
<1>7. back \in Seq(Nat) /\ DOMAIN back = 1..C
  BY <1>4, <1>6
<1>8. ToSet(back) \subseteq ToSet(ids)
  BY <1>6 DEF ToSet
<1>9. ASSUME NEW j \in 1..C, NEW k \in 1..C, j < k PROVE pos(j) < pos(k)
  <2>1. pos(j) \in Nat /\ pos(k) \in Nat
    BY <1>3, <1>5
  <2>2. pos(j) # pos(k)
    BY <1>5, <1>9
  <2>3. ~(pos(k) < pos(j))
    <3>1. pos(k) < pos(j) => k < j
      BY <1>4, <1>5
    <3> QED
      BY <3>1, <1>9, <1>4
  <2> QED
    BY <2>1, <2>2, <2>3
<1>10. InOrder(sent, ids) => InOrder(sent, back)
  <2> SUFFICES ASSUME InOrder(sent, ids), NEW j \in 1..C, NEW k \in 1..C, j < k
               PROVE  Before(sent, back[j], back[k])
    BY <1>7 DEF InOrder
  <2> QED
    BY <1>6, <1>9 DEF InOrder
<1>11. ids = <<>> => back = <<>>
  <2> SUFFICES ASSUME ids = <<>> PROVE back = <<>>
    OBVIOUS
  <2>1. DOMAIN ids = {}
    OBVIOUS
  <2>2. mine = {}
    BY <2>1, <1>3
  <2>3. C = 0
    BY <2>2, FS_EmptySet DEF C
  <2>4. 1..C = {}
    BY <2>3
  <2>5. Len(back) = 0
    BY <2>3, <1>7, LenProperties
  <2> QED
    BY <2>5, <1>7, EmptySeq
<1> QED
  BY <1>1, <1>7, <1>8, <1>10, <1>11

----------------------------------------------------------------------------
(* Types *)

\* What Do and Done make of a client's duty.
LEMMA DoTyped ==
  ASSUME todo \in [Clients -> Duty], NEW c \in Clients, NEW kind \in Kinds,
         NEW u \in Users \cup {NoOne}, NEW g \in Groups \cup {NoOne}, Do(c, kind, u, g)
  PROVE  /\ todo' \in [Clients -> Duty]
         /\ todo'[c] = [kind |-> kind, who |-> u, arg |-> g]
         /\ \A d \in Clients : d # c => todo'[d] = todo[d]
<1> DEFINE duty == [kind |-> kind, who |-> u, arg |-> g]
<1>1. duty \in Duty
  BY DEF Duty
<1>2. todo' = [todo EXCEPT ![c] = duty]
  BY DEF Do
<1> HIDE DEF duty, Duty
<1>3. todo' \in [Clients -> Duty] /\ todo'[c] = duty
      /\ \A d \in Clients : d # c => todo'[d] = todo[d]
  BY <1>1, <1>2
<1> QED
  BY <1>3 DEF duty

LEMMA DoneTyped ==
  ASSUME todo \in [Clients -> Duty], NEW c \in Clients, Done(c)
  PROVE  /\ todo' \in [Clients -> Duty] /\ todo'[c] = Nothing
         /\ \A d \in Clients : d # c => todo'[d] = todo[d]
<1>1. Do(c, "none", NoOne, NoOne)
  BY DEF Do, Done, Nothing
<1>2. "none" \in Kinds /\ NoOne \in Users \cup {NoOne} /\ NoOne \in Groups \cup {NoOne}
  BY DEF Kinds
<1>3. /\ todo' \in [Clients -> Duty]
      /\ todo'[c] = [kind |-> "none", who |-> NoOne, arg |-> NoOne]
      /\ \A d \in Clients : d # c => todo'[d] = todo[d]
  BY <1>1, <1>2, DoTyped, Zenon
<1> QED
  BY <1>3 DEF Nothing

\* The kinds of duty are told apart, and none of them is nobody's.
LEMMA NothingKind ==
  Nothing.kind = "none" /\ Nothing.who = NoOne /\ Nothing.arg = NoOne
BY DEF Nothing

LEMMA LoginTyped ==
  ASSUME Typed, NEW c \in Clients, NEW u \in Users, Login(c, u)
  PROVE  Typed'
<1>1. /\ logins' \subseteq Users /\ UNCHANGED <<member, server, broker, sent, got, skipped, load>>
  BY DEF Login, Typed, TypedServers
<1>2. home' \in [Users -> Servers \cup {NoServer}]
  <2>1. load.servers \subseteq Servers
    BY DeliveryAssumption DEF Typed, TypedClients
  <2> QED
    BY <2>1 DEF Login, Typed, TypedServers
<1>3. live' \in [Clients -> SUBSET Users]
  BY DEF Login, Typed, TypedClients
<1>4. /\ todo' \in [Clients -> Duty] /\ place' \in [Clients -> [Users -> Places]]
      /\ subs' \in [Clients -> [Users -> SUBSET Groups]] /\ shared' \subseteq Users
      /\ UNCHANGED <<inbox, cur>>
  <2>1. CASE place[c][u] # "off"
    BY <2>1 DEF Login, Typed, TypedClients, thread
  <2>2. CASE place[c][u] = "off"
    <3>1. Do(c, "start", u, NoOne)
      BY <2>2 DEF Login
    <3>2. todo' \in [Clients -> Duty]
      <4> HIDE DEF Duty
      <4>1. /\ todo \in [Clients -> Duty] /\ "start" \in Kinds
            /\ u \in Users \cup {NoOne} /\ NoOne \in Groups \cup {NoOne}
        BY DEF Typed, TypedClients, Kinds
      <4> QED
        BY <4>1, <3>1, DoTyped, Zenon
    <3>3. /\ place' = [place EXCEPT ![c][u] = "starting"]
          /\ subs' = [subs EXCEPT ![c][u] = member[u]]
          /\ shared' = shared \cup {w \in {u} : \E d \in Clients : place[d][u] # "off"}
          /\ UNCHANGED <<inbox, cur>>
      BY <2>2 DEF Login
    <3> QED
      BY <3>2, <3>3 DEF Typed, TypedServers, TypedClients, Places
  <2> QED
    BY <2>1, <2>2
<1> QED
  BY <1>1, <1>2, <1>3, <1>4
     DEF Typed, TypedServers, TypedClients, server, broker

\* Logout, Exit, ExitNext, the subscriptions to a group: the client's duty and
\* its tokens.
LEMMA LogoutTyped ==
  ASSUME Typed, NEW c \in Clients, NEW u \in Users, Logout(c, u)
  PROVE  Typed'
<1>1. todo' \in [Clients -> Duty]
  <2>1. Do(c, "stop", u, NoOne) /\ todo \in [Clients -> Duty]
    BY DEF Logout, Typed, TypedClients
  <2>2. "stop" \in Kinds /\ u \in Users \cup {NoOne} /\ NoOne \in Groups \cup {NoOne}
    BY DEF Kinds
  <2> QED
    BY <2>1, <2>2, DoTyped, Zenon
<1>2. live' \in [Clients -> SUBSET Users]
  BY DEF Logout, Typed, TypedClients
<1>3. logins' \subseteq Users /\ home' \in [Users -> Servers \cup {NoServer}]
  BY DEF Logout, Typed, TypedServers
<1>4. UNCHANGED <<member, server, broker, thread, history>>
  BY DEF Logout
<1> QED
  BY <1>1, <1>2, <1>3, <1>4
     DEF Typed, TypedServers, TypedClients, server, broker, thread, history

LEMMA JoinGroupTyped ==
  ASSUME Typed, NEW c \in Clients, NEW u \in Users, NEW g \in Groups, JoinGroup(c, u, g)
  PROVE  Typed'
<1>1. todo' \in [Clients -> Duty]
  <2>1. Do(c, "subscribe", u, g) /\ todo \in [Clients -> Duty]
    BY DEF JoinGroup, Typed, TypedClients
  <2>2. "subscribe" \in Kinds /\ u \in Users \cup {NoOne} /\ g \in Groups \cup {NoOne}
    BY DEF Kinds
  <2> QED
    BY <2>1, <2>2, DoTyped, Zenon
<1>2. member' \in [Users -> SUBSET Groups]
  BY DEF JoinGroup, Typed, TypedServers
<1>3. UNCHANGED <<logins, home, server, broker, live, thread, history>>
  BY DEF JoinGroup
<1> QED
  BY <1>1, <1>2, <1>3
     DEF Typed, TypedServers, TypedClients, server, broker, thread, history

LEMMA PutTaskTyped ==
  ASSUME Typed, NEW c \in Clients, NEW kind, NEW u \in Users,
         NEW x \in Users \cup Groups, PutTask(c, kind, u, x)
  PROVE  Typed'
<1>1. /\ sent' = Append(sent, [from |-> u, to |-> x, via |-> home[u]])
      /\ tasks' = [tasks EXCEPT ![home[u]] = Append(@, Len(sent) + 1)]
      /\ UNCHANGED <<store, amqp, terminated, broker, live, todo, thread, got, shared,
                     skipped, load>>
  BY DEF PutTask
<1> DEFINE message == [from |-> u, to |-> x, via |-> home[u]]
<1>2. message \in Message
  BY DEF Typed, TypedServers, Message
<1>3. Len(sent) \in Nat
  BY LenProperties DEF Typed, TypedServers
<1> HIDE DEF message
<1>4. sent' \in Seq(Message)
  BY <1>1, <1>2, AppendProperties DEF Typed, TypedServers, message
<1>5. tasks' \in [Servers -> Seq(Nat)]
  <2>1. \A s \in Servers : Append(tasks[s], Len(sent) + 1) \in Seq(Nat)
    BY <1>3, AppendProperties DEF Typed, TypedServers
  <2> QED
    BY <1>1, <2>1 DEF Typed, TypedServers
<1> QED
  BY <1>1, <1>4, <1>5 DEF Typed, TypedServers, TypedClients, store, broker, thread

LEMMA SubscribeGroupTyped ==
  ASSUME Typed, ThreadsKnown, NEW c \in Clients, SubscribeGroup(c)
  PROVE  Typed'
<1>1. todo' \in [Clients -> Duty]
  BY DoneTyped, Zenon DEF SubscribeGroup, Typed, TypedClients
<1>2. todo[c].who \in Users /\ todo[c].arg \in Groups
  BY DEF SubscribeGroup, ThreadsKnown, Known
<1>3. exchange' \subseteq Groups
  BY <1>2 DEF SubscribeGroup, Typed, TypedServers
<1>4. subs' \in [Clients -> [Users -> SUBSET Groups]]
  BY <1>2 DEF SubscribeGroup, Typed, TypedClients
<1>5. UNCHANGED <<store, server, bound, queue, live, place, inbox, cur, history>>
  BY DEF SubscribeGroup
<1> QED
  BY <1>1, <1>3, <1>4, <1>5
     DEF Typed, TypedServers, TypedClients, store, server, history

LEMMA SubscribeFailsTyped ==
  ASSUME Typed, NEW c \in Clients, SubscribeFails(c)
  PROVE  Typed'
<1>1. todo' \in [Clients -> Duty]
  BY DoneTyped, Zenon DEF SubscribeFails, Typed, TypedClients
<1>2. skipped' = TRUE /\ UNCHANGED <<store, server, broker, live, thread, sent, got, shared, load>>
  BY DEF SubscribeFails
<1> QED
  BY <1>1, <1>2 DEF Typed, TypedServers, TypedClients, store, server, broker, thread

LEMMA ExitTyped ==
  ASSUME Typed, NEW c \in Clients, Exit(c)
  PROVE  Typed'
<1>1. todo' \in [Clients -> Duty]
  <2>1. Do(c, "exit", NoOne, NoOne) /\ todo \in [Clients -> Duty]
    BY DEF Exit, Typed, TypedClients
  <2>2. "exit" \in Kinds /\ NoOne \in Users \cup {NoOne} /\ NoOne \in Groups \cup {NoOne}
    BY DEF Kinds
  <2> QED
    BY <2>1, <2>2, DoTyped, Zenon
<1>2. live' \in [Clients -> SUBSET Users]
  BY DEF Exit, Typed, TypedClients
<1>3. UNCHANGED <<store, server, broker, thread, history>>
  BY DEF Exit
<1> QED
  BY <1>1, <1>2, <1>3
     DEF Typed, TypedServers, TypedClients, store, server, broker, thread, history

LEMMA ExitNextTyped ==
  ASSUME Typed, NEW c \in Clients, ExitNext(c)
  PROVE  Typed'
<1>1. todo \in [Clients -> Duty]
  BY DEF Typed, TypedClients
<1>2. Done(c) \/ \E u \in Users : Do(c, "exit", u, NoOne)
  BY DEF ExitNext
<1>3. todo' \in [Clients -> Duty]
  <2>1. CASE Done(c)
    BY <1>1, <2>1, DoneTyped, Zenon
  <2>2. ASSUME NEW u \in Users, Do(c, "exit", u, NoOne) PROVE todo' \in [Clients -> Duty]
    <3>1. "exit" \in Kinds /\ u \in Users \cup {NoOne} /\ NoOne \in Groups \cup {NoOne}
      BY DEF Kinds
    <3> QED
      BY <1>1, <2>2, <3>1, DoTyped, Zenon
  <2> QED
    BY <1>2, <2>1, <2>2
<1>4. UNCHANGED <<store, server, broker, live, thread, history>>
  BY DEF ExitNext
<1> QED
  BY <1>3, <1>4
     DEF Typed, TypedServers, TypedClients, store, server, broker, thread, history

\* Publishing takes the oldest task and hands its message to some of those who
\* consume, or to the queue if nobody does; the channel dies only of a group
\* whose exchange is not declared.
Delivered(id) ==
  /\ inbox' \in [Clients -> [Users -> Seq(Nat)]] /\ queue' \in [Users -> Seq(Nat)]
  /\ \A c \in Clients, u \in Users :
       inbox'[c][u] = inbox[c][u] \/ /\ c \in Consumers(u)
                                     /\ inbox'[c][u] = Append(inbox[c][u], id)
  /\ \A u \in Users :
       queue'[u] = queue[u] \/ /\ Consumers(u) = {}
                               /\ queue'[u] = Append(queue[u], id)
  /\ amqp' \in [Servers -> {"on", "dead"}]
  /\ sent[id].to \in Users \cup exchange => amqp' = amqp

LEMMA PublishedDelivers ==
  ASSUME Typed, NEW s \in Servers, NEW id \in Nat, Published(s, id)
  PROVE  Delivered(id)
<1> DEFINE x == sent[id].to
<1>1. /\ inbox \in [Clients -> [Users -> Seq(Nat)]] /\ queue \in [Users -> Seq(Nat)]
      /\ amqp \in [Servers -> {"on", "dead"}]
  BY DEF Typed, TypedServers, TypedClients
<1>2. CASE x \in Users
  <2>1. /\ IF x \in bound THEN Route(x, <<id>>, Consumers(x)) ELSE Drop
        /\ amqp' = amqp
    BY <1>2 DEF Published
  <2>2. Route(x, <<id>>, Consumers(x)) \/ Drop
    BY <2>1, Zenon
  <2> HIDE DEF x
  <2>3. \A t \in Seq(Nat) : t \o <<id>> = Append(t, id) /\ Append(t, id) \in Seq(Nat)
    BY AppendInOrder
  <2>4. CASE Drop
    BY <2>1, <2>4, <1>1 DEF Drop, Delivered
  <2>5. CASE Route(x, <<id>>, Consumers(x)) /\ Consumers(x) = {}
    <3>1. queue' = [queue EXCEPT ![x] = @ \o <<id>>] /\ inbox' = inbox
      BY <2>5 DEF Route
    <3>2. queue' = [queue EXCEPT ![x] = Append(queue[x], id)]
      BY <3>1, <2>3, <1>1, <1>2
    <3>3. queue' \in [Users -> Seq(Nat)]
      BY <3>2, <2>3, <1>1, <1>2
    <3> QED
      BY <3>1, <3>2, <3>3, <2>1, <2>5, <1>1, <1>2 DEF Delivered
  <2>6. CASE Route(x, <<id>>, Consumers(x)) /\ Consumers(x) # {}
    <3>1. queue' = queue
      BY <2>6 DEF Route
    <3>2. PICK d \in Consumers(x) : inbox' = [inbox EXCEPT ![d][x] = @ \o <<id>>]
      BY <2>6 DEF Route
    <3>3. d \in Clients
      BY DEF Consumers
    <3>4. inbox' = [inbox EXCEPT ![d][x] = Append(inbox[d][x], id)]
      BY <3>2, <3>3, <2>3, <1>1, <1>2
    <3>5. Append(inbox[d][x], id) \in Seq(Nat)
      BY <3>3, <2>3, <1>1, <1>2
    <3>6. inbox' \in [Clients -> [Users -> Seq(Nat)]]
      BY <3>3, <3>4, <3>5, <1>1, <1>2
    <3> QED
      BY <3>1, <3>2, <3>3, <3>4, <3>6, <2>1, <1>1, <1>2 DEF Delivered
  <2> QED
    BY <2>2, <2>4, <2>5, <2>6
<1>3. CASE x \notin Users
  <2>1. /\ inbox' = [c \in Clients |-> [u \in Users |->
                       IF x \in subs[c][u] /\ c \in Consumers(u)
                       THEN Append(inbox[c][u], id) ELSE inbox[c][u]]]
        /\ queue' = queue
        /\ amqp' = IF x \in exchange THEN amqp ELSE [amqp EXCEPT ![s] = "dead"]
    BY <1>3 DEF Published
  <2>2. \A c \in Clients, u \in Users : Append(inbox[c][u], id) \in Seq(Nat)
    BY <1>1, AppendInOrder
  <2>3. inbox' \in [Clients -> [Users -> Seq(Nat)]]
    BY <1>1, <2>1, <2>2
  <2>4. amqp' \in [Servers -> {"on", "dead"}] /\ (x \in Users \cup exchange => amqp' = amqp)
    BY <1>1, <1>3, <2>1
  <2>5. \A c \in Clients, u \in Users :
          inbox'[c][u] = inbox[c][u] \/ /\ c \in Consumers(u)
                                        /\ inbox'[c][u] = Append(inbox[c][u], id)
    BY <2>1
  <2> QED
    BY <1>1, <2>1, <2>3, <2>4, <2>5 DEF Delivered
<1> QED
  BY <1>2, <1>3

\* The whole step.
LEMMA PublishEffect ==
  ASSUME Typed, NEW s \in Servers, Publish(s)
  PROVE  /\ tasks[s] # <<>> /\ Head(tasks[s]) \in Nat
         /\ tasks' = [tasks EXCEPT ![s] = Tail(@)] /\ tasks' \in [Servers -> Seq(Nat)]
         /\ Delivered(Head(tasks[s]))
         /\ UNCHANGED <<store, terminated, exchange, bound, live, todo, place, subs,
                        cur, history>>
<1>1. tasks \in [Servers -> Seq(Nat)]
  BY DEF Typed, TypedServers
<1>2. /\ tasks[s] # <<>> /\ tasks' = [tasks EXCEPT ![s] = Tail(@)]
      /\ Published(s, Head(tasks[s]))
      /\ UNCHANGED <<store, terminated, exchange, bound, live, todo, place, subs,
                     cur, history>>
  BY DEF Publish
<1>3. Head(tasks[s]) \in Nat /\ Tail(tasks[s]) \in Seq(Nat)
  BY <1>1, <1>2, TailInOrder
<1>4. Delivered(Head(tasks[s]))
  BY <1>2, <1>3, PublishedDelivers
<1>5. tasks' \in [Servers -> Seq(Nat)]
  BY <1>1, <1>2, <1>3
<1> QED
  BY <1>2, <1>3, <1>4, <1>5

LEMMA ServerTyped ==
  ASSUME Typed, NEW s \in Servers, Publish(s) \/ Terminate(s) \/ Retire(s)
  PROVE  Typed'
<1>1. CASE Publish(s)
  <2>1. /\ tasks' \in [Servers -> Seq(Nat)] /\ amqp' \in [Servers -> {"on", "dead"}]
        /\ inbox' \in [Clients -> [Users -> Seq(Nat)]] /\ queue' \in [Users -> Seq(Nat)]
        /\ UNCHANGED <<store, exchange, bound, live, todo, place, subs, cur, history>>
    BY <1>1, PublishEffect DEF Delivered
  <2> QED
    BY <2>1 DEF Typed, TypedServers, TypedClients, store, history
<1>2. CASE Retire(s)
  <2>1. /\ tasks' = [tasks EXCEPT ![s] = <<>>] /\ amqp' = [amqp EXCEPT ![s] = "on"]
        /\ UNCHANGED <<store, broker, live, todo, thread, history>>
    BY <1>2 DEF Retire
  <2>2. tasks' \in [Servers -> Seq(Nat)] /\ amqp' \in [Servers -> {"on", "dead"}]
    BY <2>1, NothingInOrder DEF Typed, TypedServers
  <2> QED
    BY <2>1, <2>2 DEF Typed, TypedServers, TypedClients, store, broker, thread, history
<1>3. CASE Terminate(s)
  <2>1. /\ amqp' = [amqp EXCEPT ![s] = "dead"]
        /\ UNCHANGED <<store, tasks, broker, live, todo, thread, history>>
    BY <1>3 DEF Terminate
  <2>2. amqp' \in [Servers -> {"on", "dead"}]
    BY <2>1 DEF Typed, TypedServers
  <2> QED
    BY <2>1, <2>2 DEF Typed, TypedServers, TypedClients, store, broker, thread, history
<1> QED
  BY <1>1, <1>2, <1>3

\* Where a thread goes, and what it does to its messages.
LEMMA MoveEffect ==
  ASSUME Typed, NEW c \in Clients, NEW u \in Users, NEW from, NEW to \in Places,
         Move(c, u, from, to)
  PROVE  /\ place' \in [Clients -> [Users -> Places]]
         /\ place[c][u] = from /\ place'[c][u] = to
         /\ \A d \in Clients, w \in Users : d # c \/ w # u => place'[d][w] = place[d][w]
BY DEF Move, Typed, TypedClients

LEMMA SubscribeEffect ==
  ASSUME Typed, NEW c \in Clients, NEW u \in Users, Subscribe(c, u)
  PROVE  /\ place' \in [Clients -> [Users -> Places]]
         /\ place[c][u] = "starting" /\ place'[c][u] = "on"
         /\ \A d \in Clients, w \in Users : d # c \/ w # u => place'[d][w] = place[d][w]
         /\ todo' \in [Clients -> Duty] /\ todo'[c] = Nothing
         /\ \A d \in Clients : d # c => todo'[d] = todo[d]
         /\ exchange' = exchange \cup subs[c][u]
         /\ queue' \in [Users -> Seq(Nat)] /\ queue'[u] = <<>>
         /\ \A w \in Users : w # u => queue'[w] = queue[w]
         /\ inbox' \in [Clients -> [Users -> Seq(Nat)]] /\ inbox'[c][u] = queue[u]
         /\ \A d \in Clients, w \in Users : d # c \/ w # u => inbox'[d][w] = inbox[d][w]
<1>1. Move(c, u, "starting", "on") /\ Done(c)
  BY DEF Subscribe
<1>2. "on" \in Places
  BY DEF Places
<1>3. todo' \in [Clients -> Duty] /\ todo'[c] = Nothing
      /\ \A d \in Clients : d # c => todo'[d] = todo[d]
  BY <1>1, DoneTyped, Zenon DEF Typed, TypedClients
<1>4. /\ queue' \in [Users -> Seq(Nat)] /\ queue'[u] = <<>>
      /\ \A w \in Users : w # u => queue'[w] = queue[w]
  BY NothingInOrder DEF Subscribe, Typed, TypedServers
<1>5. /\ inbox' \in [Clients -> [Users -> Seq(Nat)]] /\ inbox'[c][u] = queue[u]
      /\ \A d \in Clients, w \in Users : d # c \/ w # u => inbox'[d][w] = inbox[d][w]
  BY DEF Subscribe, Typed, TypedServers, TypedClients
<1>6. exchange' = exchange \cup subs[c][u]
  BY DEF Subscribe
<1> HIDE DEF Typed, Places, Duty
<1> QED
  BY <1>1, <1>2, <1>3, <1>4, <1>5, <1>6, MoveEffect

LEMMA ReceiveEffect ==
  ASSUME Typed, NEW c \in Clients, NEW u \in Users, Receive(c, u)
  PROVE  /\ place' \in [Clients -> [Users -> Places]]
         /\ place[c][u] = "on" /\ place'[c][u] = "printing"
         /\ \A d \in Clients, w \in Users : d # c \/ w # u => place'[d][w] = place[d][w]
         /\ inbox[c][u] \in Seq(Nat) /\ inbox[c][u] # <<>>
         /\ cur' \in [Clients -> [Users -> Nat]] /\ cur'[c][u] = Head(inbox[c][u])
         /\ inbox' \in [Clients -> [Users -> Seq(Nat)]] /\ inbox'[c][u] = Tail(inbox[c][u])
         /\ \A d \in Clients, w \in Users : d # c \/ w # u =>
              inbox'[d][w] = inbox[d][w] /\ cur'[d][w] = cur[d][w]
<1>1. /\ Move(c, u, "on", "printing") /\ inbox[c][u] # <<>>
      /\ cur' = [cur EXCEPT ![c][u] = Head(inbox[c][u])]
      /\ inbox' = [inbox EXCEPT ![c][u] = Tail(@)]
  BY DEF Receive
<1>2. "printing" \in Places
  BY DEF Places
<1>3. /\ inbox \in [Clients -> [Users -> Seq(Nat)]] /\ inbox[c][u] \in Seq(Nat)
      /\ cur \in [Clients -> [Users -> Nat]]
  BY DEF Typed, TypedClients
<1>4. Head(inbox[c][u]) \in Nat /\ Tail(inbox[c][u]) \in Seq(Nat)
  BY <1>1, <1>3, TailInOrder
<1>5. /\ cur' \in [Clients -> [Users -> Nat]] /\ cur'[c][u] = Head(inbox[c][u])
      /\ \A d \in Clients, w \in Users : d # c \/ w # u => cur'[d][w] = cur[d][w]
  BY <1>1, <1>3, <1>4
<1>6. /\ inbox' \in [Clients -> [Users -> Seq(Nat)]] /\ inbox'[c][u] = Tail(inbox[c][u])
      /\ \A d \in Clients, w \in Users : d # c \/ w # u => inbox'[d][w] = inbox[d][w]
  BY <1>1, <1>3, <1>4
<1> QED
  BY <1>1, <1>2, <1>3, <1>5, <1>6, MoveEffect

LEMMA PrintEffect ==
  ASSUME Typed, NEW c \in Clients, NEW u \in Users, PrintMessage(c, u)
  PROVE  /\ place' \in [Clients -> [Users -> Places]]
         /\ place[c][u] = "printing" /\ place'[c][u] = "on"
         /\ \A d \in Clients, w \in Users : d # c \/ w # u => place'[d][w] = place[d][w]
         /\ cur' \in [Clients -> [Users -> Nat]] /\ cur[c][u] \in Nat
         /\ \A d \in Clients, w \in Users : d # c \/ w # u => cur'[d][w] = cur[d][w]
         /\ got' \in [Users -> Seq(Nat)] /\ got'[u] = Append(got[u], cur[c][u])
         /\ \A w \in Users : w # u => got'[w] = got[w]
<1>1. /\ Move(c, u, "printing", "on")
      /\ got' = [got EXCEPT ![u] = Append(@, cur[c][u])]
      /\ cur' = [cur EXCEPT ![c][u] = 0]
  BY DEF PrintMessage
<1>2. "on" \in Places
  BY DEF Places
<1>3. got \in [Users -> Seq(Nat)] /\ cur \in [Clients -> [Users -> Nat]] /\ cur[c][u] \in Nat
  BY DEF Typed, TypedClients
<1>4. Append(got[u], cur[c][u]) \in Seq(Nat)
  BY <1>3, AppendInOrder
<1>5. /\ got' \in [Users -> Seq(Nat)] /\ got'[u] = Append(got[u], cur[c][u])
      /\ \A w \in Users : w # u => got'[w] = got[w]
  BY <1>1, <1>3, <1>4
<1>6. /\ cur' \in [Clients -> [Users -> Nat]]
      /\ \A d \in Clients, w \in Users : d # c \/ w # u => cur'[d][w] = cur[d][w]
  BY <1>1, <1>3
<1> QED
  BY <1>1, <1>2, <1>3, <1>5, <1>6, MoveEffect

LEMMA StopEffect ==
  ASSUME Typed, NEW c \in Clients, NEW u \in Users, StopConsuming(c, u)
  PROVE  /\ place' \in [Clients -> [Users -> Places]]
         /\ place[c][u] = "on" /\ place'[c][u] = "unbind"
         /\ \A d \in Clients, w \in Users : d # c \/ w # u => place'[d][w] = place[d][w]
         /\ inbox' \in [Clients -> [Users -> Seq(Nat)]] /\ queue' \in [Users -> Seq(Nat)]
         /\ \A w \in Users : w # u =>
              queue'[w] = queue[w] /\ \A d \in Clients : inbox'[d][w] = inbox[d][w]
         /\ inbox'[c][u] = <<>>
         /\ \/ /\ Consumers(u) = {c} /\ queue'[u] = Private(inbox[c][u])
               /\ \A d \in Clients : d # c => inbox'[d][u] = inbox[d][u]
            \/ /\ queue' = queue
               /\ \E d \in Consumers(u) \ {c} : \A e \in Clients \ {c} :
                    inbox'[e][u] = IF e = d THEN inbox[e][u] \o Private(inbox[c][u])
                                   ELSE inbox[e][u]
<1> DEFINE ids == Private(inbox[c][u])
           back == [inbox EXCEPT ![c][u] = <<>>]
           others == Consumers(u) \ {c}
<1>1. /\ Move(c, u, "on", "unbind")
      /\ IF others = {} THEN queue' = [queue EXCEPT ![u] = ids] /\ inbox' = back
         ELSE \E d \in others : queue' = queue /\ inbox' = [back EXCEPT ![d][u] = @ \o ids]
  BY DEF StopConsuming
<1>2. "unbind" \in Places
  BY DEF Places
<1>3. /\ inbox \in [Clients -> [Users -> Seq(Nat)]] /\ queue \in [Users -> Seq(Nat)]
      /\ inbox[c][u] \in Seq(Nat)
  BY DEF Typed, TypedServers, TypedClients
<1>4. ids \in Seq(Nat)
  BY <1>3, PrivateInOrder
<1> HIDE DEF ids, back
<1>5. /\ back \in [Clients -> [Users -> Seq(Nat)]] /\ back[c][u] = <<>>
      /\ \A d \in Clients, w \in Users : d # c \/ w # u => back[d][w] = inbox[d][w]
  BY <1>3, NothingInOrder DEF back
<1>6. c \in Consumers(u) /\ Consumers(u) \subseteq Clients
  BY <1>1 DEF Move, Consumers
<1>7. /\ place' \in [Clients -> [Users -> Places]]
      /\ place[c][u] = "on" /\ place'[c][u] = "unbind"
      /\ \A d \in Clients, w \in Users : d # c \/ w # u => place'[d][w] = place[d][w]
  BY <1>1, <1>2, MoveEffect
<1>8. CASE others = {}
  <2>1. queue' = [queue EXCEPT ![u] = ids] /\ inbox' = back
    BY <1>1, <1>8
  <2>2. Consumers(u) = {c}
    BY <1>6, <1>8
  <2>3. queue' \in [Users -> Seq(Nat)] /\ queue'[u] = ids
        /\ \A w \in Users : w # u => queue'[w] = queue[w]
    BY <2>1, <1>3, <1>4
  <2> QED
    BY <1>7, <1>5, <2>1, <2>2, <2>3 DEF ids
<1>9. CASE others # {}
  <2>1. PICK d \in others : queue' = queue /\ inbox' = [back EXCEPT ![d][u] = @ \o ids]
    BY <1>1, <1>9
  <2>2. d \in Clients /\ d # c
    BY <1>6
  <2>3. back[d][u] = inbox[d][u] /\ inbox[d][u] \o ids \in Seq(Nat)
    BY <2>2, <1>3, <1>4, <1>5, ConcatInOrder
  <2>4. inbox' = [back EXCEPT ![d][u] = inbox[d][u] \o ids]
    BY <2>1, <2>2, <2>3, <1>5
  <2>5. /\ inbox' \in [Clients -> [Users -> Seq(Nat)]]
        /\ inbox'[d][u] = inbox[d][u] \o ids
        /\ \A e \in Clients, w \in Users : e # d \/ w # u => inbox'[e][w] = back[e][w]
    BY <2>2, <2>3, <2>4, <1>5
  <2>6. \A e \in Clients \ {c} : inbox'[e][u] = IF e = d THEN inbox[e][u] \o ids
                                               ELSE inbox[e][u]
    BY <2>2, <2>5, <1>5
  <2>7. \A w \in Users : w # u => \A e \in Clients : inbox'[e][w] = inbox[e][w]
    BY <2>5, <1>5
  <2>8. inbox'[c][u] = <<>>
    BY <2>2, <2>5, <1>5
  <2>9. \E k \in Consumers(u) \ {c} : \A e \in Clients \ {c} :
          inbox'[e][u] = IF e = k THEN inbox[e][u] \o ids ELSE inbox[e][u]
    BY <2>6
  <2> QED
    BY <1>7, <1>3, <2>1, <2>5, <2>7, <2>8, <2>9 DEF ids
<1> QED
  BY <1>8, <1>9

LEMMA UnbindEffect ==
  ASSUME Typed, NEW c \in Clients, NEW u \in Users, Unbind(c, u)
  PROVE  /\ place' \in [Clients -> [Users -> Places]]
         /\ place[c][u] = "unbind" /\ place'[c][u] = "off"
         /\ \A d \in Clients, w \in Users : d # c \/ w # u => place'[d][w] = place[d][w]
         /\ subs' \in [Clients -> [Users -> SUBSET Groups]]
         /\ \A d \in Clients, w \in Users : d # c \/ w # u => subs'[d][w] = subs[d][w]
         /\ todo' \in [Clients -> Duty]
         /\ \/ todo'[c] = Nothing
            \/ /\ todo[c].kind # "stop"
               /\ todo'[c] = [kind |-> "exit", who |-> NoOne, arg |-> NoOne]
         /\ \A d \in Clients : d # c => todo'[d] = todo[d]
<1>1. /\ Move(c, u, "unbind", "off") /\ subs' = [subs EXCEPT ![c][u] = {}]
      /\ IF todo[c].kind = "stop" THEN Done(c) ELSE Do(c, "exit", NoOne, NoOne)
  BY DEF Unbind
<1>2. "off" \in Places
  BY DEF Places
<1>3. /\ subs \in [Clients -> [Users -> SUBSET Groups]] /\ todo \in [Clients -> Duty]
  BY DEF Typed, TypedClients
<1>4. /\ subs' \in [Clients -> [Users -> SUBSET Groups]]
      /\ \A d \in Clients, w \in Users : d # c \/ w # u => subs'[d][w] = subs[d][w]
  BY <1>1, <1>3
<1>5. /\ todo' \in [Clients -> Duty]
      /\ \/ todo'[c] = Nothing
         \/ /\ todo[c].kind # "stop"
            /\ todo'[c] = [kind |-> "exit", who |-> NoOne, arg |-> NoOne]
      /\ \A d \in Clients : d # c => todo'[d] = todo[d]
  <2>1. CASE todo[c].kind = "stop"
    <3>1. Done(c)
      BY <1>1, <2>1
    <3> QED
      BY <1>3, <3>1, DoneTyped, Zenon
  <2>2. CASE todo[c].kind # "stop"
    <3>1. Do(c, "exit", NoOne, NoOne)
      BY <1>1, <2>2
    <3>2. "exit" \in Kinds /\ NoOne \in Users \cup {NoOne} /\ NoOne \in Groups \cup {NoOne}
      BY DEF Kinds
    <3>3. /\ todo' \in [Clients -> Duty]
          /\ todo'[c] = [kind |-> "exit", who |-> NoOne, arg |-> NoOne]
          /\ \A d \in Clients : d # c => todo'[d] = todo[d]
      BY <1>3, <3>1, <3>2, DoTyped, Zenon
    <3> QED
      BY <2>2, <3>3, Zenon
  <2> QED
    BY <2>1, <2>2
<1>6. /\ place' \in [Clients -> [Users -> Places]]
      /\ place[c][u] = "unbind" /\ place'[c][u] = "off"
      /\ \A d \in Clients, w \in Users : d # c \/ w # u => place'[d][w] = place[d][w]
  BY <1>1, <1>2, MoveEffect
<1> QED
  BY <1>4, <1>5, <1>6, Zenon

LEMMA KillEffect ==
  ASSUME Typed, NEW c \in Clients, Kill(c)
  PROVE  /\ place' \in [Clients -> [Users -> Places]]
         /\ \A u \in Users : place'[c][u] = "off"
         /\ \A d \in Clients, u \in Users : d # c => place'[d][u] = place[d][u]
         /\ subs' \in [Clients -> [Users -> SUBSET Groups]]
         /\ \A d \in Clients, u \in Users : d # c => subs'[d][u] = subs[d][u]
         /\ cur' \in [Clients -> [Users -> Nat]]
         /\ \A d \in Clients, u \in Users : d # c => cur'[d][u] = cur[d][u]
         /\ live' \in [Clients -> SUBSET Users] /\ live'[c] = {}
         /\ \A d \in Clients : d # c => live'[d] = live[d]
         /\ todo' \in [Clients -> Duty] /\ todo'[c] = Nothing
         /\ \A d \in Clients : d # c => todo'[d] = todo[d]
         /\ inbox' \in [Clients -> [Users -> Seq(Nat)]] /\ queue' \in [Users -> Seq(Nat)]
         /\ \A u \in Users :
              /\ inbox'[c][u] = <<>>
              /\ \A d \in Clients \ {c} :
                   \/ inbox'[d][u] = inbox[d][u]
                   \/ /\ d \in Consumers(u)
                      /\ inbox'[d][u] = inbox[d][u] \o Private(inbox[c][u])
              /\ queue'[u] = IF Consumers(u) = {c} THEN Private(inbox[c][u]) ELSE queue[u]
<1>1. /\ place' = [place EXCEPT ![c] = [u \in Users |-> "off"]]
      /\ subs' = [subs EXCEPT ![c] = [u \in Users |-> {}]]
      /\ cur' = [cur EXCEPT ![c] = [u \in Users |-> 0]]
      /\ live' = [live EXCEPT ![c] = {}] /\ Done(c)
      /\ queue' = [u \in Users |->
                     IF Consumers(u) = {c} THEN Private(inbox[c][u]) ELSE queue[u]]
  BY DEF Kill
<1>2. PICK heir \in [Users -> Clients] :
        inbox' = [d \in Clients |-> [u \in Users |->
                     IF d = c THEN <<>>
                     ELSE IF d = heir[u] /\ d \in Consumers(u)
                     THEN inbox[d][u] \o Private(inbox[c][u])
                     ELSE inbox[d][u]]]
  BY DEF Kill
<1>3. \A d \in Clients, u \in Users :
        /\ inbox[d][u] \in Seq(Nat) /\ Private(inbox[c][u]) \in Seq(Nat)
        /\ inbox[d][u] \o Private(inbox[c][u]) \in Seq(Nat)
  <2> TAKE d \in Clients, u \in Users
  <2>1. inbox[d][u] \in Seq(Nat) /\ inbox[c][u] \in Seq(Nat)
    BY DEF Typed, TypedClients
  <2>2. Private(inbox[c][u]) \in Seq(Nat)
    BY <2>1, PrivateInOrder
  <2> QED
    BY <2>1, <2>2, ConcatInOrder
<1>4. inbox' \in [Clients -> [Users -> Seq(Nat)]]
      /\ \A u \in Users :
           /\ inbox'[c][u] = <<>>
           /\ \A d \in Clients \ {c} :
                \/ inbox'[d][u] = inbox[d][u]
                \/ /\ d \in Consumers(u)
                   /\ inbox'[d][u] = inbox[d][u] \o Private(inbox[c][u])
  BY <1>2, <1>3, NothingInOrder
<1>5. /\ queue' \in [Users -> Seq(Nat)]
      /\ \A u \in Users :
           queue'[u] = IF Consumers(u) = {c} THEN Private(inbox[c][u]) ELSE queue[u]
  <2>1. queue \in [Users -> Seq(Nat)]
    BY DEF Typed, TypedServers
  <2> QED
    BY <1>1, <1>3, <2>1
<1>6. todo' \in [Clients -> Duty] /\ todo'[c] = Nothing
      /\ \A d \in Clients : d # c => todo'[d] = todo[d]
  BY <1>1, DoneTyped, Zenon DEF Typed, TypedClients
<1>7. /\ place' \in [Clients -> [Users -> Places]]
      /\ \A u \in Users : place'[c][u] = "off"
      /\ \A d \in Clients, u \in Users : d # c => place'[d][u] = place[d][u]
  BY <1>1 DEF Typed, TypedClients, Places
<1>8. /\ subs' \in [Clients -> [Users -> SUBSET Groups]]
      /\ \A d \in Clients, u \in Users : d # c => subs'[d][u] = subs[d][u]
  BY <1>1 DEF Typed, TypedClients
<1>9. /\ cur' \in [Clients -> [Users -> Nat]]
      /\ \A d \in Clients, u \in Users : d # c => cur'[d][u] = cur[d][u]
  BY <1>1 DEF Typed, TypedClients
<1>10. /\ live' \in [Clients -> SUBSET Users] /\ live'[c] = {}
       /\ \A d \in Clients : d # c => live'[d] = live[d]
  BY <1>1 DEF Typed, TypedClients
<1> QED
  BY <1>4, <1>5, <1>6, <1>7, <1>8, <1>9, <1>10, Zenon

LEMMA ThreadStepTyped ==
  ASSUME Typed, NEW c \in Clients, NEW u \in Users, ThreadStep(c, u)
  PROVE  Typed'
<1>1. CASE Subscribe(c, u)
  <2>1. subs[c][u] \subseteq Groups /\ bound' = bound \cup {u}
        /\ UNCHANGED <<store, server, live, subs, cur, history>>
    BY <1>1 DEF Subscribe, Typed, TypedClients
  <2>2. /\ place' \in [Clients -> [Users -> Places]] /\ todo' \in [Clients -> Duty]
        /\ exchange' = exchange \cup subs[c][u] /\ queue' \in [Users -> Seq(Nat)]
        /\ inbox' \in [Clients -> [Users -> Seq(Nat)]]
    BY <1>1, SubscribeEffect
  <2> QED
    BY <2>1, <2>2 DEF Typed, TypedServers, TypedClients, store, server, history
<1>2. CASE Receive(c, u)
  <2>1. UNCHANGED <<store, server, broker, live, todo, subs, history>>
    BY <1>2 DEF Receive
  <2>2. /\ place' \in [Clients -> [Users -> Places]] /\ cur' \in [Clients -> [Users -> Nat]]
        /\ inbox' \in [Clients -> [Users -> Seq(Nat)]]
    BY <1>2, ReceiveEffect
  <2> QED
    BY <2>1, <2>2 DEF Typed, TypedServers, TypedClients, store, server, broker, history
<1>3. CASE PrintMessage(c, u)
  <2>1. UNCHANGED <<store, server, broker, live, todo, subs, inbox, sent, shared, skipped, load>>
    BY <1>3 DEF PrintMessage
  <2>2. /\ place' \in [Clients -> [Users -> Places]] /\ cur' \in [Clients -> [Users -> Nat]]
        /\ got' \in [Users -> Seq(Nat)]
    BY <1>3, PrintEffect
  <2> QED
    BY <2>1, <2>2 DEF Typed, TypedServers, TypedClients, store, server, broker
<1>4. CASE StopConsuming(c, u)
  <2>1. UNCHANGED <<store, server, exchange, bound, live, todo, subs, cur, history>>
    BY <1>4 DEF StopConsuming
  <2>2. /\ place' \in [Clients -> [Users -> Places]] /\ queue' \in [Users -> Seq(Nat)]
        /\ inbox' \in [Clients -> [Users -> Seq(Nat)]]
    BY <1>4, StopEffect
  <2> QED
    BY <2>1, <2>2 DEF Typed, TypedServers, TypedClients, store, server, history
<1>5. CASE Unbind(c, u)
  <2>1. bound' = bound \ {u}
        /\ UNCHANGED <<store, server, exchange, queue, live, inbox, cur, history>>
    BY <1>5 DEF Unbind
  <2>2. /\ place' \in [Clients -> [Users -> Places]] /\ todo' \in [Clients -> Duty]
        /\ subs' \in [Clients -> [Users -> SUBSET Groups]]
    BY <1>5, UnbindEffect
  <2> QED
    BY <2>1, <2>2 DEF Typed, TypedServers, TypedClients, store, server, history
<1> QED
  BY <1>1, <1>2, <1>3, <1>4, <1>5 DEF ThreadStep

LEMMA KillTyped ==
  ASSUME Typed, NEW c \in Clients, Kill(c)
  PROVE  Typed'
<1>1. UNCHANGED <<store, server, exchange, bound, history>>
  BY DEF Kill
<1>2. /\ place' \in [Clients -> [Users -> Places]] /\ todo' \in [Clients -> Duty]
      /\ subs' \in [Clients -> [Users -> SUBSET Groups]]
      /\ cur' \in [Clients -> [Users -> Nat]] /\ live' \in [Clients -> SUBSET Users]
      /\ inbox' \in [Clients -> [Users -> Seq(Nat)]] /\ queue' \in [Users -> Seq(Nat)]
  BY KillEffect
<1> QED
  BY <1>1, <1>2 DEF Typed, TypedServers, TypedClients, store, server, history

----------------------------------------------------------------------------
(* The steps *)

\* A message that passes the server's checks.
Post(c, u, x) ==
  /\ x \in Users \/ x \in member[u]
  /\ \E kind \in {"send", "send-group"} : PutTask(c, kind, u, x)

LEMMA StepCases ==
  ASSUME [Next]_vars
  PROVE  \/ UNCHANGED vars
         \/ \E c \in Clients, u \in Users : Login(c, u)
         \/ \E c \in Clients, u \in Users : Logout(c, u)
         \/ \E c \in Clients, u \in Users, g \in Groups : JoinGroup(c, u, g)
         \/ \E c \in Clients, u \in Users, x \in Users \cup Groups : Post(c, u, x)
         \/ \E c \in Clients : SubscribeGroup(c)
         \/ \E c \in Clients : SubscribeFails(c)
         \/ \E c \in Clients : Exit(c)
         \/ \E c \in Clients : ExitNext(c)
         \/ \E c \in Clients : Kill(c)
         \/ \E c \in Clients, u \in Users : ThreadStep(c, u)
         \/ \E s \in Servers : Publish(s) \/ Terminate(s) \/ Retire(s)
<1>1. ASSUME NEW c \in Clients, NEW u \in Users, NEW v \in Users, Send(c, u, v)
      PROVE  Post(c, u, v)
  BY <1>1 DEF Send, Post
<1>2. ASSUME NEW c \in Clients, NEW u \in Users, NEW g \in Groups, SendGroup(c, u, g)
      PROVE  Post(c, u, g)
  BY <1>2 DEF SendGroup, Post
<1>3. ASSUME NEW c \in Clients, Command(c)
      PROVE  \/ \E u \in Users : Login(c, u) \/ Logout(c, u)
             \/ \E u \in Users, x \in Users \cup Groups : Post(c, u, x)
             \/ \E u \in Users, g \in Groups : JoinGroup(c, u, g)
             \/ Exit(c)
  BY <1>1, <1>2, <1>3, Zenon DEF Command
<1> QED
  BY <1>3, Zenon DEF Next

LEMMA NextTyped ==
  ASSUME Typed, ThreadsKnown, [Next]_vars
  PROVE  Typed'
<1>1. CASE UNCHANGED vars
  BY <1>1 DEF Typed, TypedServers, TypedClients, vars, store, server, broker, thread, history
<1>2. ASSUME NEW c \in Clients, NEW u \in Users, NEW x \in Users \cup Groups, Post(c, u, x)
      PROVE  Typed'
  BY <1>2, PutTaskTyped DEF Post
<1> QED
  BY <1>1, <1>2, StepCases, LoginTyped, LogoutTyped, JoinGroupTyped, SubscribeGroupTyped,
     SubscribeFailsTyped, ExitTyped, ExitNextTyped, KillTyped, ThreadStepTyped, ServerTyped,
     Zenon

----------------------------------------------------------------------------
(* What the threads of a client know of each other *)

\* It depends on the client's duty, its tokens and the places of its threads.
LEMMA KnownFrame ==
  ASSUME NEW c \in Clients, Known(c), todo'[c] = todo[c], live'[c] \subseteq live[c],
         \A u \in Users : place'[c][u] = place[c][u]
  PROVE  Known(c)'
BY DEF Known

\* A client that has nothing to do starts and stops no thread.
LEMMA ReadyKnown ==
  ASSUME NEW c \in Clients, Known(c), todo[c] = Nothing
  PROVE  \A u \in Users : place[c][u] \notin {"starting", "unbind"}
BY NothingKind DEF Known

LEMMA LoginKnown ==
  ASSUME Typed, ThreadsKnown, NEW c \in Clients, NEW u \in Users, Login(c, u)
  PROVE  ThreadsKnown'
<1>1. /\ todo[c] = Nothing /\ live' = [live EXCEPT ![c] = @ \cup {u}]
      /\ \/ place[c][u] # "off" /\ UNCHANGED <<todo, place>>
         \/ /\ Do(c, "start", u, NoOne)
            /\ place' = [place EXCEPT ![c][u] = "starting"]
  BY DEF Login, Ready, thread
<1>2. /\ todo \in [Clients -> Duty] /\ place \in [Clients -> [Users -> Places]]
      /\ live \in [Clients -> SUBSET Users]
  BY DEF Typed, TypedClients
<1>3. \A w \in Users : place[c][w] \notin {"starting", "unbind"}
  BY <1>1, ReadyKnown DEF ThreadsKnown
<1>4. /\ live'[c] = live[c] \cup {u}
      /\ \A d \in Clients : d # c => live'[d] = live[d]
  BY <1>1, <1>2
<1>5. CASE place[c][u] # "off" /\ UNCHANGED <<todo, place>>
  <2>1. ASSUME NEW d \in Clients, d # c PROVE Known(d)'
    BY <1>4, <1>5, <2>1, KnownFrame DEF ThreadsKnown
  <2>2. Known(c)'
    BY <1>1, <1>3, <1>4, <1>5, NothingKind DEF ThreadsKnown, Known
  <2> QED
    BY <2>1, <2>2 DEF ThreadsKnown
<1>6. CASE Do(c, "start", u, NoOne) /\ place' = [place EXCEPT ![c][u] = "starting"]
  <2>1. "start" \in Kinds /\ u \in Users \cup {NoOne} /\ NoOne \in Groups \cup {NoOne}
    BY DEF Kinds
  <2>2. /\ todo'[c] = [kind |-> "start", who |-> u, arg |-> NoOne]
        /\ \A d \in Clients : d # c => todo'[d] = todo[d]
    BY <1>2, <1>6, <2>1, DoTyped, Zenon
  <2>3. /\ place'[c][u] = "starting"
        /\ \A d \in Clients, w \in Users : d # c \/ w # u => place'[d][w] = place[d][w]
    BY <1>2, <1>6
  <2>4. ASSUME NEW d \in Clients, d # c PROVE Known(d)'
    BY <1>4, <2>2, <2>3, <2>4, KnownFrame DEF ThreadsKnown
  <2>5. Known(c)'
    BY <1>3, <1>4, <2>2, <2>3 DEF ThreadsKnown, Known
  <2> QED
    BY <2>4, <2>5 DEF ThreadsKnown
<1> QED
  BY <1>1, <1>5, <1>6

\* A client that gets a new duty and keeps its threads where they are.
LEMMA DutyKnown ==
  ASSUME Typed, ThreadsKnown, NEW c \in Clients, place' = place,
         \A u \in Users : place[c][u] \notin {"starting", "unbind"},
         \A d \in Clients : live'[d] \subseteq live[d],
         \A d \in Clients : d # c => todo'[d] = todo[d],
         \/ todo'[c].kind \in {"subscribe", "stop"} /\ todo'[c].who \in Users
         \/ todo'[c].kind \in {"none", "exit"},
         todo'[c].kind = "subscribe" => todo'[c].arg \in Groups,
         todo'[c].kind = "stop" => todo'[c].who \notin live'[c],
         todo'[c].kind = "exit" => live'[c] = {}
  PROVE  ThreadsKnown'
<1>1. ASSUME NEW d \in Clients, d # c PROVE Known(d)'
  BY <1>1, KnownFrame DEF ThreadsKnown
<1>2. Known(c)'
  BY DEF ThreadsKnown, Known
<1> QED
  BY <1>1, <1>2 DEF ThreadsKnown

\* The commands and duties of the main thread.
LEMMA MainKnown ==
  ASSUME Typed, ThreadsKnown, NEW c \in Clients,
         \/ \E u \in Users : Logout(c, u)
         \/ \E u \in Users, g \in Groups : JoinGroup(c, u, g)
         \/ SubscribeGroup(c) \/ SubscribeFails(c) \/ Exit(c) \/ ExitNext(c)
  PROVE  ThreadsKnown'
<1>1. /\ todo \in [Clients -> Duty] /\ live \in [Clients -> SUBSET Users]
      /\ Known(c) /\ NoOne \notin Users
  BY DeliveryAssumption DEF Typed, TypedClients, ThreadsKnown
<1>2. ASSUME NEW u \in Users, Logout(c, u) PROVE ThreadsKnown'
  <2>1. /\ todo[c] = Nothing /\ Do(c, "stop", u, NoOne) /\ place' = place
        /\ live' = [d \in Clients |-> live[d] \ {u}]
    BY <1>2 DEF Logout, Ready, thread
  <2>2. "stop" \in Kinds /\ u \in Users \cup {NoOne} /\ NoOne \in Groups \cup {NoOne}
    BY DEF Kinds
  <2>3. /\ todo'[c] = [kind |-> "stop", who |-> u, arg |-> NoOne]
        /\ \A d \in Clients : d # c => todo'[d] = todo[d]
    BY <1>1, <2>1, <2>2, DoTyped, Zenon
  <2>4. todo'[c].kind = "stop" /\ todo'[c].who = u
    BY <2>3
  <2>5. u \notin live'[c] /\ \A d \in Clients : live'[d] \subseteq live[d]
    BY <2>1
  <2>6. \A w \in Users : place[c][w] \notin {"starting", "unbind"}
    BY <1>1, <2>1, ReadyKnown
  <2> QED
    BY <2>1, <2>3, <2>4, <2>5, <2>6, DutyKnown
<1>3. ASSUME NEW u \in Users, NEW g \in Groups, JoinGroup(c, u, g) PROVE ThreadsKnown'
  <2>1. /\ todo[c] = Nothing /\ Do(c, "subscribe", u, g) /\ place' = place /\ live' = live
    BY <1>3 DEF JoinGroup, Ready, thread
  <2>2. "subscribe" \in Kinds /\ u \in Users \cup {NoOne} /\ g \in Groups \cup {NoOne}
    BY DEF Kinds
  <2>3. /\ todo'[c] = [kind |-> "subscribe", who |-> u, arg |-> g]
        /\ \A d \in Clients : d # c => todo'[d] = todo[d]
    BY <1>1, <2>1, <2>2, DoTyped, Zenon
  <2>4. todo'[c].kind = "subscribe" /\ todo'[c].who = u /\ todo'[c].arg = g
    BY <2>3
  <2>5. \A w \in Users : place[c][w] \notin {"starting", "unbind"}
    BY <1>1, <2>1, ReadyKnown
  <2> QED
    BY <2>1, <2>3, <2>4, <2>5, DutyKnown
<1>4. CASE SubscribeGroup(c) \/ SubscribeFails(c)
  <2>1. todo[c].kind = "subscribe" /\ Done(c) /\ place' = place /\ live' = live
    BY <1>4 DEF SubscribeGroup, SubscribeFails, thread
  <2>2. todo'[c] = Nothing /\ \A d \in Clients : d # c => todo'[d] = todo[d]
    BY <1>1, <2>1, DoneTyped, Zenon
  <2>3. \A w \in Users : place[c][w] \notin {"starting", "unbind"}
    BY <1>1, <2>1 DEF Known
  <2> QED
    BY <2>1, <2>2, <2>3, NothingKind, DutyKnown
<1>5. CASE Exit(c)
  <2>1. /\ todo[c] = Nothing /\ Do(c, "exit", NoOne, NoOne) /\ place' = place
        /\ live' = [live EXCEPT ![c] = {}]
    BY <1>5 DEF Exit, Ready, thread
  <2>2. "exit" \in Kinds /\ NoOne \in Users \cup {NoOne} /\ NoOne \in Groups \cup {NoOne}
    BY DEF Kinds
  <2>3. /\ todo'[c] = [kind |-> "exit", who |-> NoOne, arg |-> NoOne]
        /\ \A d \in Clients : d # c => todo'[d] = todo[d]
    BY <1>1, <2>1, <2>2, DoTyped, Zenon
  <2>4. todo'[c].kind = "exit"
    BY <2>3
  <2>5. live'[c] = {} /\ \A d \in Clients : live'[d] \subseteq live[d]
    BY <1>1, <2>1
  <2>6. \A w \in Users : place[c][w] \notin {"starting", "unbind"}
    BY <1>1, <2>1, ReadyKnown
  <2> QED
    BY <2>1, <2>3, <2>4, <2>5, <2>6, DutyKnown
<1>6. CASE ExitNext(c)
  <2>1. /\ todo[c] = [Nothing EXCEPT !.kind = "exit"] /\ place' = place /\ live' = live
        /\ Done(c) \/ \E u \in Users : Do(c, "exit", u, NoOne)
    BY <1>6 DEF ExitNext, thread
  <2>2. todo[c].kind = "exit" /\ todo[c].who = NoOne
    BY <2>1 DEF Nothing
  <2>3. /\ live[c] = {}
        /\ \A w \in Users : place[c][w] \notin {"starting", "unbind"}
    BY <1>1, <2>2 DEF Known
  <2>4. /\ todo'[c].kind \in {"none", "exit"}
        /\ \A d \in Clients : d # c => todo'[d] = todo[d]
    <3>1. CASE Done(c)
      BY <1>1, <3>1, DoneTyped, NothingKind
    <3>2. ASSUME NEW u \in Users, Do(c, "exit", u, NoOne)
          PROVE  /\ todo'[c].kind \in {"none", "exit"}
                 /\ \A d \in Clients : d # c => todo'[d] = todo[d]
      <4>1. "exit" \in Kinds /\ u \in Users \cup {NoOne} /\ NoOne \in Groups \cup {NoOne}
        BY DEF Kinds
      <4>2. /\ todo'[c] = [kind |-> "exit", who |-> u, arg |-> NoOne]
            /\ \A d \in Clients : d # c => todo'[d] = todo[d]
        BY <1>1, <3>2, <4>1, DoTyped, Zenon
      <4> QED
        BY <4>2
    <3> QED
      BY <2>1, <3>1, <3>2
  <2> QED
    BY <2>1, <2>3, <2>4, DutyKnown
<1> QED
  BY <1>2, <1>3, <1>4, <1>5, <1>6

\* The steps of a thread.
LEMMA ThreadKnown ==
  ASSUME Typed, ThreadsKnown, NEW c \in Clients, NEW u \in Users, ThreadStep(c, u)
  PROVE  ThreadsKnown'
<1>1. Known(c) /\ NoOne \notin Users
  BY DeliveryAssumption DEF ThreadsKnown
<1>2. SUFFICES Known(c)' /\ \A d \in Clients \ {c} : Known(d)'
  BY DEF ThreadsKnown
<1>3. CASE Subscribe(c, u)
  <2>1. /\ place[c][u] = "starting" /\ place'[c][u] = "on" /\ todo'[c] = Nothing
        /\ \A d \in Clients, w \in Users : d # c \/ w # u => place'[d][w] = place[d][w]
        /\ \A d \in Clients : d # c => todo'[d] = todo[d]
    BY <1>3, SubscribeEffect
  <2>2. live' = live
    BY <1>3 DEF Subscribe
  <2>3. todo[c].kind = "start" /\ todo[c].who = u
    <3>1. todo[c] = [kind |-> "start", who |-> u, arg |-> NoOne]
      BY <1>1, <2>1 DEF Known
    <3> QED
      BY <3>1
  <2>4. \A w \in Users : place[c][w] = "starting" => w = u
    <3> TAKE w \in Users
    <3> HAVE place[c][w] = "starting"
    <3>1. todo[c] = [kind |-> "start", who |-> w, arg |-> NoOne]
      BY <1>1 DEF Known
    <3> QED
      BY <2>3, <3>1
  <2>5. \A w \in Users : place'[c][w] \notin {"starting", "unbind"}
    BY <1>1, <2>1, <2>3, <2>4 DEF Known
  <2>6. \A w \in Users : w \in live[c] => place'[c][w] # "off"
    BY <1>1, <2>1 DEF Known
  <2>7. Known(c)'
    BY <2>1, <2>2, <2>5, <2>6, NothingKind DEF Known
  <2> QED
    BY <2>1, <2>2, <2>7, KnownFrame DEF ThreadsKnown
<1>4. CASE Receive(c, u) \/ PrintMessage(c, u)
  <2>1. /\ place[c][u] \in {"on", "printing"} /\ place'[c][u] \in {"on", "printing"}
        /\ \A d \in Clients, w \in Users : d # c \/ w # u => place'[d][w] = place[d][w]
    BY <1>4, ReceiveEffect, PrintEffect
  <2>2. live' = live /\ todo' = todo
    BY <1>4 DEF Receive, PrintMessage
  <2>3. Known(c)'
    BY <1>1, <2>1, <2>2 DEF Known
  <2> QED
    BY <2>1, <2>2, <2>3, KnownFrame DEF ThreadsKnown
<1>5. CASE StopConsuming(c, u)
  <2>1. /\ place'[c][u] = "unbind"
        /\ \A d \in Clients, w \in Users : d # c \/ w # u => place'[d][w] = place[d][w]
    BY <1>5, StopEffect
  <2>2. live' = live /\ todo' = todo /\ todo[c].kind \in {"stop", "exit"} /\ todo[c].who = u
    BY <1>5 DEF StopConsuming
  <2>3. Known(c)'
    BY <1>1, <2>1, <2>2 DEF Known
  <2> QED
    BY <2>1, <2>2, <2>3, KnownFrame DEF ThreadsKnown
<1>6. CASE Unbind(c, u)
  <2>1. /\ place[c][u] = "unbind" /\ place'[c][u] = "off"
        /\ \A d \in Clients, w \in Users : d # c \/ w # u => place'[d][w] = place[d][w]
        /\ \/ todo'[c] = Nothing
           \/ /\ todo[c].kind # "stop"
              /\ todo'[c] = [kind |-> "exit", who |-> NoOne, arg |-> NoOne]
        /\ \A d \in Clients : d # c => todo'[d] = todo[d]
    BY <1>6, UnbindEffect
  <2>2. live' = live
    BY <1>6 DEF Unbind
  <2>3. todo[c].kind \in {"stop", "exit"} /\ todo[c].who = u /\ u \notin live[c]
    BY <1>1, <2>1 DEF Known
  <2>4. todo'[c].kind \in {"none", "exit"} /\ (todo'[c].kind = "exit" => todo[c].kind = "exit")
    BY <2>1, <2>3, NothingKind
  <2>5. Known(c)'
    BY <1>1, <2>1, <2>2, <2>3, <2>4 DEF Known
  <2> QED
    BY <2>1, <2>2, <2>5, KnownFrame DEF ThreadsKnown
<1> QED
  BY <1>3, <1>4, <1>5, <1>6 DEF ThreadStep

LEMMA NextKnown ==
  ASSUME Typed, ThreadsKnown, [Next]_vars
  PROVE  ThreadsKnown'
<1>1. CASE UNCHANGED <<live, todo, place>>
  BY <1>1, KnownFrame DEF ThreadsKnown
<1>2. UNCHANGED vars => UNCHANGED <<live, todo, place>>
  BY DEF vars, thread
<1>3. ASSUME NEW c \in Clients, NEW u \in Users, NEW x \in Users \cup Groups, Post(c, u, x)
      PROVE  UNCHANGED <<live, todo, place>>
  BY <1>3 DEF Post, PutTask, thread
<1>4. ASSUME NEW s \in Servers, Publish(s) \/ Terminate(s) \/ Retire(s)
      PROVE  UNCHANGED <<live, todo, place>>
  BY <1>4 DEF Publish, Terminate, Retire, thread
<1>5. ASSUME NEW c \in Clients, Kill(c) PROVE ThreadsKnown'
  <2>1. /\ \A u \in Users : place'[c][u] = "off"
        /\ \A d \in Clients, u \in Users : d # c => place'[d][u] = place[d][u]
        /\ live'[c] = {} /\ \A d \in Clients : d # c => live'[d] = live[d]
        /\ todo'[c] = Nothing /\ \A d \in Clients : d # c => todo'[d] = todo[d]
    BY <1>5, KillEffect
  <2>2. Known(c)'
    BY <2>1, NothingKind DEF Known
  <2>3. \A d \in Clients : d # c => Known(d)'
    BY <2>1, KnownFrame DEF ThreadsKnown
  <2> QED
    BY <2>2, <2>3 DEF ThreadsKnown
<1> QED
  BY <1>1, <1>2, <1>3, <1>4, <1>5, StepCases, LoginKnown, MainKnown, ThreadKnown, Zenon

\* Only a login starts a thread, and notes when another client has one.
LEMMA NextOneClient ==
  ASSUME Typed, OneClient, [Next]_vars
  PROVE  OneClient'
<1>1. ASSUME shared \subseteq shared',
             \A c \in Clients, u \in Users : place'[c][u] # "off" => place[c][u] # "off"
      PROVE  OneClient'
  BY <1>1 DEF OneClient
<1>2. ASSUME UNCHANGED <<place, shared>> PROVE OneClient'
  BY <1>2 DEF OneClient
<1>3. ASSUME NEW c \in Clients, NEW u \in Users, Login(c, u) PROVE OneClient'
  <2>1. CASE place[c][u] # "off"
    BY <1>2, <1>3, <2>1 DEF Login, thread
  <2>2. CASE place[c][u] = "off"
    <3>1. /\ place' = [place EXCEPT ![c][u] = "starting"]
          /\ shared' = shared \cup {w \in {u} : \E d \in Clients : place[d][u] # "off"}
      BY <1>3, <2>2 DEF Login
    <3>2. \A d \in Clients, w \in Users : d # c \/ w # u => place'[d][w] = place[d][w]
      BY <3>1 DEF Typed, TypedClients
    <3>3. u \notin shared' => \A d \in Clients : place[d][u] = "off"
      BY <3>1
    <3>4. shared \subseteq shared'
      BY <3>1
    <3> QED
      BY <3>2, <3>3, <3>4 DEF OneClient
  <2> QED
    BY <2>1, <2>2
<1>4. ASSUME NEW c \in Clients, NEW u \in Users, ThreadStep(c, u) PROVE OneClient'
  <2>1. \A d \in Clients, w \in Users : place'[d][w] # "off" => place[d][w] # "off"
    <3>1. /\ place[c][u] # "off"
          /\ \A d \in Clients, w \in Users : d # c \/ w # u => place'[d][w] = place[d][w]
      <4>1. CASE Subscribe(c, u)
        BY <4>1, SubscribeEffect
      <4>2. CASE Receive(c, u)
        BY <4>2, ReceiveEffect
      <4>3. CASE PrintMessage(c, u)
        BY <4>3, PrintEffect
      <4>4. CASE StopConsuming(c, u)
        BY <4>4, StopEffect
      <4>5. CASE Unbind(c, u)
        BY <4>5, UnbindEffect
      <4> QED
        BY <1>4, <4>1, <4>2, <4>3, <4>4, <4>5 DEF ThreadStep
    <3> QED
      BY <3>1
  <2>2. shared' = shared
    BY <1>4 DEF ThreadStep, Subscribe, Receive, PrintMessage, StopConsuming, Unbind, history
  <2> QED
    BY <1>1, <2>1, <2>2
<1>5. ASSUME NEW c \in Clients, Kill(c) PROVE OneClient'
  <2>1. /\ \A u \in Users : place'[c][u] = "off"
        /\ \A d \in Clients, u \in Users : d # c => place'[d][u] = place[d][u]
    BY <1>5, KillEffect
  <2>2. shared' = shared
    BY <1>5 DEF Kill, history
  <2> QED
    BY <1>1, <2>1, <2>2
<1>6. ASSUME NEW c \in Clients, NEW u \in Users, NEW g \in Groups,
             JoinGroup(c, u, g)
      PROVE  UNCHANGED <<place, shared>>
  BY <1>6 DEF JoinGroup, thread, history
<1>7. ASSUME NEW c \in Clients,
             SubscribeGroup(c) \/ SubscribeFails(c) \/ Exit(c) \/ ExitNext(c)
      PROVE  UNCHANGED <<place, shared>>
  BY <1>7 DEF SubscribeGroup, SubscribeFails, Exit, ExitNext, thread, history
<1>8. ASSUME NEW c \in Clients, NEW u \in Users, NEW x \in Users \cup Groups, Post(c, u, x)
      PROVE  UNCHANGED <<place, shared>>
  BY <1>8 DEF Post, PutTask, thread
<1>9. ASSUME NEW s \in Servers, Publish(s) \/ Terminate(s) \/ Retire(s)
      PROVE  UNCHANGED <<place, shared>>
  BY <1>9 DEF Publish, Terminate, Retire, thread, history
<1>10. UNCHANGED vars => UNCHANGED <<place, shared>>
  BY DEF vars, thread, history
<1>11. ASSUME NEW c \in Clients, NEW u \in Users, Logout(c, u)
       PROVE  UNCHANGED <<place, shared>>
  BY <1>11 DEF Logout, thread, history
<1> QED
  BY <1>2, <1>3, <1>4, <1>5, <1>6, <1>7, <1>8, <1>9, <1>10, <1>11, StepCases, Zenon

----------------------------------------------------------------------------
(* The servers' threads find every exchange *)

\* A client that is not just subscribing to a group has declared them all.
LEMMA GroupsFrame ==
  ASSUME NEW c \in Clients, NEW u \in Users, GroupsKnown(c, u),
         member'[u] = member[u], exchange \subseteq exchange',
         todo'[c] = todo[c] \/ todo[c].kind # "subscribe",
         \/ place'[c][u] = place[c][u] /\ subs'[c][u] = subs[c][u]
         \/ place'[c][u] = "off"
         \/ /\ place[c][u] \notin {"off", "starting"}
            /\ place'[c][u] \notin {"off", "starting"}
  PROVE  GroupsKnown(c, u)'
<1> SUFFICES ASSUME NEW g \in member[u]
             PROVE  /\ place'[c][u] = "starting" => g \in subs'[c][u]
                    /\ place'[c][u] \notin {"off", "starting"} =>
                         \/ g \in exchange'
                         \/ todo'[c] = [kind |-> "subscribe", who |-> u, arg |-> g]
  BY DEF GroupsKnown
<1>1. todo[c] = [kind |-> "subscribe", who |-> u, arg |-> g] => todo[c].kind = "subscribe"
  OBVIOUS
<1>2. /\ place[c][u] = "starting" => g \in subs[c][u]
      /\ place[c][u] \notin {"off", "starting"} =>
           g \in exchange \/ todo[c] = [kind |-> "subscribe", who |-> u, arg |-> g]
  BY DEF GroupsKnown
<1> QED
  BY <1>1, <1>2

\* What has gone wrong stays wrong.
LEMMA FineBefore ==
  ASSUME Typed, [Next]_vars
  PROVE  shared \subseteq shared' /\ (Fine' => Fine)
<1>1. ASSUME NEW c \in Clients, NEW u \in Users, Login(c, u)
      PROVE  shared \subseteq shared' /\ skipped' = skipped
  <2>1. skipped' = skipped
    BY <1>1 DEF Login
  <2>2. CASE place[c][u] # "off"
    BY <1>1, <2>1, <2>2 DEF Login
  <2>3. CASE place[c][u] = "off"
    BY <1>1, <2>1, <2>3 DEF Login
  <2> QED
    BY <2>2, <2>3
<1>2. ASSUME NEW c \in Clients, NEW u \in Users, ThreadStep(c, u)
      PROVE  UNCHANGED <<shared, skipped>>
  BY <1>2 DEF ThreadStep, Subscribe, Receive, PrintMessage, StopConsuming, Unbind, history
<1>3. ASSUME NEW c \in Clients, NEW u \in Users, Logout(c, u)
      PROVE  UNCHANGED <<shared, skipped>>
  BY <1>3 DEF Logout, history
<1>4. ASSUME NEW c \in Clients, NEW u \in Users, NEW g \in Groups, JoinGroup(c, u, g)
      PROVE  UNCHANGED <<shared, skipped>>
  BY <1>4 DEF JoinGroup, history
<1>5. ASSUME NEW c \in Clients, SubscribeGroup(c) \/ Exit(c) \/ ExitNext(c) \/ Kill(c)
      PROVE  UNCHANGED <<shared, skipped>>
  BY <1>5 DEF SubscribeGroup, Exit, ExitNext, Kill, history
<1>6. ASSUME NEW c \in Clients, SubscribeFails(c) PROVE shared' = shared /\ skipped'
  BY <1>6 DEF SubscribeFails
<1>7. ASSUME NEW c \in Clients, NEW u \in Users, NEW x \in Users \cup Groups, Post(c, u, x)
      PROVE  UNCHANGED <<shared, skipped>>
  BY <1>7 DEF Post, PutTask
<1>8. ASSUME NEW s \in Servers, Publish(s) \/ Terminate(s) \/ Retire(s)
      PROVE  UNCHANGED <<shared, skipped>>
  BY <1>8 DEF Publish, Terminate, Retire, history
<1>9. UNCHANGED vars => UNCHANGED <<shared, skipped>>
  BY DEF vars, history
<1>10. shared \subseteq shared' /\ (skipped' = skipped \/ skipped')
  BY <1>1, <1>2, <1>3, <1>4, <1>5, <1>6, <1>7, <1>8, <1>9, StepCases
<1> QED
  BY <1>10 DEF Fine

LEMMA NextDeclared ==
  ASSUME Typed, ThreadsKnown, OneClient, TasksInOrder, Declared, [Next]_vars
  PROVE  Declared'
<1> DEFINE Groups1 == \A c \in Clients, u \in Users : GroupsKnown(c, u)
           Sent1 == \A i \in DOMAIN sent : sent[i].to \in Users \cup exchange
           Alive1 == \A s \in Servers \ terminated : amqp[s] = "on"
<1> SUFFICES ASSUME Fine, Fine', Groups1, Sent1, Alive1
             PROVE  Groups1' /\ Sent1' /\ Alive1'
  BY FineBefore DEF Declared
<1>1. /\ todo \in [Clients -> Duty] /\ subs \in [Clients -> [Users -> SUBSET Groups]]
      /\ place \in [Clients -> [Users -> Places]] /\ member \in [Users -> SUBSET Groups]
  BY DEF Typed, TypedServers, TypedClients
<1>2. ASSUME NEW c \in Clients, NEW u \in Users, todo[c] = Nothing,
             place[c][u] \notin {"off", "starting"}
      PROVE  member[u] \subseteq exchange
  <2> SUFFICES ASSUME NEW g \in member[u] PROVE g \in exchange
    OBVIOUS
  <2>1. todo[c] # [kind |-> "subscribe", who |-> u, arg |-> g]
    BY <1>2, NothingKind
  <2>2. GroupsKnown(c, u)
    OBVIOUS
  <2> QED
    BY <1>2, <2>1, <2>2 DEF GroupsKnown
<1>3. ASSUME exchange \subseteq exchange', UNCHANGED <<sent, amqp, terminated>>
      PROVE  Sent1' /\ Alive1'
  BY <1>3
<1> HIDE DEF Groups1, Sent1, Alive1
<1>4. ASSUME UNCHANGED <<member, exchange, todo, place, subs>> PROVE Groups1'
  BY <1>4 DEF Groups1, GroupsKnown
<1>5. CASE UNCHANGED vars
  BY <1>3, <1>4, <1>5 DEF vars, store, server, broker, thread, history
<1>6. ASSUME NEW c \in Clients, NEW u \in Users, Login(c, u)
      PROVE  Groups1' /\ Sent1' /\ Alive1'
  <2>1. UNCHANGED <<member, exchange, sent, amqp, terminated>>
    BY <1>6 DEF Login, server, broker
  <2>2. CASE place[c][u] # "off"
    BY <1>3, <1>4, <1>6, <2>1, <2>2 DEF Login, thread
  <2>3. CASE place[c][u] = "off"
    <3>1. /\ place' = [place EXCEPT ![c][u] = "starting"]
          /\ subs' = [subs EXCEPT ![c][u] = member[u]]
          /\ todo[c] = Nothing /\ Do(c, "start", u, NoOne)
      BY <1>6, <2>3 DEF Login, Ready
    <3>2. "start" \in Kinds /\ u \in Users \cup {NoOne} /\ NoOne \in Groups \cup {NoOne}
      BY DEF Kinds
    <3>3. \A d \in Clients : d # c => todo'[d] = todo[d]
      BY <1>1, <3>1, <3>2, DoTyped, Zenon
    <3>4. /\ place'[c][u] = "starting" /\ subs'[c][u] = member[u]
          /\ \A d \in Clients, w \in Users : d # c \/ w # u =>
               place'[d][w] = place[d][w] /\ subs'[d][w] = subs[d][w]
      BY <1>1, <3>1
    <3>5. GroupsKnown(c, u)'
      BY <2>1, <3>4 DEF GroupsKnown
    <3>6. ASSUME NEW d \in Clients, NEW w \in Users, d # c \/ w # u
          PROVE  GroupsKnown(d, w)'
      <4>1. todo'[d] = todo[d] \/ todo[d].kind # "subscribe"
        BY <3>1, <3>3, NothingKind
      <4>2. /\ GroupsKnown(d, w) /\ member'[w] = member[w] /\ exchange \subseteq exchange'
            /\ place'[d][w] = place[d][w] /\ subs'[d][w] = subs[d][w]
        BY <2>1, <3>4, <3>6 DEF Groups1
      <4> QED
        BY <4>1, <4>2, GroupsFrame
    <3> QED
      BY <1>3, <2>1, <3>5, <3>6 DEF Groups1
  <2> QED
    BY <2>2, <2>3
<1>7. ASSUME NEW c \in Clients, (\E u \in Users : Logout(c, u)) \/ Exit(c) \/ ExitNext(c)
      PROVE  Groups1' /\ Sent1' /\ Alive1'
  <2>1. /\ UNCHANGED <<member, exchange, sent, amqp, terminated, place, subs>>
        /\ todo[c].kind # "subscribe"
        /\ Done(c) \/ \E w \in Users \cup {NoOne}, kind \in Kinds : Do(c, kind, w, NoOne)
    <3>1. CASE \E u \in Users : Logout(c, u)
      <4>1. PICK u \in Users : Logout(c, u)
        BY <3>1
      <4>2. Do(c, "stop", u, NoOne) /\ "stop" \in Kinds
        BY <4>1 DEF Logout, Kinds
      <4> QED
        BY <4>1, <4>2, NothingKind DEF Logout, Ready, server, broker, thread, history
    <3>2. CASE Exit(c)
      <4>1. Do(c, "exit", NoOne, NoOne) /\ "exit" \in Kinds
        BY <3>2 DEF Exit, Kinds
      <4> QED
        BY <3>2, <4>1, NothingKind DEF Exit, Ready, store, server, broker, thread, history
    <3>3. CASE ExitNext(c)
      <4>1. Done(c) \/ \E w \in Users : Do(c, "exit", w, NoOne) /\ "exit" \in Kinds
        BY <3>3 DEF ExitNext, Kinds
      <4>2. todo[c].kind = "exit"
        BY <3>3 DEF ExitNext, Nothing
      <4> QED
        BY <3>3, <4>1, <4>2 DEF ExitNext, store, server, broker, thread, history
    <3> QED
      BY <1>7, <3>1, <3>2, <3>3
  <2>2. \A d \in Clients : d # c => todo'[d] = todo[d]
    <3>1. NoOne \in Groups \cup {NoOne}
      OBVIOUS
    <3> QED
      BY <1>1, <2>1, <3>1, DoTyped, DoneTyped, Zenon
  <2>3. ASSUME NEW d \in Clients, NEW w \in Users PROVE GroupsKnown(d, w)'
    <3>1. todo'[d] = todo[d] \/ todo[d].kind # "subscribe"
      BY <2>1, <2>2
    <3>2. /\ GroupsKnown(d, w) /\ member'[w] = member[w] /\ exchange \subseteq exchange'
          /\ place'[d][w] = place[d][w] /\ subs'[d][w] = subs[d][w]
      BY <2>1 DEF Groups1
    <3> QED
      BY <3>1, <3>2, GroupsFrame
  <2> QED
    BY <1>3, <2>1, <2>3 DEF Groups1
<1>8. ASSUME NEW c \in Clients, NEW u \in Users, NEW g \in Groups, JoinGroup(c, u, g)
      PROVE  Groups1' /\ Sent1' /\ Alive1'
  <2>1. /\ UNCHANGED <<exchange, sent, amqp, terminated, place, subs>>
        /\ todo[c] = Nothing /\ u \in live[c] /\ Do(c, "subscribe", u, g)
        /\ member' = [member EXCEPT ![u] = @ \cup {g}]
    BY <1>8 DEF JoinGroup, Ready, server, broker, thread, history
  <2>2. "subscribe" \in Kinds /\ u \in Users \cup {NoOne} /\ g \in Groups \cup {NoOne}
    BY DEF Kinds
  <2>3. /\ todo'[c] = [kind |-> "subscribe", who |-> u, arg |-> g]
        /\ \A d \in Clients : d # c => todo'[d] = todo[d]
    BY <1>1, <2>1, <2>2, DoTyped, Zenon
  <2>4. /\ member'[u] = member[u] \cup {g}
        /\ \A w \in Users : w # u => member'[w] = member[w]
    BY <1>1, <2>1
  <2>5. place[c][u] # "off" /\ place[c][u] # "starting"
    BY <2>1, ReadyKnown DEF ThreadsKnown, Known
  <2>6. GroupsKnown(c, u)'
    <3>1. member[u] \subseteq exchange
      BY <1>2, <2>1, <2>5
    <3> QED
      BY <2>1, <2>3, <2>4, <2>5, <3>1 DEF GroupsKnown
  <2>7. ASSUME NEW d \in Clients, d # c PROVE GroupsKnown(d, u)'
    <3>1. place[d][u] = "off"
      BY <2>5, <2>7 DEF OneClient, Fine
    <3> QED
      BY <2>1, <3>1 DEF GroupsKnown
  <2>8. ASSUME NEW d \in Clients, NEW w \in Users, w # u PROVE GroupsKnown(d, w)'
    <3>1. todo'[d] = todo[d] \/ todo[d].kind # "subscribe"
      BY <2>1, <2>3, NothingKind
    <3>2. /\ GroupsKnown(d, w) /\ member'[w] = member[w] /\ exchange \subseteq exchange'
          /\ place'[d][w] = place[d][w] /\ subs'[d][w] = subs[d][w]
      BY <2>1, <2>4, <2>8 DEF Groups1
    <3> QED
      BY <3>1, <3>2, GroupsFrame
  <2> QED
    BY <1>3, <2>1, <2>6, <2>7, <2>8 DEF Groups1
<1>9. ASSUME NEW c \in Clients, NEW u \in Users, NEW x \in Users \cup Groups, Post(c, u, x)
      PROVE  Groups1' /\ Sent1' /\ Alive1'
  <2>1. /\ UNCHANGED <<member, exchange, todo, place, subs, amqp, terminated>>
        /\ todo[c] = Nothing /\ u \in live[c]
        /\ x \in Users \/ x \in member[u]
        /\ sent' = Append(sent, [from |-> u, to |-> x, via |-> home[u]])
    BY <1>9 DEF Post, PutTask, Ready, store, broker, thread
  <2>2. todo[c] = Nothing /\ u \in live[c]
    BY <1>9 DEF Post, PutTask, Ready
  <2>3. x \in Users \cup exchange
    <3>1. place[c][u] # "off" /\ place[c][u] # "starting"
      BY <2>2, ReadyKnown DEF ThreadsKnown, Known
    <3>2. x \in Users \/ x \in member[u]
      BY <1>9 DEF Post
    <3> QED
      BY <1>2, <2>2, <3>1, <3>2
  <2>4. Sent1'
    <3>1. Len(sent) \in Nat /\ DOMAIN sent = 1..Len(sent) /\ sent \in Seq(Message)
      BY LenProperties DEF Typed, TypedServers
    <3>2. [from |-> u, to |-> x, via |-> home[u]] \in Message
      BY DEF Typed, TypedServers, Message
    <3> DEFINE message == [from |-> u, to |-> x, via |-> home[u]]
    <3>3. message.to = x
      OBVIOUS
    <3> HIDE DEF message
    <3>4. /\ sent' \in Seq(Message) /\ Len(sent') = Len(sent) + 1
          /\ \A i \in 1..Len(sent) : sent'[i] = sent[i]
          /\ sent'[Len(sent) + 1] = message
      BY <2>1, <3>1, <3>2, AppendProperties DEF message
    <3>5. DOMAIN sent' = 1..(Len(sent) + 1)
      BY <3>4, LenProperties
    <3>6. ASSUME NEW i \in DOMAIN sent' PROVE sent'[i].to \in Users \cup exchange
      BY <2>3, <3>1, <3>3, <3>4, <3>5 DEF Sent1
    <3> QED
      BY <2>1, <3>6 DEF Sent1
  <2>5. Alive1'
    BY <2>1 DEF Alive1
  <2> QED
    BY <1>4, <2>1, <2>4, <2>5
<1>10. ASSUME NEW c \in Clients, SubscribeGroup(c) PROVE Groups1' /\ Sent1' /\ Alive1'
  <2>1. /\ UNCHANGED <<member, sent, amqp, terminated, place>> /\ Done(c)
        /\ exchange' = exchange \cup {todo[c].arg}
        /\ subs' = [subs EXCEPT ![c][todo[c].who] = @ \cup {todo[c].arg}]
    BY <1>10 DEF SubscribeGroup, store, server, history
  <2>2. todo[c].who \in Users /\ todo[c].kind = "subscribe"
    BY <1>10 DEF SubscribeGroup, ThreadsKnown, Known
  <2>3. \A d \in Clients : d # c => todo'[d] = todo[d]
    BY <1>1, <2>1, DoneTyped, Zenon
  <2>4. \A d \in Clients, w \in Users : subs[d][w] \subseteq subs'[d][w]
    BY <1>1, <2>1
  <2>5. ASSUME NEW d \in Clients, NEW w \in Users, NEW g \in member[w]
        PROVE  /\ place[d][w] = "starting" => g \in subs'[d][w]
               /\ place[d][w] \notin {"off", "starting"} =>
                    \/ g \in exchange'
                    \/ todo'[d] = [kind |-> "subscribe", who |-> w, arg |-> g]
    <3>1. /\ place[d][w] = "starting" => g \in subs[d][w]
          /\ place[d][w] \notin {"off", "starting"} =>
               g \in exchange \/ todo[d] = [kind |-> "subscribe", who |-> w, arg |-> g]
      BY DEF Groups1, GroupsKnown
    <3>2. ASSUME todo[d] = [kind |-> "subscribe", who |-> w, arg |-> g]
          PROVE  g \in exchange' \/ todo'[d] = todo[d]
      <4>1. todo[d].arg = g
        BY <3>2
      <4> QED
        BY <2>1, <2>3, <4>1
    <3>3. exchange \subseteq exchange' /\ (g \in subs[d][w] => g \in subs'[d][w])
      BY <2>1, <2>4
    <3> QED
      BY <3>1, <3>2, <3>3, Zenon
  <2> QED
    BY <1>3, <2>1, <2>5 DEF Groups1, GroupsKnown
<1>11. ASSUME NEW c \in Clients, SubscribeFails(c) PROVE Groups1' /\ Sent1' /\ Alive1'
  BY <1>11 DEF SubscribeFails, Fine
<1>12. ASSUME NEW c \in Clients, Kill(c) PROVE Groups1' /\ Sent1' /\ Alive1'
  <2>1. UNCHANGED <<member, exchange, sent, amqp, terminated>>
    BY <1>12 DEF Kill, store, server, history
  <2>2. /\ \A w \in Users : place'[c][w] = "off"
        /\ \A d \in Clients : d # c => todo'[d] = todo[d]
        /\ \A d \in Clients, w \in Users : d # c => place'[d][w] = place[d][w]
        /\ \A d \in Clients, w \in Users : d # c => subs'[d][w] = subs[d][w]
    BY <1>12, KillEffect, Zenon
  <2>3. ASSUME NEW w \in Users PROVE GroupsKnown(c, w)'
    BY <2>2 DEF GroupsKnown
  <2>4. ASSUME NEW d \in Clients, NEW w \in Users, d # c PROVE GroupsKnown(d, w)'
    BY <2>1, <2>2, <2>4, GroupsFrame DEF Groups1
  <2> QED
    BY <1>3, <2>1, <2>3, <2>4 DEF Groups1
<1>13. ASSUME NEW c \in Clients, NEW u \in Users, ThreadStep(c, u)
       PROVE  Groups1' /\ Sent1' /\ Alive1'
  <2>1. /\ UNCHANGED <<member, sent, amqp, terminated>> /\ exchange \subseteq exchange'
    BY <1>13 DEF ThreadStep, Subscribe, Receive, PrintMessage, StopConsuming, Unbind,
       store, server, broker, history
  <2>2. CASE Subscribe(c, u)
    <3>1. /\ place[c][u] = "starting" /\ place'[c][u] = "on"
          /\ exchange' = exchange \cup subs[c][u]
          /\ \A d \in Clients, w \in Users : d # c \/ w # u => place'[d][w] = place[d][w]
          /\ \A d \in Clients : d # c => todo'[d] = todo[d]
      BY <2>2, SubscribeEffect
    <3>2. subs' = subs
      BY <2>2 DEF Subscribe
    <3>3. todo[c].kind # "subscribe"
      <4>1. todo[c] = [kind |-> "start", who |-> u, arg |-> NoOne]
        BY <3>1 DEF ThreadsKnown, Known
      <4> QED
        BY <4>1
    <3>4. GroupsKnown(c, u)'
      BY <2>1, <3>1 DEF Groups1, GroupsKnown
    <3>5. ASSUME NEW d \in Clients, NEW w \in Users, d # c \/ w # u
          PROVE  GroupsKnown(d, w)'
      <4>1. todo'[d] = todo[d] \/ todo[d].kind # "subscribe"
        BY <3>1, <3>3
      <4>2. /\ GroupsKnown(d, w) /\ member'[w] = member[w]
            /\ place'[d][w] = place[d][w] /\ subs'[d][w] = subs[d][w]
        BY <2>1, <3>1, <3>2, <3>5 DEF Groups1
      <4> QED
        BY <2>1, <4>1, <4>2, GroupsFrame
    <3> QED
      BY <1>3, <2>1, <3>4, <3>5 DEF Groups1
  <2>3. CASE ~Subscribe(c, u)
    <3>1. /\ \/ place'[c][u] = "off"
             \/ /\ place[c][u] \notin {"off", "starting"}
                /\ place'[c][u] \notin {"off", "starting"}
          /\ \A d \in Clients, w \in Users : d # c \/ w # u =>
               place'[d][w] = place[d][w] /\ subs'[d][w] = subs[d][w]
          /\ \A d \in Clients : todo'[d] = todo[d] \/ todo[d].kind # "subscribe"
      <4>1. CASE Receive(c, u)
        <5>1. UNCHANGED <<todo, subs>>
          BY <4>1 DEF Receive
        <5>2. /\ place[c][u] = "on" /\ place'[c][u] = "printing"
              /\ \A d \in Clients, w \in Users : d # c \/ w # u => place'[d][w] = place[d][w]
          BY <4>1, ReceiveEffect, Zenon
        <5> QED
          BY <5>1, <5>2
      <4>2. CASE PrintMessage(c, u)
        <5>1. UNCHANGED <<todo, subs>>
          BY <4>2 DEF PrintMessage
        <5>2. /\ place[c][u] = "printing" /\ place'[c][u] = "on"
              /\ \A d \in Clients, w \in Users : d # c \/ w # u => place'[d][w] = place[d][w]
          BY <4>2, PrintEffect, Zenon
        <5> QED
          BY <5>1, <5>2
      <4>3. CASE StopConsuming(c, u)
        <5>1. UNCHANGED <<todo, subs>>
          BY <4>3 DEF StopConsuming
        <5>2. /\ place[c][u] = "on" /\ place'[c][u] = "unbind"
              /\ \A d \in Clients, w \in Users : d # c \/ w # u => place'[d][w] = place[d][w]
          BY <4>3, StopEffect
        <5> QED
          BY <5>1, <5>2
      <4>4. CASE Unbind(c, u)
        <5>1. /\ place[c][u] = "unbind" /\ place'[c][u] = "off"
              /\ \A d \in Clients, w \in Users : d # c \/ w # u =>
                   place'[d][w] = place[d][w] /\ subs'[d][w] = subs[d][w]
              /\ \A d \in Clients : d # c => todo'[d] = todo[d]
          BY <4>4, UnbindEffect
        <5>2. todo[c].kind \in {"stop", "exit"}
          BY <5>1 DEF ThreadsKnown, Known
        <5> QED
          BY <5>1, <5>2
      <4> QED
        BY <1>13, <2>3, <4>1, <4>2, <4>3, <4>4 DEF ThreadStep
    <3>2. ASSUME NEW d \in Clients, NEW w \in Users PROVE GroupsKnown(d, w)'
      <4>1. GroupsKnown(d, w) /\ member'[w] = member[w]
        BY <2>1 DEF Groups1
      <4> QED
        BY <2>1, <3>1, <4>1, GroupsFrame
    <3> QED
      BY <1>3, <2>1, <3>2 DEF Groups1
  <2> QED
    BY <2>2, <2>3
<1>14. ASSUME NEW s \in Servers, Publish(s) PROVE Groups1' /\ Sent1' /\ Alive1'
  <2>1. /\ tasks[s] # <<>> /\ Delivered(Head(tasks[s]))
        /\ UNCHANGED <<store, terminated, exchange, todo, place, subs, history>>
    BY <1>14, PublishEffect
  <2>2. Head(tasks[s]) \in DOMAIN sent
    <3>1. tasks[s] \in Seq(Nat)
      BY DEF Typed, TypedServers
    <3>2. Head(tasks[s]) \in ToSet(tasks[s])
      BY <2>1, <3>1, TailInOrder
    <3> QED
      BY <3>2 DEF TasksInOrder
  <2>3. amqp' = amqp
    BY <2>1, <2>2 DEF Delivered, Sent1
  <2> QED
    BY <1>3, <1>4, <2>1, <2>3 DEF store, history
<1>15. ASSUME NEW s \in Servers, Retire(s) PROVE Groups1' /\ Sent1' /\ Alive1'
  <2>1. /\ amqp' = [amqp EXCEPT ![s] = "on"] /\ terminated' = terminated \ {s}
        /\ UNCHANGED <<member, exchange, todo, place, subs, sent>>
    BY <1>15 DEF Retire, store, broker, thread, history
  <2>2. Alive1'
    BY <2>1 DEF Typed, TypedServers, Alive1
  <2>3. Sent1'
    BY <2>1 DEF Sent1
  <2> QED
    BY <1>4, <2>1, <2>2, <2>3
<1>16. ASSUME NEW s \in Servers, Terminate(s) PROVE Groups1' /\ Sent1' /\ Alive1'
  <2>1. /\ amqp' = [amqp EXCEPT ![s] = "dead"] /\ terminated' = terminated \cup {s}
        /\ UNCHANGED <<member, exchange, todo, place, subs, sent>>
    BY <1>16 DEF Terminate, store, broker, thread, history
  <2>2. Alive1'
    BY <2>1 DEF Typed, TypedServers, Alive1
  <2>3. Sent1'
    BY <2>1 DEF Sent1
  <2> QED
    BY <1>4, <2>1, <2>2, <2>3
<1> QED
  BY <1>5, <1>6, <1>7, <1>8, <1>9, <1>10, <1>11, <1>12, <1>13, <1>14, <1>15, <1>16,
     StepCases, Zenon

----------------------------------------------------------------------------
(* The servers' queues *)

\* The order of messages does not depend on later ones.
LEMMA OrderGrows ==
  ASSUME NEW m, NEW n, NEW D, \A i \in D : n[i] = m[i]
  PROVE  /\ \A s : ToSet(s) \subseteq D /\ InOrder(m, s) => InOrder(n, s)
         /\ \A S, T : S \subseteq D /\ T \subseteq D /\ AllBefore(m, S, T) =>
              AllBefore(n, S, T)
<1>1. \A i, j \in D : Before(m, i, j) => Before(n, i, j)
  BY DEF Before
<1>2. ASSUME NEW s, ToSet(s) \subseteq D, InOrder(m, s) PROVE InOrder(n, s)
  <2>1. \A i \in DOMAIN s : s[i] \in D
    BY <1>2 DEF ToSet
  <2> QED
    BY <1>1, <1>2, <2>1 DEF InOrder
<1>3. ASSUME NEW S, NEW T, S \subseteq D, T \subseteq D, AllBefore(m, S, T)
      PROVE  AllBefore(n, S, T)
  BY <1>1, <1>3 DEF AllBefore
<1> QED
  BY <1>2, <1>3

\* An accepted message is the last one of all and of its server's queue.
LEMMA PostEffect ==
  ASSUME Typed, NEW c \in Clients, NEW u \in Users, NEW x \in Users \cup Groups,
         Post(c, u, x)
  PROVE  LET n == Len(sent) + 1 IN
           /\ n \in Nat /\ DOMAIN sent' = DOMAIN sent \cup {n}
           /\ \A i \in DOMAIN sent : i \in Nat /\ i < n /\ sent'[i] = sent[i]
           /\ \A s \in Servers :
                \/ tasks'[s] = tasks[s]
                \/ sent'[n].via = s /\ tasks'[s] = Append(tasks[s], n)
           /\ UNCHANGED <<got, queue, inbox, cur, place, shared>>
<1> DEFINE n == Len(sent) + 1
           message == [from |-> u, to |-> x, via |-> home[u]]
<1>1. /\ sent' = Append(sent, message) /\ tasks' = [tasks EXCEPT ![home[u]] = Append(@, n)]
      /\ UNCHANGED <<got, queue, inbox, cur, place, shared>>
  BY DEF Post, PutTask, broker, thread
<1>2. Len(sent) \in Nat /\ DOMAIN sent = 1..Len(sent) /\ sent \in Seq(Message)
  BY LenProperties DEF Typed, TypedServers
<1>3. message \in Message /\ message.via = home[u]
  BY DEF Typed, TypedServers, Message
<1> HIDE DEF message
<1>4. /\ sent' \in Seq(Message) /\ Len(sent') = Len(sent) + 1
      /\ \A i \in 1..Len(sent) : sent'[i] = sent[i]
      /\ sent'[Len(sent) + 1] = message
  BY <1>1, <1>2, <1>3, AppendProperties
<1>5. DOMAIN sent' = 1..n
  BY <1>4, LenProperties
<1>6. \A s \in Servers :
        \/ tasks'[s] = tasks[s]
        \/ home[u] = s /\ tasks'[s] = Append(tasks[s], n)
  <2>1. tasks \in [Servers -> Seq(Nat)]
    BY DEF Typed, TypedServers
  <2> HIDE DEF n
  <2> QED
    BY <1>1, <2>1
<1> QED
  BY <1>1, <1>2, <1>3, <1>4, <1>5, <1>6

LEMMA NextTasks ==
  ASSUME Typed, TasksInOrder, [Next]_vars
  PROVE  TasksInOrder'
<1>1. tasks \in [Servers -> Seq(Nat)]
  BY DEF Typed, TypedServers
<1>2. ASSUME UNCHANGED <<sent, tasks>> PROVE TasksInOrder'
  BY <1>2 DEF TasksInOrder
<1>3. ASSUME NEW c \in Clients, NEW u \in Users, NEW x \in Users \cup Groups, Post(c, u, x)
      PROVE  TasksInOrder'
  <2> DEFINE n == Len(sent) + 1
  <2>1. /\ n \in Nat /\ DOMAIN sent' = DOMAIN sent \cup {n}
        /\ \A i \in DOMAIN sent : i \in Nat /\ i < n /\ sent'[i] = sent[i]
        /\ \A s \in Servers :
             \/ tasks'[s] = tasks[s]
             \/ sent'[n].via = s /\ tasks'[s] = Append(tasks[s], n)
    BY <1>3, PostEffect
  <2> HIDE DEF n
  <2> SUFFICES ASSUME NEW s \in Servers
               PROVE  /\ ToSet(tasks'[s]) \subseteq DOMAIN sent'
                      /\ InOrder(sent', tasks'[s])
                      /\ \A i \in ToSet(tasks'[s]) : sent'[i].via = s
    BY DEF TasksInOrder
  <2>2. /\ ToSet(tasks[s]) \subseteq DOMAIN sent /\ InOrder(sent, tasks[s])
        /\ \A i \in ToSet(tasks[s]) : sent[i].via = s
    BY DEF TasksInOrder
  <2>3. InOrder(sent', tasks[s])
    BY <2>1, <2>2, OrderGrows
  <2>4. AllBefore(sent', ToSet(tasks[s]), {n})
    BY <2>1, <2>2 DEF AllBefore, Before
  <2>5. CASE tasks'[s] = tasks[s]
    BY <2>1, <2>2, <2>3, <2>5
  <2>6. CASE sent'[n].via = s /\ tasks'[s] = Append(tasks[s], n)
    <3>1. /\ ToSet(Append(tasks[s], n)) = ToSet(tasks[s]) \cup {n}
          /\ InOrder(sent', Append(tasks[s], n))
      <4> DEFINE m == sent'
      <4>1. InOrder(m, tasks[s]) /\ AllBefore(m, ToSet(tasks[s]), {n})
        BY <2>3, <2>4
      <4> HIDE DEF m
      <4>2. /\ ToSet(Append(tasks[s], n)) = ToSet(tasks[s]) \cup {n}
            /\ InOrder(m, Append(tasks[s], n))
        BY <1>1, <2>1, <4>1, AppendInOrder
      <4> QED
        BY <4>2 DEF m
    <3> QED
      BY <2>1, <2>2, <2>6, <3>1
  <2> QED
    BY <2>1, <2>5, <2>6
<1>4. ASSUME NEW s \in Servers, Publish(s) PROVE TasksInOrder'
  <2>1. /\ tasks[s] # <<>> /\ tasks' = [tasks EXCEPT ![s] = Tail(@)] /\ sent' = sent
    BY <1>4, PublishEffect DEF history
  <2>2. /\ ToSet(Tail(tasks[s])) \subseteq ToSet(tasks[s])
        /\ InOrder(sent, tasks[s]) => InOrder(sent, Tail(tasks[s]))
    BY <1>1, <2>1, TailInOrder
  <2>3. tasks'[s] = Tail(tasks[s]) /\ \A r \in Servers : r # s => tasks'[r] = tasks[r]
    BY <1>1, <2>1
  <2> QED
    BY <2>1, <2>2, <2>3 DEF TasksInOrder
<1>5. ASSUME NEW s \in Servers, Retire(s) PROVE TasksInOrder'
  <2>1. tasks' = [tasks EXCEPT ![s] = <<>>] /\ sent' = sent
    BY <1>5 DEF Retire, history
  <2>2. tasks'[s] = <<>> /\ \A r \in Servers : r # s => tasks'[r] = tasks[r]
    BY <1>1, <2>1
  <2>3. InOrder(sent, <<>>) /\ ToSet(<<>>) = {}
    BY NothingInOrder
  <2> QED
    BY <2>1, <2>2, <2>3 DEF TasksInOrder
<1>6. ASSUME NEW c \in Clients, NEW u \in Users, Login(c, u) PROVE UNCHANGED <<sent, tasks>>
  BY <1>6 DEF Login, server
<1>7. ASSUME NEW c \in Clients, NEW u \in Users, Logout(c, u) PROVE UNCHANGED <<sent, tasks>>
  BY <1>7 DEF Logout, server, history
<1>8. ASSUME NEW c \in Clients, NEW u \in Users, NEW g \in Groups, JoinGroup(c, u, g)
      PROVE  UNCHANGED <<sent, tasks>>
  BY <1>8 DEF JoinGroup, server, history
<1>9. ASSUME NEW c \in Clients, SubscribeGroup(c) \/ SubscribeFails(c) \/ Exit(c)
                                \/ ExitNext(c) \/ Kill(c)
      PROVE  UNCHANGED <<sent, tasks>>
  BY <1>9 DEF SubscribeGroup, SubscribeFails, Exit, ExitNext, Kill, server, history
<1>10. ASSUME NEW c \in Clients, NEW u \in Users, ThreadStep(c, u)
       PROVE  UNCHANGED <<sent, tasks>>
  BY <1>10 DEF ThreadStep, Subscribe, Receive, PrintMessage, StopConsuming, Unbind,
     server, history
<1>11. UNCHANGED vars => UNCHANGED <<sent, tasks>>
  BY DEF vars, server, history
<1>12. ASSUME NEW s \in Servers, Terminate(s) PROVE UNCHANGED <<sent, tasks>>
  BY <1>12 DEF Terminate, history
<1> QED
  BY <1>2, <1>3, <1>4, <1>5, <1>6, <1>7, <1>8, <1>9, <1>10, <1>11, <1>12, StepCases,
     Zenon

----------------------------------------------------------------------------
(* Where messages wait *)

LEMMA NextWaiting ==
  ASSUME Typed, Waiting, [Next]_vars
  PROVE  Waiting'
<1> DEFINE Rest(u) == /\ \A c \in Clients : c \notin Consumers(u) => inbox[c][u] = <<>>
                      /\ Consumers(u) # {} => queue[u] = <<>>
<1>1. \A u \in Users : Rest(u)
  BY DEF Waiting
<1>2. SUFFICES \A u \in Users : Rest(u)'
  BY DEF Waiting
<1>3. ASSUME NEW u \in Users, Consumers(u)' = Consumers(u), queue'[u] = queue[u],
             \A c \in Clients : inbox'[c][u] = inbox[c][u]
      PROVE  Rest(u)'
  BY <1>1, <1>3
<1>4. ASSUME NEW u \in Users, \A c \in Clients : place'[c][u] = place[c][u]
      PROVE  Consumers(u)' = Consumers(u)
  BY <1>4 DEF Consumers
<1>5. ASSUME UNCHANGED <<place, inbox, queue>> PROVE \A u \in Users : Rest(u)'
  BY <1>3, <1>4, <1>5
<1>6. ASSUME NEW c \in Clients, NEW u \in Users, Login(c, u)
      PROVE  \A w \in Users : Rest(w)'
  <2>1. UNCHANGED <<inbox, queue>>
    BY <1>6 DEF Login, broker, thread
  <2>2. ASSUME NEW w \in Users PROVE Consumers(w)' = Consumers(w)
    <3>1. CASE place[c][u] # "off"
      <4>1. place' = place
        BY <1>6, <3>1 DEF Login, thread
      <4> QED
        BY <4>1, <1>4
    <3>2. CASE place[c][u] = "off"
      <4>1. place' = [place EXCEPT ![c][u] = "starting"]
        BY <1>6, <3>2 DEF Login
      <4>2. \A d \in Clients : place'[d][w] \in {"on", "printing"} <=>
                               place[d][w] \in {"on", "printing"}
        BY <3>2, <4>1 DEF Typed, TypedClients
      <4> QED
        BY <4>2 DEF Consumers
    <3> QED
      BY <3>1, <3>2
  <2> QED
    BY <1>3, <2>1, <2>2
<1>7. ASSUME NEW s \in Servers, Publish(s) PROVE \A u \in Users : Rest(u)'
  <2>1. Delivered(Head(tasks[s])) /\ place' = place
    BY <1>7, PublishEffect
  <2>2. ASSUME NEW u \in Users PROVE Rest(u)'
    <3>1. Consumers(u)' = Consumers(u)
      BY <2>1, <1>4
    <3>2. /\ \A c \in Clients : inbox'[c][u] = inbox[c][u] \/ c \in Consumers(u)
          /\ queue'[u] = queue[u] \/ Consumers(u) = {}
      BY <2>1 DEF Delivered
    <3>3. Rest(u)
      BY <1>1
    <3> QED
      BY <3>1, <3>2, <3>3
  <2> QED
    BY <2>2
<1>8. ASSUME NEW c \in Clients, NEW u \in Users, ThreadStep(c, u)
      PROVE  \A w \in Users : Rest(w)'
  <2>1. CASE Subscribe(c, u)
    <3>1. /\ place'[c][u] = "on"
          /\ \A d \in Clients, w \in Users : d # c \/ w # u => place'[d][w] = place[d][w]
          /\ queue'[u] = <<>> /\ \A w \in Users : w # u => queue'[w] = queue[w]
          /\ \A d \in Clients, w \in Users : d # c \/ w # u => inbox'[d][w] = inbox[d][w]
      BY <2>1, SubscribeEffect
    <3>2. Consumers(u)' = Consumers(u) \cup {c}
      BY <3>1 DEF Consumers
    <3>3. Rest(u)'
      BY <1>1, <3>1, <3>2
    <3>4. ASSUME NEW w \in Users, w # u PROVE Rest(w)'
      BY <1>3, <1>4, <3>1, <3>4
    <3> QED
      BY <3>3, <3>4
  <2>2. CASE Receive(c, u)
    <3>1. /\ place[c][u] = "on" /\ place'[c][u] = "printing"
          /\ \A d \in Clients, w \in Users : d # c \/ w # u => place'[d][w] = place[d][w]
      BY <2>2, ReceiveEffect
    <3>2. \A d \in Clients, w \in Users : d # c \/ w # u => inbox'[d][w] = inbox[d][w]
      BY <2>2, ReceiveEffect
    <3>3. queue' = queue
      BY <2>2 DEF Receive, broker
    <3>4. Consumers(u)' = Consumers(u) /\ c \in Consumers(u)
      BY <3>1 DEF Consumers
    <3>5. Rest(u)'
      BY <1>1, <3>2, <3>3, <3>4
    <3>6. ASSUME NEW w \in Users, w # u PROVE Rest(w)'
      BY <1>3, <1>4, <3>1, <3>2, <3>3, <3>6
    <3> QED
      BY <3>5, <3>6
  <2>3. CASE PrintMessage(c, u)
    <3>1. /\ place[c][u] = "printing" /\ place'[c][u] = "on"
          /\ \A d \in Clients, w \in Users : d # c \/ w # u => place'[d][w] = place[d][w]
      BY <2>3, PrintEffect
    <3>2. UNCHANGED <<queue, inbox>>
      BY <2>3 DEF PrintMessage, broker
    <3>3. ASSUME NEW w \in Users PROVE Consumers(w)' = Consumers(w)
      BY <3>1 DEF Consumers
    <3> QED
      BY <1>3, <3>2, <3>3
  <2>4. CASE StopConsuming(c, u)
    <3>1. /\ place'[c][u] = "unbind"
          /\ \A d \in Clients, w \in Users : d # c \/ w # u => place'[d][w] = place[d][w]
          /\ \A w \in Users : w # u =>
               queue'[w] = queue[w] /\ \A d \in Clients : inbox'[d][w] = inbox[d][w]
          /\ inbox'[c][u] = <<>>
      BY <2>4, StopEffect
    <3>2. Consumers(u)' = Consumers(u) \ {c}
      BY <3>1 DEF Consumers
    <3>3. \/ Consumers(u) = {c} /\ \A d \in Clients : d # c => inbox'[d][u] = inbox[d][u]
          \/ /\ queue' = queue
             /\ \A e \in Clients \ {c} :
                  e \notin Consumers(u) => inbox'[e][u] = inbox[e][u]
      BY <2>4, StopEffect
    <3>4. Rest(u)'
      BY <1>1, <3>1, <3>2, <3>3
    <3>5. ASSUME NEW w \in Users, w # u PROVE Rest(w)'
      BY <1>3, <1>4, <3>1, <3>5
    <3> QED
      BY <3>4, <3>5
  <2>5. CASE Unbind(c, u)
    <3>1. /\ place[c][u] = "unbind" /\ place'[c][u] = "off"
          /\ \A d \in Clients, w \in Users : d # c \/ w # u => place'[d][w] = place[d][w]
      BY <2>5, UnbindEffect
    <3>2. UNCHANGED <<queue, inbox>>
      BY <2>5 DEF Unbind
    <3>3. ASSUME NEW w \in Users PROVE Consumers(w)' = Consumers(w)
      BY <3>1 DEF Consumers
    <3> QED
      BY <1>3, <3>2, <3>3
  <2> QED
    BY <1>8, <2>1, <2>2, <2>3, <2>4, <2>5 DEF ThreadStep
<1>9. ASSUME NEW c \in Clients, Kill(c) PROVE \A u \in Users : Rest(u)'
  <2> TAKE u \in Users
  <2>1. /\ place'[c][u] = "off" /\ \A d \in Clients : d # c => place'[d][u] = place[d][u]
        /\ inbox'[c][u] = <<>>
        /\ \A d \in Clients \ {c} : d \notin Consumers(u) => inbox'[d][u] = inbox[d][u]
        /\ Consumers(u) # {c} => queue'[u] = queue[u]
    <3>1. /\ \A w \in Users : place'[c][w] = "off"
          /\ \A d \in Clients, w \in Users : d # c => place'[d][w] = place[d][w]
      BY <1>9, KillEffect
    <3>2. /\ inbox'[c][u] = <<>>
          /\ \A d \in Clients \ {c} :
               \/ inbox'[d][u] = inbox[d][u]
               \/ /\ d \in Consumers(u)
                  /\ inbox'[d][u] = inbox[d][u] \o Private(inbox[c][u])
          /\ queue'[u] = IF Consumers(u) = {c} THEN Private(inbox[c][u]) ELSE queue[u]
      BY <1>9, KillEffect
    <3> QED
      BY <3>1, <3>2
  <2>2. Consumers(u)' = Consumers(u) \ {c}
    BY <2>1 DEF Consumers
  <2> QED
    BY <1>1, <2>1, <2>2
<1>10. ASSUME NEW c \in Clients, NEW u \in Users, Logout(c, u)
       PROVE  UNCHANGED <<place, inbox, queue>>
  BY <1>10 DEF Logout, broker, thread
<1>11. ASSUME NEW c \in Clients, NEW u \in Users, NEW g \in Groups, JoinGroup(c, u, g)
       PROVE  UNCHANGED <<place, inbox, queue>>
  BY <1>11 DEF JoinGroup, broker, thread
<1>12. ASSUME NEW c \in Clients, SubscribeGroup(c) \/ SubscribeFails(c) \/ Exit(c) \/ ExitNext(c)
       PROVE  UNCHANGED <<place, inbox, queue>>
  BY <1>12 DEF SubscribeGroup, SubscribeFails, Exit, ExitNext, broker, thread
<1>13. ASSUME NEW c \in Clients, NEW u \in Users, NEW x \in Users \cup Groups, Post(c, u, x)
       PROVE  UNCHANGED <<place, inbox, queue>>
  BY <1>13, PostEffect
<1>14. ASSUME NEW s \in Servers, Terminate(s) \/ Retire(s)
       PROVE  UNCHANGED <<place, inbox, queue>>
  BY <1>14 DEF Terminate, Retire, broker, thread
<1>15. UNCHANGED vars => UNCHANGED <<place, inbox, queue>>
  BY DEF vars, broker, thread
<1> HIDE DEF Rest
<1> QED
  BY <1>5, <1>6, <1>7, <1>8, <1>9, <1>10, <1>11, <1>12, <1>13, <1>14, <1>15, StepCases, Zenon

----------------------------------------------------------------------------
(* The messages that have come to a user *)

\* A user who has not been shared has one client only.
LEMMA Alone ==
  ASSUME OneClient, Waiting, NEW u \in Users \ shared, NEW c \in Clients,
         place[c][u] # "off"
  PROVE  \A d \in Clients : d # c =>
           /\ place[d][u] = "off" /\ d \notin Consumers(u) /\ inbox[d][u] = <<>>
           /\ InHand(d, u) = {} /\ Held(d, u) = {}
<1> SUFFICES ASSUME NEW d \in Clients, d # c
             PROVE  /\ place[d][u] = "off" /\ d \notin Consumers(u)
                    /\ inbox[d][u] = <<>> /\ InHand(d, u) = {} /\ Held(d, u) = {}
  OBVIOUS
<1>1. place[d][u] = "off"
  BY DEF OneClient
<1>2. d \notin Consumers(u) /\ InHand(d, u) = {}
  BY <1>1 DEF Consumers, InHand
<1>3. inbox[d][u] = <<>>
  BY <1>2 DEF Waiting
<1>4. Held(d, u) = {}
  BY <1>2, <1>3, NothingInOrder DEF Held
<1> QED
  BY <1>1, <1>2, <1>3, <1>4

\* Nothing happens to u's messages, though servers may drop theirs.
LEMMA FlowFrame ==
  ASSUME NEW u \in Users, Flow(u), sent' = sent, got'[u] = got[u], queue'[u] = queue[u],
         \A c \in Clients : inbox'[c][u] = inbox[c][u] /\ InHand(c, u)' = InHand(c, u),
         \A s \in Servers : ToSet(tasks'[s]) \subseteq ToSet(tasks[s])
  PROVE  Flow(u)'
<1>1. ASSUME NEW S, Out(S)
      PROVE  /\ S \subseteq DOMAIN sent
             /\ \A s \in Servers : AllBefore(sent, S, ToSet(tasks'[s]))
  BY <1>1 DEF Out, AllBefore
<1>2. \A c \in Clients : Held(c, u)' = Held(c, u)
  BY DEF Held
<1> QED
  BY <1>1, <1>2 DEF Flow, Out

\* The thread that has u's messages changes, not the others.
LEMMA FlowOne ==
  ASSUME NEW u \in Users, Flow(u), NEW c \in Clients, UNCHANGED <<sent, tasks>>,
         InOrder(sent, got'[u]), Out(ToSet(got'[u])),
         InOrder(sent, queue'[u]), Out(ToSet(queue'[u])),
         AllBefore(sent, ToSet(got'[u]), ToSet(queue'[u])),
         InOrder(sent, inbox'[c][u]), Out(Held(c, u)'),
         AllBefore(sent, ToSet(got'[u]), Held(c, u)'),
         AllBefore(sent, InHand(c, u)', ToSet(inbox'[c][u])),
         \A d \in Clients : d # c =>
           /\ inbox'[d][u] = inbox[d][u] /\ InHand(d, u)' = InHand(d, u)
           /\ got'[u] = got[u] \/ Held(d, u) = {}
  PROVE  Flow(u)'
<1>1. ASSUME NEW S, Out(S)
      PROVE  S \subseteq DOMAIN sent /\ \A s \in Servers : AllBefore(sent, S, ToSet(tasks[s]))
  BY <1>1 DEF Out
<1>2. ASSUME NEW d \in Clients, d # c
      PROVE  /\ InOrder(sent, inbox[d][u]) /\ Out(Held(d, u)) /\ Held(d, u)' = Held(d, u)
             /\ AllBefore(sent, ToSet(got'[u]), Held(d, u))
             /\ AllBefore(sent, InHand(d, u), ToSet(inbox[d][u]))
  <2>1. Held(d, u)' = Held(d, u)
    BY <1>2 DEF Held
  <2>2. AllBefore(sent, ToSet(got'[u]), {})
    BY DEF AllBefore
  <2>3. AllBefore(sent, ToSet(got'[u]), Held(d, u))
    BY <1>2, <2>2 DEF Flow
  <2> QED
    BY <2>1, <2>3 DEF Flow
<1> QED
  BY <1>1, <1>2 DEF Flow, Out

\* A new message goes behind everything.
LEMMA PostFlow ==
  ASSUME Typed, TasksInOrder, NEW c \in Clients, NEW w \in Users,
         NEW x \in Users \cup Groups, Post(c, w, x), NEW u \in Users, Flow(u)
  PROVE  Flow(u)'
<1> DEFINE n == Len(sent) + 1
<1>1. /\ n \in Nat /\ DOMAIN sent' = DOMAIN sent \cup {n}
      /\ \A i \in DOMAIN sent : i \in Nat /\ i < n /\ sent'[i] = sent[i]
      /\ \A s \in Servers :
           \/ tasks'[s] = tasks[s]
           \/ sent'[n].via = s /\ tasks'[s] = Append(tasks[s], n)
      /\ UNCHANGED <<got, queue, inbox, cur, place>>
  BY PostEffect
<1> HIDE DEF n
<1>2. \A d \in Clients : Held(d, u)' = Held(d, u) /\ InHand(d, u)' = InHand(d, u)
  BY <1>1 DEF Held, InHand
<1>3. /\ \A s : ToSet(s) \subseteq DOMAIN sent /\ InOrder(sent, s) => InOrder(sent', s)
      /\ \A S, T : S \subseteq DOMAIN sent /\ T \subseteq DOMAIN sent /\ AllBefore(sent, S, T)
                   => AllBefore(sent', S, T)
  BY <1>1, OrderGrows
<1>4. ASSUME NEW S, Out(S)
      PROVE  /\ S \subseteq DOMAIN sent'
             /\ \A s \in Servers : AllBefore(sent', S, ToSet(tasks'[s]))
  <2>1. S \subseteq DOMAIN sent'
    BY <1>1, <1>4 DEF Out
  <2>2. ASSUME NEW s \in Servers PROVE AllBefore(sent', S, ToSet(tasks'[s]))
    <3>1. ToSet(tasks[s]) \subseteq DOMAIN sent
      BY DEF TasksInOrder
    <3>2. AllBefore(sent', S, ToSet(tasks[s]))
      BY <1>3, <1>4, <3>1 DEF Out
    <3>3. \A i \in S : Before(sent', i, n)
      BY <1>1, <1>4 DEF Out, Before
    <3>4. ToSet(tasks'[s]) \subseteq ToSet(tasks[s]) \cup {n}
      <4>1. ToSet(Append(tasks[s], n)) = ToSet(tasks[s]) \cup {n}
        BY <1>1, AppendInOrder DEF Typed, TypedServers
      <4> QED
        BY <1>1, <4>1
    <3> QED
      BY <3>2, <3>3, <3>4 DEF AllBefore
  <2> QED
    BY <2>1, <2>2
<1>5. /\ ToSet(got[u]) \subseteq DOMAIN sent /\ ToSet(queue[u]) \subseteq DOMAIN sent
      /\ \A d \in Clients : Held(d, u) \subseteq DOMAIN sent
  BY DEF Flow, Out
<1>6. \A d \in Clients : /\ ToSet(inbox[d][u]) \subseteq Held(d, u)
                         /\ InHand(d, u) \subseteq Held(d, u)
  BY DEF Held
<1>7. /\ InOrder(sent', got[u]) /\ InOrder(sent', queue[u])
      /\ AllBefore(sent', ToSet(got[u]), ToSet(queue[u]))
  BY <1>3, <1>5 DEF Flow
<1>8. ASSUME NEW d \in Clients
      PROVE  /\ InOrder(sent', inbox[d][u])
             /\ AllBefore(sent', ToSet(got[u]), Held(d, u))
             /\ AllBefore(sent', InHand(d, u), ToSet(inbox[d][u]))
  <2>1. /\ ToSet(inbox[d][u]) \subseteq DOMAIN sent /\ InHand(d, u) \subseteq DOMAIN sent
        /\ Held(d, u) \subseteq DOMAIN sent
    BY <1>5, <1>6
  <2> QED
    BY <1>3, <1>5, <2>1 DEF Flow
<1>9. /\ Out(ToSet(got[u])) /\ Out(ToSet(queue[u])) /\ \A d \in Clients : Out(Held(d, u))
  BY DEF Flow
<1> QED
  BY <1>1, <1>2, <1>4, <1>7, <1>8, <1>9 DEF Flow, Out

\* A published message goes behind what has come and before what is to come.
LEMMA PublishFlow ==
  ASSUME Typed, TasksInOrder, Waiting, NEW s \in Servers, Publish(s),
         NEW u \in Users, Flow(u)
  PROVE  Flow(u)'
<1> DEFINE id == Head(tasks[s])
<1>1. /\ tasks[s] # <<>> /\ id \in Nat /\ tasks' = [tasks EXCEPT ![s] = Tail(@)]
      /\ Delivered(id) /\ UNCHANGED <<sent, got, cur, place>>
  BY PublishEffect DEF history
<1>2. /\ tasks[s] \in Seq(Nat) /\ queue[u] \in Seq(Nat)
      /\ \A c \in Clients : inbox[c][u] \in Seq(Nat)
      /\ tasks \in [Servers -> Seq(Nat)]
  BY DEF Typed, TypedServers, TypedClients
<1>3. /\ id \in ToSet(tasks[s]) /\ ToSet(Tail(tasks[s])) \subseteq ToSet(tasks[s])
      /\ AllBefore(sent, {id}, ToSet(Tail(tasks[s])))
  BY <1>1, <1>2, TailInOrder DEF TasksInOrder
<1> HIDE DEF id
<1>4. /\ tasks'[s] = Tail(tasks[s]) /\ \A r \in Servers : r # s => tasks'[r] = tasks[r]
  BY <1>1, <1>2
<1>5. \A r \in Servers : ToSet(tasks'[r]) \subseteq ToSet(tasks[r])
  BY <1>3, <1>4
<1>6. id \in DOMAIN sent /\ sent[id].via = s
  BY <1>3 DEF TasksInOrder
<1>7. \A r \in Servers : AllBefore(sent, {id}, ToSet(tasks'[r]))
  <2> TAKE r \in Servers
  <2>1. CASE r = s
    BY <1>3, <1>4, <2>1
  <2>2. CASE r # s
    BY <1>4, <1>6, <2>2 DEF TasksInOrder, AllBefore, Before
  <2> QED
    BY <2>1, <2>2
<1>8. ASSUME NEW S, Out(S)
      PROVE  /\ AllBefore(sent, S, {id}) /\ S \cup {id} \subseteq DOMAIN sent
             /\ \A r \in Servers : /\ AllBefore(sent, S, ToSet(tasks'[r]))
                                   /\ AllBefore(sent, S \cup {id}, ToSet(tasks'[r]))
  <2>1. AllBefore(sent, S, {id}) /\ S \cup {id} \subseteq DOMAIN sent
    BY <1>3, <1>6, <1>8 DEF Out, AllBefore
  <2>2. \A r \in Servers : AllBefore(sent, S, ToSet(tasks'[r]))
    BY <1>5, <1>8 DEF Out, AllBefore
  <2> QED
    BY <1>7, <2>1, <2>2 DEF AllBefore
<1>9. /\ InOrder(sent, queue'[u]) /\ ToSet(queue'[u]) \subseteq ToSet(queue[u]) \cup {id}
  <2>1. queue'[u] = queue[u] \/ queue'[u] = Append(queue[u], id)
    BY <1>1 DEF Delivered
  <2>2. CASE queue'[u] = queue[u]
    BY <2>2 DEF Flow
  <2>3. CASE queue'[u] = Append(queue[u], id)
    <3>1. InOrder(sent, queue[u]) /\ AllBefore(sent, ToSet(queue[u]), {id})
      BY <1>8 DEF Flow
    <3> QED
      BY <1>1, <1>2, <2>3, <3>1, AppendInOrder
  <2> QED
    BY <2>1, <2>2, <2>3
<1>10. ASSUME NEW c \in Clients
       PROVE  /\ InOrder(sent, inbox'[c][u])
              /\ ToSet(inbox'[c][u]) \subseteq ToSet(inbox[c][u]) \cup {id}
  <2>1. inbox'[c][u] = inbox[c][u] \/ inbox'[c][u] = Append(inbox[c][u], id)
    BY <1>1 DEF Delivered
  <2>2. CASE inbox'[c][u] = inbox[c][u]
    BY <2>2 DEF Flow
  <2>3. CASE inbox'[c][u] = Append(inbox[c][u], id)
    <3>1. InOrder(sent, inbox[c][u]) /\ AllBefore(sent, Held(c, u), {id})
      BY <1>8 DEF Flow
    <3>2. AllBefore(sent, ToSet(inbox[c][u]), {id})
      BY <3>1 DEF AllBefore, Held
    <3> QED
      BY <1>1, <1>2, <2>3, <3>1, <3>2, AppendInOrder
  <2> QED
    BY <2>1, <2>2, <2>3
<1>11. AllBefore(sent, ToSet(got[u]), ToSet(queue'[u]))
  <2>1. AllBefore(sent, ToSet(got[u]), ToSet(queue[u])) /\ AllBefore(sent, ToSet(got[u]), {id})
    BY <1>8 DEF Flow
  <2> QED
    BY <1>9, <2>1 DEF AllBefore
<1>12. ASSUME NEW c \in Clients
       PROVE  /\ InHand(c, u)' = InHand(c, u) /\ Held(c, u)' \subseteq Held(c, u) \cup {id}
              /\ AllBefore(sent, ToSet(got[u]), Held(c, u)')
              /\ AllBefore(sent, InHand(c, u), ToSet(inbox'[c][u]))
  <2>1. InHand(c, u)' = InHand(c, u)
    BY <1>1 DEF InHand
  <2>2. Held(c, u)' \subseteq Held(c, u) \cup {id}
    BY <1>10, <2>1 DEF Held
  <2>3. /\ AllBefore(sent, ToSet(got[u]), Held(c, u)) /\ AllBefore(sent, ToSet(got[u]), {id})
        /\ AllBefore(sent, InHand(c, u), ToSet(inbox[c][u])) /\ AllBefore(sent, Held(c, u), {id})
    BY <1>8 DEF Flow
  <2>4. AllBefore(sent, InHand(c, u), {id})
    BY <2>3 DEF AllBefore, Held
  <2>5. AllBefore(sent, ToSet(got[u]), Held(c, u)')
    BY <2>2, <2>3 DEF AllBefore
  <2>6. AllBefore(sent, InHand(c, u), ToSet(inbox'[c][u]))
    BY <1>10, <2>3, <2>4 DEF AllBefore
  <2> QED
    BY <2>1, <2>2, <2>5, <2>6
<1>13. ASSUME NEW S, NEW T, Out(S), T \subseteq S \cup {id}
       PROVE  T \subseteq DOMAIN sent /\ \A r \in Servers : AllBefore(sent, T, ToSet(tasks'[r]))
  BY <1>8, <1>13 DEF AllBefore
<1>14. /\ InOrder(sent, got[u]) /\ Out(ToSet(got[u])) /\ Out(ToSet(queue[u]))
       /\ \A c \in Clients : Out(Held(c, u))
  BY DEF Flow
<1>15. /\ Out(ToSet(got[u]))' /\ Out(ToSet(queue[u]))'
  BY <1>1, <1>9, <1>13, <1>14 DEF Out
<1>16. \A c \in Clients : Out(Held(c, u))'
  BY <1>1, <1>12, <1>13, <1>14 DEF Out
<1> QED
  BY <1>1, <1>9, <1>10, <1>11, <1>12, <1>14, <1>15, <1>16 DEF Flow

\* Parts of what is before the servers' tasks are before them.
LEMMA OutParts ==
  ASSUME NEW S, Out(S)
  PROVE  \A T : T \subseteq S => Out(T)
BY DEF Out, AllBefore

\* A thread's steps for one who has not been shared.
LEMMA ThreadFlow ==
  ASSUME Typed, OneClient, Waiting, NEW c \in Clients, NEW u \in Users \ shared,
         ThreadStep(c, u), Flow(u)
  PROVE  Flow(u)'
<1>1. /\ queue \in [Users -> Seq(Nat)] /\ queue[u] \in Seq(Nat)
      /\ inbox[c][u] \in Seq(Nat) /\ got[u] \in Seq(Nat)
  BY DEF Typed, TypedServers, TypedClients
<1>2. /\ InOrder(sent, got[u]) /\ Out(ToSet(got[u]))
      /\ InOrder(sent, queue[u]) /\ Out(ToSet(queue[u]))
      /\ AllBefore(sent, ToSet(got[u]), ToSet(queue[u]))
      /\ InOrder(sent, inbox[c][u]) /\ Out(Held(c, u))
      /\ AllBefore(sent, ToSet(got[u]), Held(c, u))
      /\ AllBefore(sent, InHand(c, u), ToSet(inbox[c][u]))
  BY DEF Flow
<1>3. /\ InOrder(sent, <<>>) /\ ToSet(<<>>) = {} /\ Out({})
      /\ \A S : AllBefore(sent, S, {}) /\ AllBefore(sent, {}, S)
  BY NothingInOrder DEF Out, AllBefore
<1>4. CASE Subscribe(c, u)
  <2>1. /\ place[c][u] = "starting" /\ place'[c][u] = "on"
        /\ \A d \in Clients, w \in Users : d # c \/ w # u => place'[d][w] = place[d][w]
        /\ queue'[u] = <<>> /\ inbox'[c][u] = queue[u]
        /\ \A d \in Clients, w \in Users : d # c \/ w # u => inbox'[d][w] = inbox[d][w]
    BY <1>4, SubscribeEffect
  <2>2. UNCHANGED <<sent, tasks, got, cur>>
    BY <1>4 DEF Subscribe, server, history
  <2>3. \A d \in Clients : d # c => InHand(d, u)' = InHand(d, u)
    BY <2>1, <2>2 DEF InHand
  <2>4. InHand(c, u)' = {} /\ Held(c, u)' = ToSet(queue[u])
    BY <2>1 DEF InHand, Held
  <2>5. /\ InOrder(sent, got'[u]) /\ Out(ToSet(got'[u]))
        /\ InOrder(sent, queue'[u]) /\ Out(ToSet(queue'[u]))
        /\ AllBefore(sent, ToSet(got'[u]), ToSet(queue'[u]))
    BY <1>2, <1>3, <2>1, <2>2
  <2>6. /\ InOrder(sent, inbox'[c][u]) /\ Out(Held(c, u)')
        /\ AllBefore(sent, ToSet(got'[u]), Held(c, u)')
        /\ AllBefore(sent, InHand(c, u)', ToSet(inbox'[c][u]))
    BY <1>2, <1>3, <2>1, <2>2, <2>4
  <2> QED
    BY <2>1, <2>2, <2>3, <2>5, <2>6, FlowOne
<1>5. CASE Receive(c, u)
  <2>1. /\ place[c][u] = "on" /\ place'[c][u] = "printing"
        /\ \A d \in Clients, w \in Users : d # c \/ w # u => place'[d][w] = place[d][w]
        /\ inbox[c][u] # <<>> /\ cur'[c][u] = Head(inbox[c][u])
        /\ inbox'[c][u] = Tail(inbox[c][u])
        /\ \A d \in Clients, w \in Users : d # c \/ w # u =>
             inbox'[d][w] = inbox[d][w] /\ cur'[d][w] = cur[d][w]
    BY <1>5, ReceiveEffect
  <2>2. UNCHANGED <<sent, tasks, got, queue>>
    BY <1>5 DEF Receive, server, broker, history
  <2>3. \A d \in Clients : d # c => InHand(d, u)' = InHand(d, u)
    BY <2>1 DEF InHand
  <2>4. InHand(c, u) = {} /\ InHand(c, u)' = {Head(inbox[c][u])}
    BY <2>1 DEF InHand
  <2>5. /\ ToSet(inbox[c][u]) = {Head(inbox[c][u])} \cup ToSet(Tail(inbox[c][u]))
        /\ InOrder(sent, Tail(inbox[c][u]))
        /\ AllBefore(sent, {Head(inbox[c][u])}, ToSet(Tail(inbox[c][u])))
    BY <1>1, <1>2, <2>1, TailInOrder
  <2>6. Held(c, u)' = Held(c, u)
    BY <2>1, <2>4, <2>5 DEF Held
  <2>7. /\ InOrder(sent, inbox'[c][u]) /\ Out(Held(c, u)')
        /\ AllBefore(sent, ToSet(got'[u]), Held(c, u)')
        /\ AllBefore(sent, InHand(c, u)', ToSet(inbox'[c][u]))
    BY <1>2, <2>1, <2>2, <2>4, <2>5, <2>6
  <2> QED
    BY <1>2, <2>1, <2>2, <2>3, <2>7, FlowOne
<1>6. CASE PrintMessage(c, u)
  <2> DEFINE x == cur[c][u]
  <2>1. /\ place[c][u] = "printing" /\ place'[c][u] = "on"
        /\ \A d \in Clients, w \in Users : d # c \/ w # u => place'[d][w] = place[d][w]
        /\ x \in Nat /\ \A d \in Clients, w \in Users : d # c \/ w # u => cur'[d][w] = cur[d][w]
        /\ got'[u] = Append(got[u], x)
    BY <1>6, PrintEffect
  <2>2. UNCHANGED <<sent, tasks, queue, inbox>>
    BY <1>6 DEF PrintMessage, server, broker
  <2>3. InHand(c, u) = {x} /\ InHand(c, u)' = {} /\ Held(c, u)' = ToSet(inbox[c][u])
    BY <2>1, <2>2 DEF InHand, Held
  <2> HIDE DEF x
  <2>4. x \in Held(c, u) /\ ToSet(inbox[c][u]) \subseteq Held(c, u)
    BY <2>3 DEF Held
  <2>5. AllBefore(sent, ToSet(got[u]), {x})
    BY <1>2, <2>4 DEF AllBefore
  <2>6. InOrder(sent, got'[u]) /\ ToSet(got'[u]) = ToSet(got[u]) \cup {x}
    <3>1. /\ InOrder(sent, Append(got[u], x))
          /\ ToSet(Append(got[u], x)) = ToSet(got[u]) \cup {x}
      BY <1>1, <1>2, <2>1, <2>5, AppendInOrder
    <3> QED
      BY <2>1, <3>1
  <2>7. Out(ToSet(got'[u])) /\ Out(ToSet(inbox[c][u]))
    BY <1>2, <2>4, <2>6 DEF Out, AllBefore
  <2>8. AllBefore(sent, ToSet(got'[u]), ToSet(inbox[c][u]))
    BY <1>2, <2>3, <2>4, <2>6 DEF AllBefore
  <2>9. queue[u] = <<>>
    BY <2>1 DEF Waiting, Consumers
  <2>10. /\ InOrder(sent, queue'[u]) /\ Out(ToSet(queue'[u]))
         /\ AllBefore(sent, ToSet(got'[u]), ToSet(queue'[u]))
    BY <1>3, <2>2, <2>9
  <2>11. /\ InOrder(sent, inbox'[c][u]) /\ Out(Held(c, u)')
         /\ AllBefore(sent, ToSet(got'[u]), Held(c, u)')
         /\ AllBefore(sent, InHand(c, u)', ToSet(inbox'[c][u]))
    BY <1>2, <1>3, <2>2, <2>3, <2>7, <2>8
  <2>12. \A d \in Clients : d # c => Held(d, u) = {} /\ InHand(d, u)' = InHand(d, u)
    <3>1. \A d \in Clients : d # c => Held(d, u) = {}
      BY <2>1, Alone
    <3>2. \A d \in Clients : d # c => InHand(d, u)' = InHand(d, u)
      BY <2>1 DEF InHand
    <3> QED
      BY <3>1, <3>2
  <2> QED
    BY <2>2, <2>6, <2>7, <2>10, <2>11, <2>12, FlowOne
<1>7. CASE StopConsuming(c, u)
  <2> DEFINE back == Private(inbox[c][u])
  <2>1. /\ place[c][u] = "on" /\ place'[c][u] = "unbind"
        /\ \A d \in Clients, w \in Users : d # c \/ w # u => place'[d][w] = place[d][w]
        /\ inbox'[c][u] = <<>>
    BY <1>7, StopEffect
  <2>2. Consumers(u) = {c}
    <3>1. \A d \in Clients : d # c => d \notin Consumers(u)
      BY <2>1, Alone
    <3> QED
      BY <2>1, <3>1 DEF Consumers
  <2>3. queue'[u] = back /\ \A d \in Clients : d # c => inbox'[d][u] = inbox[d][u]
    BY <1>7, <2>2, StopEffect
  <2>4. UNCHANGED <<sent, tasks, got, cur>>
    BY <1>7 DEF StopConsuming, server, history
  <2>5. \A d \in Clients : d # c => InHand(d, u)' = InHand(d, u)
    BY <2>1, <2>4 DEF InHand
  <2>6. InHand(c, u)' = {} /\ Held(c, u)' = {}
    BY <1>3, <2>1 DEF InHand, Held
  <2>7. InOrder(sent, back) /\ ToSet(back) \subseteq ToSet(inbox[c][u])
    BY <1>1, <1>2, PrivateInOrder
  <2>8. ToSet(back) \subseteq Held(c, u)
    BY <2>7 DEF Held
  <2> HIDE DEF back
  <2>9. /\ InOrder(sent, queue'[u]) /\ Out(ToSet(queue'[u]))
        /\ AllBefore(sent, ToSet(got'[u]), ToSet(queue'[u]))
    <3>1. Out(ToSet(back))
      BY <1>2, <2>8, OutParts
    <3>2. AllBefore(sent, ToSet(got[u]), ToSet(back))
      BY <1>2, <2>8 DEF AllBefore
    <3> QED
      BY <2>3, <2>4, <2>7, <3>1, <3>2
  <2>10. /\ InOrder(sent, inbox'[c][u]) /\ Out(Held(c, u)')
         /\ AllBefore(sent, ToSet(got'[u]), Held(c, u)')
         /\ AllBefore(sent, InHand(c, u)', ToSet(inbox'[c][u]))
    BY <1>3, <2>1, <2>6
  <2> QED
    BY <1>2, <2>3, <2>4, <2>5, <2>9, <2>10, FlowOne
<1>8. CASE Unbind(c, u)
  <2>1. /\ place[c][u] = "unbind" /\ place'[c][u] = "off"
        /\ \A d \in Clients, w \in Users : d # c \/ w # u => place'[d][w] = place[d][w]
    BY <1>8, UnbindEffect
  <2>2. UNCHANGED <<sent, tasks, got, cur, queue, inbox>>
    BY <1>8 DEF Unbind, server, history
  <2>3. \A d \in Clients : InHand(d, u)' = InHand(d, u)
    BY <2>1, <2>2 DEF InHand
  <2> QED
    BY <2>2, <2>3, FlowFrame
<1> QED
  BY <1>4, <1>5, <1>6, <1>7, <1>8 DEF ThreadStep

\* A thread's steps for somebody else.
LEMMA OthersFlow ==
  ASSUME Typed, NEW c \in Clients, NEW w \in Users, ThreadStep(c, w),
         NEW u \in Users, u # w, Flow(u)
  PROVE  Flow(u)'
<1>1. ASSUME UNCHANGED <<sent, tasks>>, got'[u] = got[u], queue'[u] = queue[u],
             \A d \in Clients : inbox'[d][u] = inbox[d][u] /\ cur'[d][u] = cur[d][u]
                                /\ place'[d][u] = place[d][u]
      PROVE  Flow(u)'
  <2>1. \A d \in Clients : InHand(d, u)' = InHand(d, u)
    BY <1>1 DEF InHand
  <2> QED
    BY <1>1, <2>1, FlowFrame
<1>2. CASE Subscribe(c, w)
  <2>1. UNCHANGED <<sent, tasks, got, cur>>
    BY <1>2 DEF Subscribe, server, history
  <2>2. /\ queue'[u] = queue[u]
        /\ \A d \in Clients : inbox'[d][u] = inbox[d][u]
        /\ \A d \in Clients : place'[d][u] = place[d][u]
    BY <1>2, SubscribeEffect
  <2> QED
    BY <1>1, <2>1, <2>2
<1>3. CASE Receive(c, w)
  <2>1. UNCHANGED <<sent, tasks, got, queue>>
    BY <1>3 DEF Receive, server, broker, history
  <2>2. /\ \A d \in Clients : inbox'[d][u] = inbox[d][u] /\ cur'[d][u] = cur[d][u]
        /\ \A d \in Clients : place'[d][u] = place[d][u]
    BY <1>3, ReceiveEffect
  <2> QED
    BY <1>1, <2>1, <2>2
<1>4. CASE PrintMessage(c, w)
  <2>1. UNCHANGED <<sent, tasks, queue, inbox>>
    BY <1>4 DEF PrintMessage, server, broker
  <2>2. /\ got'[u] = got[u] /\ \A d \in Clients : cur'[d][u] = cur[d][u]
        /\ \A d \in Clients : place'[d][u] = place[d][u]
    BY <1>4, PrintEffect
  <2> QED
    BY <1>1, <2>1, <2>2
<1>5. CASE StopConsuming(c, w)
  <2>1. UNCHANGED <<sent, tasks, got, cur>>
    BY <1>5 DEF StopConsuming, server, history
  <2>2. /\ queue'[u] = queue[u] /\ \A d \in Clients : inbox'[d][u] = inbox[d][u]
        /\ \A d \in Clients : place'[d][u] = place[d][u]
    BY <1>5, StopEffect
  <2> QED
    BY <1>1, <2>1, <2>2
<1>6. CASE Unbind(c, w)
  <2>1. UNCHANGED <<sent, tasks, got, cur, queue, inbox>>
    BY <1>6 DEF Unbind, server, history
  <2>2. \A d \in Clients : place'[d][u] = place[d][u]
    BY <1>6, UnbindEffect
  <2> QED
    BY <1>1, <2>1, <2>2
<1> QED
  BY <1>2, <1>3, <1>4, <1>5, <1>6 DEF ThreadStep

\* When a client is killed, its user's messages go back to the queue, but for
\* the one in hand.
LEMMA KillFlow ==
  ASSUME Typed, OneClient, Waiting, NEW c \in Clients, Kill(c),
         NEW u \in Users \ shared, Flow(u)
  PROVE  Flow(u)'
<1> DEFINE back == Private(inbox[c][u])
<1>1. /\ place'[c][u] = "off" /\ inbox'[c][u] = <<>>
      /\ \A d \in Clients \ {c} : \/ inbox'[d][u] = inbox[d][u]
                                  \/ /\ d \in Consumers(u)
                                     /\ inbox'[d][u] = inbox[d][u] \o back
      /\ queue'[u] = IF Consumers(u) = {c} THEN back ELSE queue[u]
  BY KillEffect
<1>2. /\ \A d \in Clients, w \in Users : d # c => place'[d][w] = place[d][w]
      /\ \A d \in Clients, w \in Users : d # c => cur'[d][w] = cur[d][w]
  BY KillEffect
<1>3. UNCHANGED <<sent, tasks, got>>
  BY DEF Kill, server, history
<1>4. /\ \A d \in Clients : inbox[d][u] \in Seq(Nat)
      /\ InOrder(sent, got[u]) /\ Out(ToSet(got[u]))
      /\ InOrder(sent, queue[u]) /\ Out(ToSet(queue[u]))
      /\ AllBefore(sent, ToSet(got[u]), ToSet(queue[u]))
      /\ InOrder(sent, inbox[c][u]) /\ Out(Held(c, u))
      /\ AllBefore(sent, ToSet(got[u]), Held(c, u))
  BY DEF Flow, Typed, TypedClients
<1>5. /\ InOrder(sent, back) /\ ToSet(back) \subseteq ToSet(inbox[c][u])
      /\ inbox[c][u] = <<>> => back = <<>>
  BY <1>4, PrivateInOrder
<1> HIDE DEF back
<1>6. /\ InOrder(sent, <<>>) /\ ToSet(<<>>) = {} /\ Out({})
      /\ \A S : AllBefore(sent, S, {}) /\ AllBefore(sent, {}, S)
      /\ \A s \in Seq(Nat) : s \o <<>> = s
  BY NothingInOrder DEF Out, AllBefore
<1>7. \A d \in Clients : d # c => inbox'[d][u] = inbox[d][u] /\ InHand(d, u)' = InHand(d, u)
  <2> SUFFICES ASSUME NEW d \in Clients, d # c
               PROVE  inbox'[d][u] = inbox[d][u] /\ InHand(d, u)' = InHand(d, u)
    OBVIOUS
  <2>1. InHand(d, u)' = InHand(d, u)
    BY <1>2 DEF InHand
  <2>2. ASSUME d \in Consumers(u), inbox'[d][u] = inbox[d][u] \o back
        PROVE  inbox'[d][u] = inbox[d][u]
    <3>1. place[d][u] # "off"
      BY <2>2 DEF Consumers
    <3>2. inbox[c][u] = <<>>
      BY <3>1, Alone
    <3> QED
      BY <1>4, <1>5, <1>6, <2>2, <3>2
  <2> QED
    BY <1>1, <2>1, <2>2
<1>8. InHand(c, u)' = {} /\ Held(c, u)' = {}
  BY <1>1, <1>6 DEF InHand, Held
<1>9. /\ InOrder(sent, queue'[u]) /\ Out(ToSet(queue'[u]))
      /\ AllBefore(sent, ToSet(got'[u]), ToSet(queue'[u]))
  <2>1. ToSet(back) \subseteq Held(c, u)
    BY <1>5 DEF Held
  <2>2. Out(ToSet(back)) /\ AllBefore(sent, ToSet(got[u]), ToSet(back))
    BY <1>4, <2>1, OutParts DEF AllBefore
  <2> QED
    BY <1>1, <1>3, <1>4, <1>5, <2>2
<1>10. /\ InOrder(sent, inbox'[c][u]) /\ Out(Held(c, u)')
       /\ AllBefore(sent, ToSet(got'[u]), Held(c, u)')
       /\ AllBefore(sent, InHand(c, u)', ToSet(inbox'[c][u]))
  BY <1>1, <1>6, <1>8
<1> QED
  BY <1>3, <1>4, <1>7, <1>9, <1>10, FlowOne

LEMMA NextFlow ==
  ASSUME Typed, OneClient, TasksInOrder, Waiting, FlowInv, [Next]_vars
  PROVE  FlowInv'
<1> SUFFICES ASSUME NEW u \in Users \ shared, u \notin shared'
             PROVE  Flow(u)'
  BY FineBefore DEF FlowInv
<1>1. Flow(u)
  BY DEF FlowInv
<1>2. ASSUME UNCHANGED <<sent, tasks, got, queue, inbox, cur, place>> PROVE Flow(u)'
  <2>1. \A d \in Clients : InHand(d, u)' = InHand(d, u)
    BY <1>2 DEF InHand
  <2> QED
    BY <1>1, <1>2, <2>1, FlowFrame
<1>3. ASSUME NEW c \in Clients, NEW w \in Users, Login(c, w) PROVE Flow(u)'
  <2>1. UNCHANGED <<sent, tasks, got, queue, inbox, cur>>
    BY <1>3 DEF Login, server, broker, thread
  <2>2. CASE place[c][w] # "off"
    <3>1. place' = place
      BY <1>3, <2>2 DEF Login, thread
    <3> QED
      BY <1>2, <2>1, <3>1
  <2>3. CASE place[c][w] = "off"
    <3>1. place' = [place EXCEPT ![c][w] = "starting"]
      BY <1>3, <2>3 DEF Login
    <3>2. \A d \in Clients : place'[d][u] = "printing" <=> place[d][u] = "printing"
      BY <2>3, <3>1 DEF Typed, TypedClients
    <3>3. \A d \in Clients : InHand(d, u)' = InHand(d, u)
      BY <2>1, <3>2 DEF InHand
    <3> QED
      BY <1>1, <2>1, <3>3, FlowFrame
  <2> QED
    BY <2>2, <2>3
<1>4. ASSUME NEW c \in Clients, NEW w \in Users, Logout(c, w)
      PROVE  UNCHANGED <<sent, tasks, got, queue, inbox, cur, place>>
  BY <1>4 DEF Logout, server, broker, thread, history
<1>5. ASSUME NEW c \in Clients, NEW w \in Users, NEW g \in Groups, JoinGroup(c, w, g)
      PROVE  UNCHANGED <<sent, tasks, got, queue, inbox, cur, place>>
  BY <1>5 DEF JoinGroup, server, broker, thread, history
<1>6. ASSUME NEW c \in Clients, SubscribeGroup(c) \/ SubscribeFails(c) \/ Exit(c) \/ ExitNext(c)
      PROVE  UNCHANGED <<sent, tasks, got, queue, inbox, cur, place>>
  BY <1>6 DEF SubscribeGroup, SubscribeFails, Exit, ExitNext, server, broker, thread, history
<1>7. ASSUME NEW s \in Servers, Retire(s) PROVE Flow(u)'
  <2>1. tasks' = [tasks EXCEPT ![s] = <<>>] /\ UNCHANGED <<sent, got, queue, inbox, cur, place>>
    BY <1>7 DEF Retire, broker, thread, history
  <2>2. tasks'[s] = <<>> /\ \A r \in Servers : r # s => tasks'[r] = tasks[r]
    BY <2>1 DEF Typed, TypedServers
  <2>3. \A r \in Servers : ToSet(tasks'[r]) \subseteq ToSet(tasks[r])
    BY <2>2, NothingInOrder
  <2>4. \A d \in Clients : InHand(d, u)' = InHand(d, u)
    BY <2>1 DEF InHand
  <2> QED
    BY <1>1, <2>1, <2>3, <2>4, FlowFrame
<1>8. ASSUME NEW c \in Clients, NEW w \in Users, ThreadStep(c, w) PROVE Flow(u)'
  BY <1>1, <1>8, ThreadFlow, OthersFlow
<1>9. UNCHANGED vars => UNCHANGED <<sent, tasks, got, queue, inbox, cur, place>>
  BY DEF vars, server, broker, thread, history
<1>10. ASSUME NEW c \in Clients, NEW w \in Users, NEW x \in Users \cup Groups, Post(c, w, x)
       PROVE  Flow(u)'
  BY <1>1, <1>10, PostFlow
<1>11. ASSUME NEW s \in Servers, Publish(s) PROVE Flow(u)'
  BY <1>1, <1>11, PublishFlow
<1>12. ASSUME NEW c \in Clients, Kill(c) PROVE Flow(u)'
  BY <1>1, <1>12, KillFlow
<1>13. ASSUME NEW s \in Servers, Terminate(s)
       PROVE  UNCHANGED <<sent, tasks, got, queue, inbox, cur, place>>
  BY <1>13 DEF Terminate, broker, thread, history
<1> QED
  BY <1>2, <1>3, <1>4, <1>5, <1>6, <1>7, <1>8, <1>9, <1>10, <1>11, <1>12, <1>13,
     StepCases, Zenon

----------------------------------------------------------------------------
(* The theorems *)

LEMMA InitInv == Init => DeliveryInv
<1> SUFFICES ASSUME Init PROVE DeliveryInv
  OBVIOUS
<1>1. <<>> \in Seq(Nat) /\ <<>> \in Seq(Message) /\ ToSet(<<>>) = {} /\ DOMAIN <<>> = {}
  BY NothingInOrder
<1>2. Nothing \in Duty /\ Nothing.kind = "none"
  <2>1. "none" \in Kinds
    BY DEF Kinds
  <2> QED
    BY <2>1 DEF Nothing, Duty
<1>3. "off" \in Places
  BY DEF Places
<1>4. TypedServers
  BY <1>1 DEF Init, TypedServers
<1>5. TypedClients
  BY <1>1, <1>2, <1>3 DEF Init, TypedClients, Each
<1>6. ThreadsKnown
  BY <1>2 DEF Init, ThreadsKnown, Known, Each
<1>7. OneClient
  BY DEF Init, OneClient, Each
<1>8. Declared
  BY <1>1 DEF Init, Declared, GroupsKnown, Each
<1>9. TasksInOrder
  BY <1>1, NothingInOrder DEF Init, TasksInOrder
<1>10. Waiting
  BY DEF Init, Waiting, Each
<1>11. FlowInv
  <2> SUFFICES ASSUME NEW u \in Users PROVE Flow(u)
    BY DEF FlowInv
  <2>1. /\ sent = <<>> /\ got[u] = <<>> /\ queue[u] = <<>>
        /\ \A c \in Clients : inbox[c][u] = <<>> /\ place[c][u] = "off"
    BY DEF Init, Each
  <2>2. \A c \in Clients : InHand(c, u) = {} /\ Held(c, u) = {}
    BY <1>1, <2>1 DEF InHand, Held
  <2>3. Out({}) /\ \A S : AllBefore(sent, S, {}) /\ AllBefore(sent, {}, S)
    BY DEF Out, AllBefore
  <2> QED
    BY <1>1, <2>1, <2>2, <2>3, NothingInOrder DEF Flow
<1> QED
  BY <1>4, <1>5, <1>6, <1>7, <1>8, <1>9, <1>10, <1>11 DEF DeliveryInv, Typed

\* The inductive invariant, for any number of clients, servers and messages.
LEMMA DeliveryInvariant == Spec => []DeliveryInv
<1>1. DeliveryInv /\ [Next]_vars => DeliveryInv'
  BY NextTyped, NextKnown, NextOneClient, NextDeclared, NextTasks, NextWaiting, NextFlow
     DEF DeliveryInv
<1> QED
  BY InitInv, <1>1, PTL DEF Spec

\* Of each server's messages a user is printed each at most once and in the
\* order of the answers, through logouts and kills, who was not in two clients.
THEOREM MessagesInOrder == Spec => []PrintedInOrder
<1>1. DeliveryInv => PrintedInOrder
  <2> SUFFICES ASSUME DeliveryInv, NEW u \in Users \ shared,
                      NEW i \in DOMAIN got[u], NEW j \in DOMAIN got[u],
                      i < j, sent[got[u][i]].via = sent[got[u][j]].via
               PROVE  got[u][i] < got[u][j]
    BY DEF PrintedInOrder
  <2>1. InOrder(sent, got[u])
    BY DEF DeliveryInv, FlowInv, Flow
  <2> QED
    BY <2>1 DEF InOrder, Before
<1> QED
  BY <1>1, DeliveryInvariant, PTL

\* No message ends the AMQP thread of a server that got no terminate command,
\* before a subscription has failed or a user has been in two clients: the
\* exchange of a message is there when it is published.
THEOREM ServerThreadsLive == Spec => []ServerThreadLives
<1>1. DeliveryInv => ServerThreadLives
  BY DEF DeliveryInv, Declared, Fine, ServerThreadLives
<1> QED
  BY <1>1, DeliveryInvariant, PTL
=============================================================================
