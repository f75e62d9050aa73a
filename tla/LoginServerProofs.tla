------------------------- MODULE LoginServerProofs -------------------------
(***************************************************************************)
(* Theorems about LoginServer, for any number of users, instances, seats   *)
(* per instance and restarts.                                              *)
(***************************************************************************)
EXTENDS LoginServer, StackLemmas

USE DEF memory, broker, ec2

\* The initial state is well typed.
LEMMA InitTypeOK == Init => TypeOK
<1> SUFFICES ASSUME Init PROVE TypeOK
  OBVIOUS
<1>1. <<>> \in Seq(Instances)
  BY EmptySeq
<1>2. 0 \in 0..MaxUsers /\ 0 \in 0..MaxStarts
  BY ConstantAssumption
<1> QED
  BY <1>1, <1>2 DEF Init, TypeOK, Handler

\* The memory of a process that has ended has its type.
LEMMA LostMemoryTyped ==
  ASSUME LoseMemory
  PROVE  /\ cur' = NoUser /\ leaving' = NoInstance
         /\ pool' \subseteq Instances
         /\ stack' \in Seq(Instances)
         /\ quantity' \in [Instances -> 0..MaxUsers]
         /\ assigned' \in [Users -> Instances \cup {NoInstance}]
         /\ event' \in BOOLEAN
<1>1. <<>> \in Seq(Instances)
  BY EmptySeq
<1>2. 0 \in 0..MaxUsers
  BY ConstantAssumption
<1> QED
  BY <1>1, <1>2 DEF LoseMemory

\* Every step keeps the state well typed; by PlacesAgree nothing pops an empty stack.
LEMMA NextTypeOK ==
  ASSUME TypeOK, BooksAgree, PlacesAgree, [Next]_vars
  PROVE  TypeOK'
<1> USE DEF TypeOK, Handler
<1>1. CASE Request
  <2>1. CASE Refuse
    BY <2>1 DEF Refuse, Serve
  <2>2. ASSUME NEW u \in Users, Register(u) PROVE TypeOK'
    BY <2>2 DEF Register, Serve
  <2>3. ASSUME NEW u \in Users, LoginFirst(u) PROVE TypeOK'
    BY <2>3 DEF LoginFirst, Serve
  <2>4. ASSUME NEW u \in Users, LoginAgain(u) PROVE TypeOK'
    BY <2>4 DEF LoginAgain, Serve
  <2>5. ASSUME NEW u \in Users, LoginAgainKeyError(u) PROVE TypeOK'
    BY <2>5, LostMemoryTyped DEF LoginAgainKeyError, MainThreadDies
  <2>6. ASSUME NEW u \in Users, Logout(u) PROVE TypeOK'
    BY <2>6 DEF Logout, DropRecord, Serve
  <2>7. ASSUME NEW u \in Users, Delete(u) PROVE TypeOK'
    BY <2>7 DEF Delete, DropRecord, Serve
  <2> QED
    BY <1>1, <2>1, <2>2, <2>3, <2>4, <2>5, <2>6, <2>7 DEF Request
<1>2. CASE MainStep
  <2>1. CASE CreateInstance
    <3>1. PICK i \in Instances : /\ vm' = [vm EXCEPT ![i] = "running"]
                                 /\ pool' = pool \cup {i}
                                 /\ stack' = Append(stack, i)
                                 /\ quantity' = [quantity EXCEPT ![i] = 0]
      BY <2>1 DEF CreateInstance
    <3>2. stack' \in Seq(Instances)
      BY <3>1, AppendProperties
    <3>3. 0 \in 0..MaxUsers
      BY ConstantAssumption
    <3> QED
      BY <2>1, <3>1, <3>2, <3>3 DEF CreateInstance
  <2>2. CASE AwaitEvent
    BY <2>2 DEF AwaitEvent
  <2>3. CASE ClearEvent
    BY <2>3 DEF ClearEvent
  <2>4. CASE AssignInstance
    <3> DEFINE i == Last(stack)
    <3>1. stack # <<>> /\ cur \in Users
      BY <2>4 DEF AssignInstance, PlacesAgree
    <3>2. i \in Instances /\ i \in ToSet(stack) /\ Front(stack) \in Seq(Instances)
      BY <3>1, FrontDistinct DEF BooksAgree
    <3>3. quantity[i] \in 0..(MaxUsers - 1)
      BY <3>2, ConstantAssumption DEF BooksAgree
    <3>4. stack' \in Seq(Instances)
      BY <2>4, <3>2, AppendProperties DEF AssignInstance
    <3>5. quantity[i] + 1 \in 0..MaxUsers
      BY <3>3, ConstantAssumption
    <3> HIDE DEF i
    <3> QED
      BY <2>4, <3>1, <3>2, <3>4, <3>5 DEF AssignInstance, i
  <2>5. CASE DeleteUserRecord
    BY <2>5 DEF DeleteUserRecord
  <2>6. CASE ReleaseInstance
    <3>1. CASE assigned[cur] = NoInstance
      BY <2>6, <3>1 DEF ReleaseInstance
    <3>2. CASE assigned[cur] # NoInstance
      <4> DEFINE i == assigned[cur]
      <4>1. cur \in Users /\ i \in Instances /\ cur \in Occupants(i)
        BY <2>6, <3>2 DEF ReleaseInstance, PlacesAgree, Occupants
      <4>2. IsFiniteSet(Occupants(i))
        BY ConstantAssumption, FS_Subset DEF Occupants
      <4>3. quantity[i] # 0
        BY <4>1, <4>2, FS_EmptySet DEF BooksAgree
      <4>4. quantity[i] - 1 \in 0..MaxUsers
        BY <4>1, <4>3, ConstantAssumption
      <4>5. stack' \in Seq(Instances)
        <5>1. Append(stack, i) \in Seq(Instances)
          BY <4>1, AppendProperties
        <5> QED
          BY <2>6, <3>2, <5>1 DEF ReleaseInstance
      <4> HIDE DEF i
      <4> QED
        BY <2>6, <3>2, <4>1, <4>4, <4>5 DEF ReleaseInstance, i
    <3> QED
      BY <3>1, <3>2
  <2>7. CASE Disconnect
    BY <2>7 DEF Disconnect
  <2>8. CASE DisconnectRefused
    BY <2>8, LostMemoryTyped DEF DisconnectRefused, MainThreadDies
  <2>9. CASE RetireInstance
    <3>1. leaving \in Instances /\ leaving \in ToSet(stack)
      BY <2>9, ConstantAssumption DEF RetireInstance, PlacesAgree, BooksAgree
    <3>2. stack' \in Seq(Instances)
      BY <2>9, <3>1, RemoveFirstDistinct DEF RetireInstance, BooksAgree
    <3>3. 0 \in 0..MaxUsers
      BY ConstantAssumption
    <3> QED
      BY <2>9, <3>1, <3>2, <3>3 DEF RetireInstance
  <2>10. CASE Reply
    BY <2>10 DEF Reply
  <2> QED
    BY <1>2, <2>1, <2>2, <2>3, <2>4, <2>5, <2>6, <2>7, <2>8, <2>9, <2>10
       DEF MainStep
<1>3. CASE ReplyFails
  BY <1>3, LostMemoryTyped DEF ReplyFails, MainThreadDies
<1>4. CASE AckThreadStep
  <2>1. CASE DeclareAckQueue
    BY <2>1 DEF DeclareAckQueue
  <2>2. CASE DeliverAck
    BY <2>2 DEF DeliverAck
  <2> QED
    BY <1>4, <2>1, <2>2 DEF AckThreadStep
<1>5. CASE Operator
  <2>1. CASE Start
    <3>1. starts' \in 0..MaxStarts
      BY <2>1, ConstantAssumption DEF Start
    <3> QED
      BY <2>1, <3>1 DEF Start
  <2>2. CASE Kill
    BY <2>2, LostMemoryTyped DEF Kill
  <2>3. CASE Interrupt
    BY <2>3, LostMemoryTyped DEF Interrupt
  <2>4. CASE InterruptConstructor
    BY <2>4, LostMemoryTyped DEF InterruptConstructor, MainThreadDies
  <2> QED
    BY <1>5, <2>1, <2>2, <2>3, <2>4 DEF Operator
<1>6. ASSUME NEW i \in Instances, InstanceStep(i) PROVE TypeOK'
  BY <1>6 DEF InstanceStep, PublishEstablished, Listen
<1>7. CASE UNCHANGED vars
  BY <1>7 DEF vars
<1> QED
  BY <1>1, <1>2, <1>3, <1>4, <1>5, <1>6, <1>7 DEF Next

----------------------------------------------------------------------------
(* The books *)

LEMMA OccupantsFinite ==
  ASSUME NEW i PROVE IsFiniteSet(Occupants(i)) /\ Cardinality(Occupants(i)) \in Nat
BY ConstantAssumption, FS_Subset, FS_CardinalityType DEF Occupants

\* Mapping one user to an instance, or to none, changes the occupants of the
\* two instances concerned and of no other.
LEMMA OccupantsMove ==
  ASSUME assigned \in [Users -> Instances \cup {NoInstance}],
         NEW u \in Users, NEW i,
         assigned' = [assigned EXCEPT ![u] = i]
  PROVE  /\ Occupants(i)' = Occupants(i) \cup {u}
         /\ \A j : j # i => Occupants(j)' = Occupants(j) \ {u}
<1>1. \A v \in Users : assigned'[v] = IF v = u THEN i ELSE assigned[v]
  OBVIOUS
<1>2. Occupants(i)' = Occupants(i) \cup {u}
  BY <1>1 DEF Occupants
<1>3. ASSUME NEW j, j # i PROVE Occupants(j)' = Occupants(j) \ {u}
  BY <1>1, <1>3 DEF Occupants
<1> QED
  BY <1>2, <1>3

\* A step that leaves the memory alone leaves the books right.
LEMMA BooksFrame ==
  ASSUME BooksAgree, UNCHANGED memory PROVE BooksAgree'
BY DEF BooksAgree, Occupants

\* A process that has lost its memory has empty books.
LEMMA LostMemoryBooks ==
  ASSUME LoseMemory PROVE BooksAgree'
<1>1. DOMAIN stack' = {} /\ pool' = {}
  BY DEF LoseMemory
<1>2. IsInjective(stack') /\ ToSet(stack') = {}
  BY <1>1 DEF IsInjective, ToSet
<1>3. ASSUME NEW i \in Instances
      PROVE  quantity'[i] = Cardinality(Occupants(i)')
  <2>1. Occupants(i)' = {}
    BY ConstantAssumption DEF LoseMemory, Occupants
  <2> QED
    BY <2>1, FS_EmptySet DEF LoseMemory
<1> QED
  BY <1>1, <1>2, <1>3 DEF BooksAgree, LoseMemory

\* Launching an instance adds one empty entry to all three books.
LEMMA CreateBooks ==
  ASSUME TypeOK, PoolInv, CreateInstance PROVE BooksAgree'
<1> USE DEF TypeOK, PoolInv
<1>1. PICK i \in Instances : /\ vm[i] = "unused"
                             /\ pool' = pool \cup {i}
                             /\ stack' = Append(stack, i)
                             /\ quantity' = [quantity EXCEPT ![i] = 0]
                             /\ assigned' = assigned
  BY DEF CreateInstance
<1>2. i \notin pool /\ i \notin ToSet(stack) /\ Occupants(i) = {}
  BY <1>1, ConstantAssumption DEF IssuedFromBooks, BooksAgree, Occupants
<1>3. IsInjective(stack') /\ ToSet(stack') = ToSet(stack) \cup {i}
  BY <1>1, <1>2, AppendDistinct DEF BooksAgree
<1>4. ToSet(stack') = {j \in pool' : quantity'[j] < MaxUsers}
  BY <1>1, <1>2, <1>3, ConstantAssumption DEF BooksAgree
<1>5. ASSUME NEW j \in Instances
      PROVE  quantity'[j] = Cardinality(Occupants(j)')
  BY <1>1, <1>2, FS_EmptySet DEF BooksAgree, Occupants
<1>6. \A u \in Users : assigned'[u] \in pool' \cup {NoInstance}
  BY <1>1 DEF BooksAgree
<1> QED
  BY <1>3, <1>4, <1>5, <1>6 DEF BooksAgree

\* Seating a user fills one seat of the instance on top of the stack.
LEMMA AssignBooks ==
  ASSUME TypeOK, PoolInv, AssignInstance PROVE BooksAgree'
<1> USE DEF TypeOK, PoolInv
<1>1. /\ stack # <<>> /\ cur \in Users /\ assigned[cur] = NoInstance
  BY ConstantAssumption DEF AssignInstance, PlacesAgree
<1>2. PICK i \in Instances :
      /\ i = Last(stack) /\ i \in ToSet(stack)
      /\ Front(stack) \in Seq(Instances) /\ IsInjective(Front(stack))
      /\ ToSet(Front(stack)) = ToSet(stack) \ {i}
  BY <1>1, FrontDistinct DEF BooksAgree
<1>3. i \in pool /\ quantity[i] < MaxUsers /\ i # NoInstance
  BY <1>2, ConstantAssumption DEF BooksAgree
<1>4. /\ assigned' = [assigned EXCEPT ![cur] = i]
      /\ quantity' = [quantity EXCEPT ![i] = quantity[i] + 1]
      /\ stack' = IF quantity[i] + 1 < MaxUsers THEN Append(Front(stack), i)
                                                ELSE Front(stack)
      /\ pool' = pool
  BY <1>2 DEF AssignInstance
<1>5. /\ IsInjective(stack')
      /\ ToSet(stack') = IF quantity[i] + 1 < MaxUsers THEN ToSet(stack)
                                                       ELSE ToSet(stack) \ {i}
  <2>1. CASE quantity[i] + 1 < MaxUsers
    <3>1. /\ IsInjective(Append(Front(stack), i))
          /\ ToSet(Append(Front(stack), i)) = ToSet(Front(stack)) \cup {i}
      BY <1>2, AppendDistinct
    <3> QED
      BY <1>2, <1>4, <2>1, <3>1
  <2>2. CASE ~(quantity[i] + 1 < MaxUsers)
    BY <1>2, <1>4, <2>2
  <2> QED
    BY <2>1, <2>2
<1>6. ToSet(stack') = {j \in pool' : quantity'[j] < MaxUsers}
  <2>1. \A j \in pool : j # i => quantity'[j] = quantity[j]
    BY <1>4
  <2>2. quantity'[i] = quantity[i] + 1
    BY <1>2, <1>4
  <2> QED
    BY <1>2, <1>3, <1>4, <1>5, <2>1, <2>2, ConstantAssumption DEF BooksAgree
<1>7. ASSUME NEW j \in Instances
      PROVE  quantity'[j] = Cardinality(Occupants(j)')
  <2>1. CASE j = i
    <3>1. Occupants(i)' = Occupants(i) \cup {cur}
      BY <1>1, <1>4, OccupantsMove
    <3>2. cur \notin Occupants(i)
      BY <1>1, <1>3 DEF Occupants
    <3>3. Cardinality(Occupants(i)') = Cardinality(Occupants(i)) + 1
      BY <3>1, <3>2, OccupantsFinite, FS_AddElement
    <3>4. quantity'[i] = quantity[i] + 1 /\ quantity[i] = Cardinality(Occupants(i))
      BY <1>2, <1>4 DEF BooksAgree
    <3> QED
      BY <2>1, <3>3, <3>4
  <2>2. CASE j # i
    <3>1. Occupants(j)' = Occupants(j) \ {cur} /\ cur \notin Occupants(j)
      BY <1>1, <1>4, <2>2, OccupantsMove, ConstantAssumption DEF Occupants
    <3>2. Occupants(j)' = Occupants(j)
      BY <3>1
    <3>3. quantity'[j] = quantity[j]
      BY <1>4, <2>2
    <3> QED
      BY <3>2, <3>3 DEF BooksAgree
  <2> QED
    BY <2>1, <2>2
<1>8. \A u \in Users : assigned'[u] \in pool' \cup {NoInstance}
  BY <1>3, <1>4 DEF BooksAgree
<1> QED
  BY <1>5, <1>6, <1>7, <1>8 DEF BooksAgree

\* A user who leaves frees one seat of the instance it was mapped to.
LEMMA ReleaseBooks ==
  ASSUME TypeOK, PoolInv, ReleaseInstance PROVE BooksAgree'
<1> USE DEF TypeOK, PoolInv
<1>1. CASE assigned[cur] = NoInstance
  BY <1>1, BooksFrame DEF ReleaseInstance
<1>2. CASE assigned[cur] # NoInstance
  <2>1. PICK i \in Instances : /\ i = assigned[cur] /\ i \in pool /\ i # NoInstance
                               /\ cur \in Users
    BY <1>2, ConstantAssumption DEF ReleaseInstance, PlacesAgree, BooksAgree
  <2>2. /\ assigned' = [assigned EXCEPT ![cur] = NoInstance]
        /\ quantity' = [quantity EXCEPT ![i] = quantity[i] - 1]
        /\ stack' = IF quantity[i] - 1 = MaxUsers - 1 THEN Append(stack, i) ELSE stack
        /\ pool' = pool
    BY <1>2, <2>1 DEF ReleaseInstance
  <2>3. Occupants(i)' = Occupants(i) \ {cur} /\ cur \in Occupants(i)
    <3>1. Occupants(i)' = Occupants(i) \ {cur}
      BY <2>1, <2>2, OccupantsMove
    <3>2. cur \in Occupants(i)
      BY <2>1 DEF Occupants
    <3> QED
      BY <3>1, <3>2
  <2>4. /\ quantity[i] \in Nat \ {0}
        /\ quantity'[i] = Cardinality(Occupants(i)')
    <3>1. Cardinality(Occupants(i)') = Cardinality(Occupants(i)) - 1
      BY <2>3, OccupantsFinite, FS_RemoveElement
    <3>2. Cardinality(Occupants(i)) \in Nat \ {0}
      BY <2>3, OccupantsFinite, FS_EmptySet
    <3>3. quantity'[i] = quantity[i] - 1 /\ quantity[i] = Cardinality(Occupants(i))
      BY <2>1, <2>2 DEF BooksAgree
    <3> QED
      BY <3>1, <3>2, <3>3
  <2>5. /\ IsInjective(stack')
        /\ ToSet(stack') = ToSet(stack) \cup {i}
    <3>1. CASE quantity[i] = MaxUsers
      <4>1. i \notin ToSet(stack)
        BY <3>1, ConstantAssumption DEF BooksAgree
      <4>2. stack' = Append(stack, i)
        BY <2>2, <3>1
      <4> QED
        BY <2>1, <4>1, <4>2, AppendDistinct DEF BooksAgree
    <3>2. CASE quantity[i] # MaxUsers
      <4>1. stack' = stack
        BY <2>1, <2>2, <3>2, ConstantAssumption
      <4>2. i \in ToSet(stack)
        BY <2>1, <3>2, ConstantAssumption DEF BooksAgree
      <4> QED
        BY <4>1, <4>2 DEF BooksAgree
    <3> QED
      BY <3>1, <3>2
  <2>6. ToSet(stack') = {j \in pool' : quantity'[j] < MaxUsers}
    <3>1. \A j \in pool : j # i => quantity'[j] = quantity[j]
      BY <2>2
    <3>2. quantity'[i] = quantity[i] - 1 /\ quantity'[i] < MaxUsers
      BY <2>1, <2>2, ConstantAssumption
    <3> QED
      BY <2>1, <2>2, <2>5, <3>1, <3>2 DEF BooksAgree
  <2>7. ASSUME NEW j \in Instances, j # i
        PROVE  quantity'[j] = Cardinality(Occupants(j)')
    <3>1. j # NoInstance /\ cur \notin Occupants(j)
      BY <2>1, <2>7, ConstantAssumption DEF Occupants
    <3>2. Occupants(j)' = Occupants(j) \ {cur}
      BY <2>1, <2>2, <3>1, OccupantsMove
    <3>3. Occupants(j)' = Occupants(j)
      BY <3>1, <3>2
    <3>4. quantity'[j] = quantity[j]
      BY <2>2, <2>7
    <3> QED
      BY <3>3, <3>4 DEF BooksAgree
  <2>8. \A u \in Users : assigned'[u] \in pool' \cup {NoInstance}
    BY <2>2 DEF BooksAgree
  <2> QED
    BY <2>4, <2>5, <2>6, <2>7, <2>8 DEF BooksAgree
<1> QED
  BY <1>1, <1>2

\* An instance is retired with nobody mapped to it, from all three books.
LEMMA RetireBooks ==
  ASSUME TypeOK, PoolInv, RetireInstance PROVE BooksAgree'
<1> USE DEF TypeOK, PoolInv
<1>1. leaving \in pool /\ quantity[leaving] = 0 /\ leaving \in ToSet(stack)
  BY ConstantAssumption DEF RetireInstance, PlacesAgree, BooksAgree
<1>2. /\ stack' = RemoveFirst(stack, leaving)
      /\ pool' = pool \ {leaving}
      /\ quantity' = [quantity EXCEPT ![leaving] = 0]
      /\ assigned' = assigned
  BY DEF RetireInstance
<1>3. Occupants(leaving) = {}
  BY <1>1, OccupantsFinite, FS_EmptySet DEF BooksAgree
<1>4. IsInjective(stack') /\ ToSet(stack') = ToSet(stack) \ {leaving}
  BY <1>1, <1>2, RemoveFirstDistinct DEF BooksAgree
<1>5. ToSet(stack') = {j \in pool' : quantity'[j] < MaxUsers}
  BY <1>2, <1>4 DEF BooksAgree
<1>6. \A j \in Instances : quantity'[j] = Cardinality(Occupants(j)')
  BY <1>1, <1>2 DEF BooksAgree, Occupants
<1>7. \A u \in Users : assigned'[u] \in pool' \cup {NoInstance}
  BY <1>2, <1>3 DEF BooksAgree, Occupants
<1> QED
  BY <1>4, <1>5, <1>6, <1>7 DEF BooksAgree

\* Every other step leaves the books alone.
LEMMA NextBooks ==
  ASSUME TypeOK, PoolInv, [Next]_vars PROVE BooksAgree'
<1> USE DEF PoolInv
<1>1. CASE LoseMemory
  BY <1>1, LostMemoryBooks
<1>2. CASE UNCHANGED memory
  BY <1>2, BooksFrame
<1>3. CASE CreateInstance \/ AssignInstance \/ ReleaseInstance \/ RetireInstance
  BY <1>3, CreateBooks, AssignBooks, ReleaseBooks, RetireBooks
<1>4. \/ LoseMemory \/ UNCHANGED memory
      \/ CreateInstance \/ AssignInstance \/ ReleaseInstance \/ RetireInstance
  <2>1. CASE Request
    BY <2>1 DEF Request, Refuse, Register, LoginFirst, LoginAgain,
         LoginAgainKeyError, MainThreadDies, Logout, Delete, DropRecord
  <2>2. CASE MainStep
    BY <2>2 DEF MainStep, AwaitEvent, ClearEvent, DeleteUserRecord, Disconnect,
         DisconnectRefused, MainThreadDies, Reply
  <2>3. CASE ReplyFails \/ AckThreadStep \/ Operator
    BY <2>3 DEF ReplyFails, MainThreadDies, AckThreadStep, DeclareAckQueue,
         DeliverAck, Operator, Start, Kill, Interrupt, InterruptConstructor
  <2>4. CASE \E i \in Instances : InstanceStep(i)
    BY <2>4 DEF InstanceStep, PublishEstablished, Listen
  <2>5. CASE UNCHANGED vars
    BY <2>5 DEF vars
  <2> QED
    BY <2>1, <2>2, <2>3, <2>4, <2>5 DEF Next
<1> QED
  BY <1>1, <1>2, <1>3, <1>4

----------------------------------------------------------------------------
(* The other conjuncts of the inductive invariant *)

LEMMA NextPlaces ==
  ASSUME TypeOK, PoolInv, [Next]_vars PROVE PlacesAgree'
<1> USE DEF TypeOK, PoolInv, Handler
<1>1. CASE Request
  <2>1. CASE Refuse \/ \E u \in Users : Register(u) \/ LoginAgain(u)
    BY <2>1 DEF PlacesAgree, Refuse, Register, LoginAgain, Serve
  <2>2. ASSUME NEW u \in Users, LoginFirst(u) PROVE PlacesAgree'
    <3>1. assigned[u] = NoInstance /\ issued[u] = NoInstance
      BY <2>2, ConstantAssumption DEF MappingsRecorded, LoginFirst, Serve
    <3> QED
      BY <2>2, <3>1 DEF PlacesAgree, LoginFirst, Serve
  <2>3. ASSUME NEW u \in Users, LoginAgainKeyError(u) PROVE PlacesAgree'
    BY <2>3 DEF PlacesAgree, LoginAgainKeyError, MainThreadDies, LoseMemory
  <2>4. ASSUME NEW u \in Users, Logout(u) \/ Delete(u) PROVE PlacesAgree'
    BY <2>4 DEF PlacesAgree, Logout, Delete, DropRecord, Serve
  <2> QED
    BY <1>1, <2>1, <2>2, <2>3, <2>4 DEF Request
<1>2. CASE MainStep
  <2>1. CASE CreateInstance
    <3>1. stack' # <<>>
      BY <2>1, AppendProperties DEF CreateInstance
    <3> QED
      BY <2>1, <3>1 DEF PlacesAgree, CreateInstance
  <2>2. CASE AwaitEvent \/ ClearEvent \/ DeleteUserRecord
    BY <2>2 DEF PlacesAgree, AwaitEvent, ClearEvent, DeleteUserRecord
  <2>3. CASE AssignInstance
    BY <2>3 DEF PlacesAgree, AssignInstance
  <2>4. CASE ReleaseInstance
    <3>1. CASE pc' = "reply"
      BY <2>4, <3>1 DEF PlacesAgree
    <3>2. CASE pc' = "disconnect"
      <4>1. /\ assigned[cur] # NoInstance /\ quantity[assigned[cur]] - 1 = 0
            /\ leaving' = assigned[cur] /\ pool' = pool
            /\ quantity' = [quantity EXCEPT ![assigned[cur]] = 0]
        BY <2>4, <3>2 DEF ReleaseInstance
      <4>2. assigned[cur] \in pool
        BY <2>4, <4>1 DEF BooksAgree, PlacesAgree, ReleaseInstance
      <4> QED
        BY <3>2, <4>1, <4>2 DEF PlacesAgree
    <3> QED
      BY <2>4, <3>1, <3>2 DEF ReleaseInstance
  <2>5. CASE Disconnect
    BY <2>5 DEF PlacesAgree, Disconnect
  <2>6. CASE DisconnectRefused
    BY <2>6 DEF PlacesAgree, DisconnectRefused, MainThreadDies, LoseMemory
  <2>7. CASE RetireInstance \/ Reply
    BY <2>7 DEF PlacesAgree, RetireInstance, Reply
  <2> QED
    BY <1>2, <2>1, <2>2, <2>3, <2>4, <2>5, <2>6, <2>7 DEF MainStep
<1>3. CASE ReplyFails
  BY <1>3 DEF PlacesAgree, ReplyFails, MainThreadDies, LoseMemory
<1>4. CASE AckThreadStep
  BY <1>4 DEF PlacesAgree, AckThreadStep, DeclareAckQueue, DeliverAck
<1>5. CASE Operator
  BY <1>5 DEF PlacesAgree, Operator, Start, Kill, Interrupt,
       InterruptConstructor, MainThreadDies, LoseMemory
<1>6. CASE \E i \in Instances : InstanceStep(i)
  BY <1>6 DEF PlacesAgree, InstanceStep, PublishEstablished, Listen
<1>7. CASE UNCHANGED vars
  BY <1>7 DEF PlacesAgree, vars
<1> QED
  BY <1>1, <1>2, <1>3, <1>4, <1>5, <1>6, <1>7 DEF Next

\* Every step keeps mappings and issued instances with a login record.
LEMMA NextRecorded ==
  ASSUME TypeOK, PoolInv, [Next]_vars PROVE MappingsRecorded'
<1> USE DEF TypeOK, PoolInv
<1>1. CASE LoseMemory /\ loginUsers' = loginUsers /\ issued' = issued
  BY <1>1, ConstantAssumption DEF LoseMemory, MappingsRecorded
<1>2. ASSUME NEW u \in Users, Logout(u) \/ Delete(u) PROVE MappingsRecorded'
  <2>1. cur' = u /\ pc' \in {"unregister", "release"}
    BY <1>2 DEF Logout, Delete, DropRecord, Serve
  <2>2. cur = NoUser /\ NoUser \notin Users
    BY <1>2, ConstantAssumption DEF Logout, Delete, DropRecord, Serve, PlacesAgree
  <2> QED
    BY <1>2, <2>1, <2>2 DEF Logout, Delete, DropRecord, Serve, MappingsRecorded
<1>3. CASE Request /\ ~(\E u \in Users : Logout(u) \/ Delete(u) \/ LoginAgainKeyError(u))
  BY <1>3, ConstantAssumption DEF Request, Refuse, Register, LoginFirst,
       LoginAgain, Serve, MappingsRecorded
<1>4. CASE MainStep /\ ~DisconnectRefused
  <2>1. CASE CreateInstance \/ AwaitEvent \/ ClearEvent \/ Disconnect \/ RetireInstance
    BY <2>1 DEF CreateInstance, AwaitEvent, ClearEvent, Disconnect,
         RetireInstance, MappingsRecorded
  <2>2. CASE AssignInstance
    <3>1. /\ cur \in loginUsers
          /\ \A u \in Users : u # cur => assigned'[u] = assigned[u]
          /\ pc \notin {"unregister", "release"}
          /\ UNCHANGED <<loginUsers, issued, cur>>
      BY <2>2, ConstantAssumption DEF AssignInstance, PlacesAgree
    <3> QED
      BY <3>1 DEF MappingsRecorded
  <2>3. CASE DeleteUserRecord
    BY <2>3 DEF DeleteUserRecord, MappingsRecorded
  <2>4. CASE ReleaseInstance
    <3>1. /\ cur \in Users /\ assigned'[cur] = NoInstance
          /\ \A u \in Users : u # cur => assigned'[u] = assigned[u]
          /\ UNCHANGED <<loginUsers, issued>>
      BY <2>4 DEF ReleaseInstance, PlacesAgree
    <3> QED
      BY <3>1 DEF MappingsRecorded
  <2>5. CASE Reply
    BY <2>5 DEF Reply, MappingsRecorded
  <2> QED
    BY <1>4, <2>1, <2>2, <2>3, <2>4, <2>5 DEF MainStep
<1>5. CASE AckThreadStep \/ Start
  BY <1>5 DEF AckThreadStep, DeclareAckQueue, DeliverAck, Start, MappingsRecorded
<1>6. CASE \E i \in Instances : InstanceStep(i)
  BY <1>6 DEF InstanceStep, PublishEstablished, Listen, MappingsRecorded
<1>7. CASE UNCHANGED vars
  BY <1>7 DEF vars, MappingsRecorded
<1>8. \/ LoseMemory /\ loginUsers' = loginUsers /\ issued' = issued
      \/ ~(DisconnectRefused \/ ReplyFails \/ Kill \/ Interrupt \/ InterruptConstructor
           \/ \E u \in Users : LoginAgainKeyError(u))
  BY DEF DisconnectRefused, ReplyFails, Kill, Interrupt, InterruptConstructor,
         LoginAgainKeyError, MainThreadDies
<1> QED
  BY <1>1, <1>2, <1>3, <1>4, <1>5, <1>6, <1>7, <1>8 DEF Next, Request, Operator

\* An instance with nobody mapped to it is nobody's issued instance.
LEMMA EmptyNotIssued ==
  ASSUME TypeOK, PoolInv, NEW i \in pool, quantity[i] = 0
  PROVE  \A u \in Users : issued[u] # i
<1>1. Occupants(i) = {}
  BY OccupantsFinite, FS_EmptySet DEF PoolInv, BooksAgree, TypeOK
<1> QED
  BY <1>1 DEF Occupants, PoolInv, IssuedFromBooks

\* Every step keeps the issued instances running and consistent with the mapping.
LEMMA NextIssued ==
  ASSUME TypeOK, PoolInv, [Next]_vars
  PROVE  IssuedFromBooks' /\ IssuedInstanceRuns'
<1> USE DEF TypeOK, PoolInv
<1>1. CASE LoseMemory /\ vm' = vm /\ issued' = issued
  BY <1>1, ConstantAssumption DEF LoseMemory, IssuedFromBooks, IssuedInstanceRuns
<1>2. CASE UNCHANGED <<memory, vm, issued>>
  BY <1>2 DEF IssuedFromBooks, IssuedInstanceRuns
<1>3. ASSUME NEW u \in Users, Logout(u) \/ Delete(u)
      PROVE  IssuedFromBooks' /\ IssuedInstanceRuns'
  <2>1. UNCHANGED <<memory, vm>> /\ issued' = [issued EXCEPT ![u] = NoInstance]
    BY <1>3 DEF Logout, Delete, DropRecord
  <2>2. NoInstance \notin pool
    BY ConstantAssumption
  <2> QED
    BY <2>1, <2>2 DEF IssuedFromBooks, IssuedInstanceRuns
<1>4. CASE Interrupt
  <2>1. EmptyAvailable \subseteq {i \in pool : quantity[i] = 0}
    BY DEF EmptyAvailable, BooksAgree
  <2>2. \A u \in Users : issued[u] \notin EmptyAvailable
    BY <2>1, EmptyNotIssued
  <2> QED
    BY <1>4, <2>2, ConstantAssumption
       DEF Interrupt, LoseMemory, IssuedFromBooks, IssuedInstanceRuns
<1>5. CASE CreateInstance
  <2>1. PICK i \in Instances : /\ vm[i] = "unused"
                               /\ vm' = [vm EXCEPT ![i] = "running"]
                               /\ pool' = pool \cup {i}
                               /\ assigned' = assigned /\ issued' = issued
    BY <1>5 DEF CreateInstance
  <2>2. \A u \in Users : issued[u] # i
    BY <2>1, ConstantAssumption DEF IssuedInstanceRuns
  <2> QED
    BY <2>1, <2>2 DEF IssuedFromBooks, IssuedInstanceRuns
<1>6. CASE AssignInstance
  <2>1. /\ cur \in Users /\ issued[cur] = NoInstance /\ NoInstance \notin pool
        /\ UNCHANGED <<pool, vm, issued>>
        /\ \A u \in Users : u # cur => assigned'[u] = assigned[u]
    BY <1>6, ConstantAssumption DEF AssignInstance, PlacesAgree
  <2> QED
    BY <2>1 DEF IssuedFromBooks, IssuedInstanceRuns
<1>7. CASE ReleaseInstance
  <2>1. /\ cur \in Users /\ issued[cur] = NoInstance /\ NoInstance \notin pool
        /\ UNCHANGED <<pool, vm, issued>>
        /\ \A u \in Users : u # cur => assigned'[u] = assigned[u]
    BY <1>7, ConstantAssumption DEF ReleaseInstance, PlacesAgree, MappingsRecorded
  <2> QED
    BY <2>1 DEF IssuedFromBooks, IssuedInstanceRuns
<1>8. CASE RetireInstance
  <2>1. /\ leaving \in pool /\ quantity[leaving] = 0
        /\ vm' = [vm EXCEPT ![leaving] = "terminated"]
        /\ pool' = pool \ {leaving}
        /\ UNCHANGED <<assigned, issued>>
    BY <1>8 DEF RetireInstance, PlacesAgree
  <2>2. \A u \in Users : issued[u] # leaving
    BY <2>1, EmptyNotIssued
  <2> QED
    BY <2>1, <2>2 DEF IssuedFromBooks, IssuedInstanceRuns
<1>9. CASE Reply
  <2>1. CASE cur \in loginUsers
    <3>1. UNCHANGED <<memory, vm>> /\ issued' = [issued EXCEPT ![cur] = assigned[cur]]
      BY <1>9, <2>1 DEF Reply
    <3>2. cur \in Users /\ assigned[cur] \in pool \cup {NoInstance}
      BY <2>1 DEF BooksAgree
    <3>3. \A u \in Users : issued'[u] = IF u = cur THEN assigned[cur] ELSE issued[u]
      BY <3>1
    <3> QED
      BY <3>1, <3>2, <3>3, ConstantAssumption DEF IssuedFromBooks, IssuedInstanceRuns
  <2>2. CASE cur \notin loginUsers
    BY <1>2, <1>9, <2>2 DEF Reply
  <2> QED
    BY <2>1, <2>2
<1>10. \/ LoseMemory /\ vm' = vm /\ issued' = issued
       \/ UNCHANGED <<memory, vm, issued>>
       \/ \E u \in Users : Logout(u) \/ Delete(u)
       \/ Interrupt \/ CreateInstance \/ AssignInstance \/ ReleaseInstance
       \/ RetireInstance \/ Reply
  <2>1. CASE Request
    BY <2>1 DEF Request, Refuse, Register, LoginFirst, LoginAgain,
         LoginAgainKeyError, MainThreadDies
  <2>2. CASE MainStep
    BY <2>2 DEF MainStep, AwaitEvent, ClearEvent, DeleteUserRecord, Disconnect,
         DisconnectRefused, MainThreadDies
  <2>3. CASE ReplyFails \/ AckThreadStep \/ Operator
    BY <2>3 DEF ReplyFails, MainThreadDies, AckThreadStep, DeclareAckQueue,
         DeliverAck, Operator, Start, Kill, InterruptConstructor
  <2>4. CASE \E i \in Instances : InstanceStep(i)
    BY <2>4 DEF InstanceStep, PublishEstablished, Listen
  <2>5. CASE UNCHANGED vars
    BY <2>5 DEF vars
  <2> QED
    BY <2>1, <2>2, <2>3, <2>4, <2>5 DEF Next
<1> QED
  BY <1>1, <1>2, <1>3, <1>4, <1>5, <1>6, <1>7, <1>8, <1>9, <1>10

----------------------------------------------------------------------------
(* The theorems *)

LEMMA InitPoolInv == Init => PoolInv
<1> SUFFICES ASSUME Init PROVE PoolInv
  OBVIOUS
<1>1. BooksAgree
  <2>1. IsInjective(stack) /\ ToSet(stack) = {}
    BY DEF Init, IsInjective, ToSet
  <2>2. \A i \in Instances : Occupants(i) = {}
    BY ConstantAssumption DEF Init, Occupants
  <2> QED
    BY <2>1, <2>2, FS_EmptySet DEF Init, BooksAgree
<1>2. PlacesAgree /\ MappingsRecorded /\ IssuedFromBooks /\ IssuedInstanceRuns
  BY DEF Init, PlacesAgree, MappingsRecorded, IssuedFromBooks, IssuedInstanceRuns
<1> QED
  BY <1>1, <1>2 DEF PoolInv

\* Every variable keeps its type and the inductive invariant of the pool holds
\* in every state, over any number of requests, crashes and restarts.
THEOREM PoolInvariant == Spec => [](TypeOK /\ PoolInv)
<1>1. Init => TypeOK /\ PoolInv
  BY InitTypeOK, InitPoolInv
<1>2. TypeOK /\ PoolInv /\ [Next]_vars => (TypeOK /\ PoolInv)'
  <2> SUFFICES ASSUME TypeOK, PoolInv, [Next]_vars PROVE TypeOK' /\ PoolInv'
    OBVIOUS
  <2>1. TypeOK'
    BY NextTypeOK DEF PoolInv
  <2>2. PoolInv'
    BY NextBooks, NextPlaces, NextRecorded, NextIssued DEF PoolInv
  <2> QED
    BY <2>1, <2>2
<1> QED
  BY <1>1, <1>2, PTL DEF Spec

\* The stack, the quantities and the mapping always agree: an instance is on
\* offer exactly while it has a free place, and no instance has more than
\* MaxUsers users.
THEOREM BooksAlwaysAgree == Spec => []BooksAgree
<1>1. PoolInv => BooksAgree
  BY DEF PoolInv
<1> QED
  BY <1>1, PoolInvariant, PTL

\* No retirement, cleaner or restart ever takes the instance away from a user
\* whose token is live.
THEOREM IssuedAlwaysRuns == Spec => []IssuedInstanceRuns
<1>1. PoolInv => IssuedInstanceRuns
  BY DEF PoolInv
<1> QED
  BY <1>1, PoolInvariant, PTL

----------------------------------------------------------------------------
(* Sessions stay put, and the server implements the abstract pool *)

LEMMA SessionStep ==
  ASSUME TypeOK, PoolInv, [Next]_vars
  PROVE  \A u \in Users : issued[u] # NoInstance =>
            issued'[u] \in {issued[u], NoInstance}
<1> USE DEF TypeOK, PoolInv
<1>1. CASE issued' = issued
  BY <1>1
<1>2. ASSUME NEW u \in Users, Logout(u) \/ Delete(u)
      PROVE  issued' = [issued EXCEPT ![u] = NoInstance]
  BY <1>2 DEF Logout, Delete, DropRecord
<1>3. CASE Reply /\ issued' = [issued EXCEPT ![cur] = assigned[cur]]
  <2>1. ASSUME NEW u \in Users, issued[u] # NoInstance
        PROVE  issued'[u] \in {issued[u], NoInstance}
    BY <1>3, <2>1 DEF IssuedFromBooks
  <2> QED
    BY <2>1
<1>4. \/ issued' = issued
      \/ \E u \in Users : Logout(u) \/ Delete(u)
      \/ Reply /\ issued' = [issued EXCEPT ![cur] = assigned[cur]]
  <2>1. CASE Request
    BY <2>1 DEF Request, Refuse, Register, LoginFirst, LoginAgain,
         LoginAgainKeyError, MainThreadDies
  <2>2. CASE MainStep
    BY <2>2 DEF MainStep, CreateInstance, AwaitEvent, ClearEvent,
         AssignInstance, DeleteUserRecord, ReleaseInstance, Disconnect,
         DisconnectRefused, MainThreadDies, RetireInstance, Reply
  <2>3. CASE ReplyFails \/ AckThreadStep \/ Operator
    BY <2>3 DEF ReplyFails, MainThreadDies, AckThreadStep, DeclareAckQueue,
         DeliverAck, Operator, Start, Kill, Interrupt, InterruptConstructor
  <2>4. CASE \E i \in Instances : InstanceStep(i)
    BY <2>4 DEF InstanceStep, PublishEstablished, Listen
  <2>5. CASE UNCHANGED vars
    BY <2>5 DEF vars
  <2> QED
    BY <2>1, <2>2, <2>3, <2>4, <2>5 DEF Next
<1> QED
  BY <1>1, <1>2, <1>3, <1>4

\* A live token's instance never changes, whoever logs in, out or restarts.
THEOREM SessionsStayPut == Spec => SessionStaysPut
<1>1. TypeOK /\ PoolInv /\ [Next]_vars =>
        [\A u \in Users : issued[u] # NoInstance =>
            issued'[u] \in {issued[u], NoInstance}]_vars
  BY SessionStep
<1> QED
  BY <1>1, PoolInvariant, PTL DEF Spec, SessionStaysPut

\* The server starts as an empty pool.
LEMMA PoolInit == Init => Pool!Init
BY DEF Init, Pool!Init

\* Every step of the server is a step of the abstract pool, or a stutter.
LEMMA PoolStep ==
  ASSUME TypeOK, PoolInv, [Next]_vars PROVE [Pool!Next]_(Pool!vars)
<1> USE DEF TypeOK, PoolInv
<1> DEFINE opened == {i \in Instances : vm[i] # "unused"}
<1>1. \A i : Pool!Seated(i) = Occupants(i)
  BY DEF Pool!Seated, Occupants
<1>0. ASSUME NEW i \in Instances PROVE Pool!Full(i) <=> quantity[i] >= MaxUsers
  <2>1. quantity[i] = Cardinality(Pool!Seated(i))
    BY <1>1 DEF BooksAgree
  <2>2. Pool!Cardinality(Pool!Seated(i)) = Cardinality(Pool!Seated(i))
    BY DEF Pool!Cardinality, Cardinality, Pool!IsFiniteSet, IsFiniteSet
  <2> QED
    BY <2>1, <2>2 DEF Pool!Full
<1>2. CASE LoseMemory /\ opened' = opened
  BY <1>2 DEF LoseMemory, Pool!Next, Pool!Forget
<1>3. CASE UNCHANGED <<pool, assigned, opened>>
  BY <1>3 DEF Pool!vars
<1>4. CASE CreateInstance
  <2>1. PICK i \in Instances : /\ vm[i] = "unused"
                               /\ vm' = [vm EXCEPT ![i] = "running"]
                               /\ pool' = pool \cup {i} /\ assigned' = assigned
    BY <1>4 DEF CreateInstance
  <2>2. ToSet(stack) = {}
    BY <1>4 DEF CreateInstance, PlacesAgree, ToSet
  <2>3. \A j \in pool : Pool!Full(j)
    <3>1. \A j \in pool : ~(quantity[j] < MaxUsers)
      BY <2>2 DEF BooksAgree
    <3>2. \A j \in pool : quantity[j] \in Nat /\ j \in Instances
      BY ConstantAssumption
    <3>3. MaxUsers \in Nat
      BY ConstantAssumption
    <3> QED
      BY <1>0, <3>1, <3>2, <3>3
  <2>4. i \notin opened /\ opened' = opened \cup {i}
    BY <2>1
  <2>5. Pool!Open(i)
    BY <2>1, <2>3, <2>4 DEF Pool!Open
  <2> QED
    BY <2>5 DEF Pool!Next
<1>5. CASE AssignInstance
  <2>1. cur \in Users /\ assigned[cur] = NoInstance /\ stack # <<>>
    BY <1>5, ConstantAssumption DEF AssignInstance, PlacesAgree
  <2>2. PICK i \in Instances : i = Last(stack) /\ i \in ToSet(stack)
    BY <2>1, FrontDistinct DEF BooksAgree
  <2>3. i \in pool /\ ~Pool!Full(i)
    <3>1. i \in pool /\ quantity[i] < MaxUsers
      BY <2>2 DEF BooksAgree
    <3>2. quantity[i] \in Nat /\ MaxUsers \in Nat
      BY ConstantAssumption
    <3> QED
      BY <1>0, <3>1, <3>2
  <2>4. /\ assigned' = [assigned EXCEPT ![cur] = i]
        /\ UNCHANGED <<pool, opened>>
    BY <1>5, <2>2 DEF AssignInstance
  <2>5. Pool!Sit(cur, i)
    BY <2>1, <2>3, <2>4 DEF Pool!Sit
  <2> QED
    BY <2>1, <2>5 DEF Pool!Next
<1>6. CASE ReleaseInstance
  <2>1. cur \in Users
    BY <1>6 DEF ReleaseInstance, PlacesAgree
  <2>2. CASE assigned[cur] = NoInstance
    BY <1>3, <1>6, <2>2 DEF ReleaseInstance
  <2>3. CASE assigned[cur] # NoInstance
    BY <1>6, <2>1, <2>3 DEF ReleaseInstance, Pool!Next, Pool!Leave
  <2> QED
    BY <2>2, <2>3
<1>7. CASE RetireInstance
  <2>1. leaving \in pool /\ leaving \in Instances /\ quantity[leaving] = 0
    BY <1>7 DEF RetireInstance, PlacesAgree
  <2>2. Pool!Seated(leaving) = {}
    BY <1>1, <2>1, OccupantsFinite, FS_EmptySet DEF BooksAgree
  <2>3. /\ pool' = pool \ {leaving} /\ assigned' = assigned
        /\ vm' = [vm EXCEPT ![leaving] = "terminated"]
    BY <1>7 DEF RetireInstance
  <2>4. opened' = opened
    BY <2>1, <2>3 DEF IssuedFromBooks
  <2>5. Pool!Close(leaving)
    BY <2>1, <2>2, <2>3, <2>4 DEF Pool!Close
  <2> QED
    BY <2>1, <2>5 DEF Pool!Next
<1>8. CASE Interrupt
  <2>1. EmptyAvailable \subseteq pool
    BY DEF EmptyAvailable, BooksAgree
  <2>2. opened' = opened
    BY <1>8, <2>1 DEF Interrupt, IssuedFromBooks
  <2> QED
    BY <1>2, <1>8, <2>2 DEF Interrupt
<1>9. \/ LoseMemory /\ opened' = opened
      \/ UNCHANGED <<pool, assigned, opened>>
      \/ CreateInstance \/ AssignInstance \/ ReleaseInstance
      \/ RetireInstance \/ Interrupt
  <2>1. CASE Request
    BY <2>1 DEF Request, Refuse, Register, LoginFirst, LoginAgain,
         LoginAgainKeyError, MainThreadDies, Logout, Delete, DropRecord
  <2>2. CASE MainStep
    BY <2>2 DEF MainStep, AwaitEvent, ClearEvent, DeleteUserRecord, Disconnect,
         DisconnectRefused, MainThreadDies, Reply
  <2>3. CASE ReplyFails \/ AckThreadStep \/ Operator
    BY <2>3 DEF ReplyFails, MainThreadDies, AckThreadStep, DeclareAckQueue,
         DeliverAck, Operator, Start, Kill, InterruptConstructor
  <2>4. CASE \E i \in Instances : InstanceStep(i)
    BY <2>4 DEF InstanceStep, PublishEstablished, Listen
  <2>5. CASE UNCHANGED vars
    BY <2>5 DEF vars
  <2> QED
    BY <2>1, <2>2, <2>3, <2>4, <2>5 DEF Next
<1> QED
  BY <1>2, <1>3, <1>4, <1>5, <1>6, <1>7, <1>8, <1>9

\* The login server implements the abstract pool: seats only where there is
\* room, a new instance only when every seat is taken, no instance closed on
\* anybody, and no id opened twice.
THEOREM ServerImplementsPool == Spec => PoolSpec
<1>1. TypeOK /\ PoolInv /\ [Next]_vars => [Pool!Next]_(Pool!vars)
  BY PoolStep
<1> QED
  BY <1>1, PoolInit, PoolInvariant, PTL DEF Spec, PoolSpec, Pool!Spec

----------------------------------------------------------------------------
(* Instances without users: only the constructor's idles *)

Idle == {i \in pool : quantity[i] = 0}

\* Which booked instance may be without users, at each place of a handler.  A
\* launch books an empty instance and is followed by the login it was for; a
\* release that empties an instance retires it before the server serves again.
IdleKnown ==
  /\ pc \in {"serving", "unregister", "release", "reply"} =>
        \A i \in Idle : pool = {i}
  /\ pc = "create" => Idle = {} /\ (cur = NoUser => pool = {})
  /\ pc \in {"await", "clear", "login"} => Idle \subseteq {Last(stack)}
  /\ pc \in {"await", "clear"} /\ cur = NoUser => pool = {Last(stack)}
  /\ pc \in {"disconnect", "retire"} => Idle \subseteq {leaving}

\* The top of the stack is a booked instance with a free place, and an empty
\* stack means that every booked instance is full.
LEMMA TopOfStack ==
  ASSUME TypeOK, BooksAgree
  PROVE  /\ stack # <<>> => /\ Last(stack) \in pool
                            /\ quantity[Last(stack)] < MaxUsers
         /\ stack = <<>> => \A i \in pool : quantity[i] # 0
<1>1. ASSUME stack # <<>>
      PROVE  Last(stack) \in pool /\ quantity[Last(stack)] < MaxUsers
  <2>1. Last(stack) \in ToSet(stack)
    BY <1>1, FrontDistinct DEF TypeOK, BooksAgree
  <2> QED
    BY <2>1 DEF BooksAgree
<1>2. ASSUME stack = <<>>, NEW i \in pool
      PROVE  quantity[i] # 0
  <2>1. ToSet(stack) = {}
    BY <1>2 DEF ToSet
  <2>2. ~(quantity[i] < MaxUsers)
    BY <2>1 DEF BooksAgree
  <2> QED
    BY <2>2, ConstantAssumption
<1> QED
  BY <1>1, <1>2

\* Every step keeps what is known of instances without users.
LEMMA NextIdle ==
  ASSUME TypeOK, PoolInv, IdleKnown, [Next]_vars
  PROVE  IdleKnown'
<1>0. BooksAgree /\ PlacesAgree
  BY DEF PoolInv
<1>1. CASE pool' = {} /\ pc' \in {"down", "crashed"}
  BY <1>1 DEF IdleKnown, Idle
<1>2. CASE UNCHANGED <<pool, quantity, stack, leaving, pc, cur>>
  BY <1>2 DEF IdleKnown, Idle
<1>3. CASE Start
  BY <1>0, <1>3 DEF Start, PlacesAgree, IdleKnown, Idle
<1>4. CASE Request
  <2>1. ASSUME NEW u \in Users, LoginFirst(u) PROVE IdleKnown'
    <3>1. /\ UNCHANGED <<pool, quantity, stack, leaving>> /\ cur' = u /\ u # NoUser
          /\ pc = "serving" /\ pc' = IF stack = <<>> THEN "create" ELSE "login"
      BY <2>1, ConstantAssumption DEF LoginFirst, Serve
    <3>2. Idle' = Idle
      BY <3>1 DEF Idle
    <3>3. CASE stack = <<>>
      <4>1. Idle = {}
        BY <1>0, <3>3, TopOfStack DEF Idle
      <4> QED
        BY <3>1, <3>2, <3>3, <4>1 DEF IdleKnown
    <3>4. CASE stack # <<>>
      <4>1. Last(stack) \in pool
        BY <1>0, <3>4, TopOfStack
      <4>2. \A i \in Idle : pool = {i}
        BY <3>1 DEF IdleKnown
      <4> QED
        BY <3>1, <3>2, <3>4, <4>1, <4>2 DEF IdleKnown
    <3> QED
      BY <3>3, <3>4
  <2>2. CASE /\ UNCHANGED <<pool, quantity>> /\ pc = "serving"
             /\ pc' \in {"unregister", "release", "reply"}
    BY <2>2 DEF IdleKnown, Idle
  <2> QED
    BY <1>1, <1>4, <2>1, <2>2 DEF Request, Refuse, Register, LoginAgain, LoginAgainKeyError,
       MainThreadDies, LoseMemory, Logout, Delete, DropRecord, Serve
<1>5. CASE CreateInstance
  <2>1. PICK i \in Instances : /\ pool' = pool \cup {i}
                               /\ stack' = Append(stack, i)
                               /\ quantity' = [quantity EXCEPT ![i] = 0]
    BY <1>5 DEF CreateInstance
  <2>2. Last(stack') = i
    <3>1. stack = <<>>
      BY <1>0, <1>5 DEF CreateInstance, PlacesAgree
    <3>2. IsInjective(stack) /\ ToSet(stack) = {}
      BY <1>0, <3>1 DEF BooksAgree, ToSet
    <3> QED
      BY <2>1, <3>2, AppendDistinct DEF TypeOK
  <2>3. /\ pc = "create" /\ pc' = "await" /\ cur' = cur
    BY <1>5 DEF CreateInstance
  <2>4. Idle = {} /\ (cur = NoUser => pool = {})
    BY <2>3 DEF IdleKnown
  <2>5. Idle' \subseteq {i}
    BY <2>1, <2>4 DEF Idle, TypeOK
  <2> QED
    BY <2>1, <2>2, <2>3, <2>4, <2>5 DEF IdleKnown
<1>6. CASE AwaitEvent
  BY <1>6 DEF AwaitEvent, IdleKnown, Idle
<1>7. CASE ClearEvent
  <2>1. /\ UNCHANGED <<pool, quantity, stack, cur>> /\ pc = "clear"
        /\ pc' = IF cur = NoUser THEN "serving" ELSE "login"
    BY <1>7 DEF ClearEvent
  <2> QED
    BY <2>1 DEF IdleKnown, Idle
<1>8. CASE AssignInstance
  <2> DEFINE i == Last(stack)
  <2>1. stack # <<>> /\ Idle \subseteq {i} /\ pc' = "reply" /\ pool' = pool
        /\ quantity' = [quantity EXCEPT ![i] = @ + 1]
    BY <1>0, <1>8 DEF AssignInstance, PlacesAgree, IdleKnown
  <2>2. i \in Instances /\ quantity[i] \in Nat
    BY <1>0, <2>1, TopOfStack, ConstantAssumption DEF TypeOK
  <2> HIDE DEF i
  <2>3. Idle' = {}
    BY <2>1, <2>2 DEF Idle, TypeOK
  <2> QED
    BY <2>1, <2>3 DEF IdleKnown
<1>9. CASE DeleteUserRecord
  BY <1>9 DEF DeleteUserRecord, IdleKnown, Idle
<1>10. CASE ReleaseInstance
  <2>1. CASE assigned[cur] = NoInstance
    BY <1>10, <2>1 DEF ReleaseInstance, IdleKnown, Idle
  <2>2. CASE assigned[cur] # NoInstance
    <3> DEFINE i == assigned[cur]
    <3>1. /\ cur \in Users /\ i \in pool /\ i \in Instances
          /\ pool' = pool /\ quantity' = [quantity EXCEPT ![i] = quantity[i] - 1]
          /\ leaving' = IF quantity[i] - 1 = 0 THEN i ELSE NoInstance
          /\ pc' = IF quantity[i] - 1 = 0 THEN "disconnect" ELSE "reply"
          /\ \A j \in Idle : pool = {j}
      BY <1>0, <1>10, <2>2
         DEF ReleaseInstance, PlacesAgree, BooksAgree, TypeOK, IdleKnown
    <3>2. quantity[i] # 0
      <4>1. cur \in Occupants(i)
        BY <3>1 DEF Occupants
      <4> QED
        BY <1>0, <3>1, <4>1, OccupantsFinite, FS_EmptySet DEF BooksAgree
    <3> HIDE DEF i
    <3>3. Idle = {}
      BY <3>1, <3>2 DEF Idle
    <3>4. Idle' \subseteq {i} /\ (quantity[i] - 1 # 0 => Idle' = {})
      BY <3>1, <3>3 DEF Idle, TypeOK
    <3> QED
      BY <3>1, <3>4 DEF IdleKnown
  <2> QED
    BY <2>1, <2>2
<1>11. CASE Disconnect
  BY <1>11 DEF Disconnect, IdleKnown, Idle
<1>12. CASE RetireInstance
  <2>1. /\ pool' = pool \ {leaving} /\ pc' = "reply" /\ Idle \subseteq {leaving}
        /\ quantity' = [quantity EXCEPT ![leaving] = 0]
    BY <1>12 DEF RetireInstance, IdleKnown
  <2>2. Idle' = {}
    BY <2>1 DEF Idle, TypeOK
  <2> QED
    BY <2>1, <2>2 DEF IdleKnown
<1>13. CASE Reply
  BY <1>0, <1>13 DEF Reply, IdleKnown, Idle
<1>14. \/ pool' = {} /\ pc' \in {"down", "crashed"}
       \/ UNCHANGED <<pool, quantity, stack, leaving, pc, cur>>
       \/ Start \/ Request \/ CreateInstance \/ AwaitEvent \/ ClearEvent
       \/ AssignInstance \/ DeleteUserRecord \/ ReleaseInstance \/ Disconnect
       \/ RetireInstance \/ Reply
  <2>1. CASE MainStep \/ ReplyFails
    BY <2>1 DEF MainStep, DisconnectRefused, ReplyFails, MainThreadDies, LoseMemory
  <2>2. CASE AckThreadStep \/ Operator
    BY <2>2 DEF AckThreadStep, DeclareAckQueue, DeliverAck, Operator, Kill, Interrupt,
         InterruptConstructor, MainThreadDies, LoseMemory
  <2>3. CASE \E i \in Instances : InstanceStep(i)
    BY <2>3 DEF InstanceStep, PublishEstablished, Listen
  <2>4. CASE UNCHANGED vars
    BY <2>4 DEF vars
  <2> QED
    BY <2>1, <2>2, <2>3, <2>4 DEF Next
<1> QED
  BY <1>1, <1>2, <1>3, <1>4, <1>5, <1>6, <1>7, <1>8, <1>9, <1>10, <1>11, <1>12,
     <1>13, <1>14

\* Whenever a request is awaited, an instance without users is the only one:
\* every launch but the constructor's is used at once, and every release that
\* empties an instance retires it, also after crashes and restarts.
THEOREM OnlyTheFirstIdles == Spec => []OnlyFirstInstanceIdles
<1>1. Init => IdleKnown
  BY DEF Init, IdleKnown, Idle
<1>2. TypeOK /\ PoolInv /\ IdleKnown /\ [Next]_vars => IdleKnown'
  BY NextIdle
<1>3. IdleKnown => OnlyFirstInstanceIdles
  BY DEF IdleKnown, Idle, OnlyFirstInstanceIdles
<1> QED
  BY <1>1, <1>2, <1>3, PoolInvariant, PTL DEF Spec

----------------------------------------------------------------------------
(* The first process *)

\* Before the first start nothing runs, nobody is logged in, no ack waits.
NothingYet ==
  starts = 0 => /\ pc = "down" /\ ~event /\ acks = 0 /\ loginUsers = {}
                /\ \A i \in Instances : vm[i] = "unused"
                /\ \A u \in Users : issued[u] = NoInstance

First == starts <= 1 /\ Alive

\* Everyone but the user being served has a record, a mapping and an issued
\* instance, or none of them; the user being served has a record exactly when
\* mapped from the moment the pool has been dealt with.
RecordsSoFar ==
  First =>
    /\ \A u \in Users \ {cur} : /\ u \in loginUsers <=> assigned[u] # NoInstance
                                /\ issued[u] = assigned[u]
    /\ pc \in {"disconnect", "retire", "reply"} /\ cur \in Users =>
          (cur \in loginUsers <=> assigned[cur] # NoInstance)

\* At most one ack is under way, only while a launch waits for it, and it is
\* the ack of the instance just launched: every other one is established.
AcksAreOurs ==
  First =>
    /\ pc # "await" => pool \subseteq published /\ acks = 0
    /\ pc \notin {"await", "clear"} => ~event
    /\ pc = "await" =>
         /\ pool \ {Last(stack)} \subseteq published
         /\ acks <= 1 /\ (event => acks = 0)
         /\ event \/ acks > 0 => pool \subseteq published

\* The inductive invariant of the first process.
FirstInv ==
  /\ NothingYet /\ RecordsSoFar /\ AcksAreOurs /\ NoOrphanInstance
  /\ IssuedInstanceEstablished

LEMMA NextNothingYet ==
  ASSUME TypeOK, PoolInv, NothingYet, [Next]_vars
  PROVE  NothingYet'
<1>1. SUFFICES ASSUME starts' = 0 PROVE NothingYet'
  BY DEF NothingYet
<1>2. starts = 0
  <2>1. starts' = starts \/ Start
    BY DEF Next, Request, Refuse, Register, LoginFirst, LoginAgain, LoginAgainKeyError,
       MainThreadDies, Logout, Delete, DropRecord, MainStep, CreateInstance, AwaitEvent,
       ClearEvent, AssignInstance, DeleteUserRecord, ReleaseInstance, Disconnect,
       DisconnectRefused, RetireInstance, Reply, ReplyFails, AckThreadStep,
       DeclareAckQueue, DeliverAck, Operator, Kill, Interrupt, InterruptConstructor,
       InstanceStep, PublishEstablished, Listen, vars
  <2>2. Start => starts' # 0
    BY DEF Start, TypeOK
  <2> QED
    BY <1>1, <2>1, <2>2
<1>3. /\ pc = "down" /\ ~event /\ acks = 0 /\ loginUsers = {}
      /\ \A i \in Instances : vm[i] = "unused"
      /\ \A u \in Users : issued[u] = NoInstance
  BY <1>2 DEF NothingYet
<1>4. UNCHANGED <<pc, event, acks, loginUsers, vm, issued>>
  <2>1. ~Request /\ ~MainStep /\ ~ReplyFails
    BY <1>3 DEF Request, Refuse, Register, LoginFirst, LoginAgain, LoginAgainKeyError,
       Logout, Delete, DropRecord, Serve, MainStep, CreateInstance, AwaitEvent,
       ClearEvent, AssignInstance, DeleteUserRecord, ReleaseInstance, Disconnect,
       DisconnectRefused, RetireInstance, Reply, ReplyFails
  <2>2. ~Operator
    BY <1>1, <1>2, <1>3
       DEF Operator, Start, Kill, Interrupt, InterruptConstructor, Alive, Handler,
           Constructing
  <2>3. \A i \in Instances : ~InstanceStep(i)
    BY <1>3 DEF InstanceStep, PublishEstablished, Listen
  <2>4. AckThreadStep => UNCHANGED <<pc, event, acks, loginUsers, vm, issued>>
    BY <1>3 DEF AckThreadStep, DeclareAckQueue, DeliverAck
  <2> QED
    BY <2>1, <2>2, <2>3, <2>4 DEF Next, vars
<1> QED
  BY <1>3, <1>4 DEF NothingYet

\* A step that ends in the first process either was taken there, or is the
\* start of it, which finds an empty memory and nothing in AWS or MongoDB.
LEMMA FirstSteps ==
  ASSUME TypeOK, PoolInv, NothingYet, [Next]_vars, First'
  PROVE  \/ First /\ Request /\ ~\E u \in Users : LoginAgainKeyError(u)
         \/ First /\ MainStep /\ ~DisconnectRefused
         \/ First /\ (AckThreadStep \/ \E i \in Instances : InstanceStep(i))
         \/ First /\ UNCHANGED vars
         \/ /\ pc' = "create" /\ cur' = NoUser /\ pool' = {} /\ ~event' /\ acks' = 0
            /\ loginUsers' = {}
            /\ \A i \in Instances : vm'[i] = "unused"
            /\ \A u \in Users : issued'[u] = NoInstance /\ assigned'[u] = NoInstance
<1>1. ~Kill /\ ~Interrupt /\ ~MainThreadDies
  BY DEF First, Alive, Handler, Kill, Interrupt, MainThreadDies
<1>2. ~ReplyFails /\ ~InterruptConstructor /\ ~DisconnectRefused
  BY <1>1 DEF ReplyFails, InterruptConstructor, DisconnectRefused
<1>3. \A u \in Users : ~LoginAgainKeyError(u)
  BY <1>1 DEF LoginAgainKeyError
<1>4. CASE Start
  <2>1. starts = 0 /\ pc = "down"
    BY <1>4 DEF Start, First, TypeOK
  <2>2. pool = {} /\ cur = NoUser
    BY <2>1 DEF PoolInv, PlacesAgree
  <2>3. \A u \in Users : assigned[u] = NoInstance
    BY <2>2 DEF PoolInv, BooksAgree
  <2> QED
    BY <1>4, <2>1, <2>2, <2>3 DEF Start, NothingYet
<1>5. CASE Request
  BY <1>3, <1>5 DEF Request, Refuse, Register, LoginFirst, LoginAgain, Logout, Delete,
     DropRecord, Serve, First, Alive, Handler
<1>6. CASE MainStep
  BY <1>2, <1>6 DEF MainStep, CreateInstance, AwaitEvent, ClearEvent, AssignInstance,
     DeleteUserRecord, ReleaseInstance, Disconnect, RetireInstance, Reply, First, Alive,
     Handler
<1>7. CASE AckThreadStep \/ \E i \in Instances : InstanceStep(i)
  <2>1. UNCHANGED <<pc, starts>>
    BY <1>7 DEF AckThreadStep, DeclareAckQueue, DeliverAck, InstanceStep,
       PublishEstablished, Listen
  <2> QED
    BY <1>7, <2>1 DEF First, Alive
<1>8. CASE UNCHANGED vars
  BY <1>8 DEF vars, First, Alive
<1> QED
  BY <1>1, <1>2, <1>4, <1>5, <1>6, <1>7, <1>8 DEF Next, Operator

\* No instance is lost track of: the launch books what it starts, and the
\* retirement terminates what it strikes off.
LEMMA NextNoOrphan ==
  ASSUME TypeOK, PoolInv, NothingYet, NoOrphanInstance, [Next]_vars
  PROVE  NoOrphanInstance'
<1> DEFINE running == {i \in Instances : vm[i] = "running"}
<1> SUFFICES ASSUME First' PROVE running' = pool'
  BY DEF NoOrphanInstance, First
<1>1. CASE /\ pool' = {} /\ \A i \in Instances : vm'[i] = "unused"
  BY <1>1
<1>2. First => running = pool
  BY DEF NoOrphanInstance, First
<1>3. CASE First /\ UNCHANGED <<vm, pool>>
  BY <1>2, <1>3
<1>4. CASE First /\ CreateInstance
  <2>1. PICK i \in Instances : /\ vm' = [vm EXCEPT ![i] = "running"]
                               /\ pool' = pool \cup {i}
    BY <1>4 DEF CreateInstance
  <2> QED
    BY <1>2, <1>4, <2>1 DEF TypeOK
<1>5. CASE First /\ RetireInstance
  <2>1. /\ vm' = [vm EXCEPT ![leaving] = "terminated"]
        /\ pool' = pool \ {leaving}
    BY <1>5 DEF RetireInstance
  <2> QED
    BY <1>2, <1>5, <2>1 DEF TypeOK
<1>6. CASE First /\ Request /\ ~\E u \in Users : LoginAgainKeyError(u)
  BY <1>3, <1>6 DEF Request, Refuse, Register, LoginFirst, LoginAgain, Logout, Delete,
     DropRecord
<1>7. CASE First /\ MainStep /\ ~DisconnectRefused
  BY <1>3, <1>4, <1>5, <1>7 DEF MainStep, AwaitEvent, ClearEvent, AssignInstance,
     DeleteUserRecord, ReleaseInstance, Disconnect, Reply
<1>8. CASE First /\ (AckThreadStep \/ \E i \in Instances : InstanceStep(i))
  BY <1>3, <1>8 DEF AckThreadStep, DeclareAckQueue, DeliverAck, InstanceStep,
     PublishEstablished, Listen
<1> QED
  BY <1>1, <1>3, <1>6, <1>7, <1>8, FirstSteps DEF vars

\* The login record, the mapping and the issued instance change together, but
\* for the user whose request is being served.
LEMMA NextRecordsSoFar ==
  ASSUME TypeOK, PoolInv, NothingYet, RecordsSoFar, [Next]_vars
  PROVE  RecordsSoFar'
<1> DEFINE Same(u) == UNCHANGED <<(u \in loginUsers), assigned[u], issued[u]>>
           Agree(u) == /\ u \in loginUsers <=> assigned[u] # NoInstance
                       /\ issued[u] = assigned[u]
<1>0. BooksAgree /\ PlacesAgree /\ MappingsRecorded
  BY DEF PoolInv
<1> SUFFICES ASSUME First' PROVE RecordsSoFar'
  BY DEF RecordsSoFar
<1>1. CASE /\ cur' = NoUser /\ pc' = "create" /\ loginUsers' = {}
           /\ \A u \in Users : issued'[u] = NoInstance /\ assigned'[u] = NoInstance
  BY <1>1, ConstantAssumption DEF RecordsSoFar
<1>2. First => /\ \A u \in Users \ {cur} : Agree(u)
               /\ pc \in {"disconnect", "retire", "reply"} /\ cur \in Users =>
                    (cur \in loginUsers <=> assigned[cur] # NoInstance)
  BY DEF RecordsSoFar
<1>3. CASE First /\ UNCHANGED <<pc, cur, loginUsers, assigned, issued>>
  BY <1>2, <1>3 DEF RecordsSoFar
<1>4. CASE First /\ Request /\ ~\E u \in Users : LoginAgainKeyError(u)
  <2>1. pc = "serving" /\ cur = NoUser /\ \A u \in Users : u # cur
    BY <1>0, <1>4, ConstantAssumption DEF Request, Refuse, Register, LoginFirst, LoginAgain,
       LoginAgainKeyError, Logout, Delete, DropRecord, Serve, PlacesAgree
  <2>2. \A u \in Users : Agree(u)
    BY <1>2, <1>4, <2>1
  <2>3. CASE /\ UNCHANGED <<loginUsers, assigned, issued>>
             /\ cur' = NoUser \/ \E u \in Users : LoginAgain(u)
    <3>1. \A u \in Users : Agree(u)'
      BY <2>2, <2>3
    <3> QED
      BY <3>1 DEF RecordsSoFar
  <2>4. ASSUME NEW u \in Users, LoginFirst(u) PROVE RecordsSoFar'
    <3>1. /\ cur' = u /\ pc' \notin {"disconnect", "retire", "reply"}
          /\ loginUsers' = loginUsers \cup {u} /\ UNCHANGED <<assigned, issued>>
      BY <2>4 DEF LoginFirst, Serve
    <3> QED
      BY <2>2, <3>1 DEF RecordsSoFar
  <2>5. ASSUME NEW u \in Users, Logout(u) \/ Delete(u) PROVE RecordsSoFar'
    <3>1. /\ cur' = u /\ pc' \notin {"disconnect", "retire", "reply"}
          /\ loginUsers' = loginUsers \ {u} /\ UNCHANGED assigned
          /\ issued' = [issued EXCEPT ![u] = NoInstance]
      BY <2>5 DEF Logout, Delete, DropRecord, Serve
    <3>2. \A v \in Users \ {u} : issued'[v] = issued[v]
      BY <3>1 DEF TypeOK
    <3> QED
      BY <2>2, <3>1, <3>2 DEF RecordsSoFar
  <2> QED
    BY <1>4, <2>3, <2>4, <2>5 DEF Request, Refuse, Register, LoginAgain, Serve
<1>5. CASE First /\ AssignInstance
  <2> DEFINE i == Last(stack)
  <2>1. /\ cur \in Users /\ cur \in loginUsers /\ stack # <<>>
        /\ assigned' = [assigned EXCEPT ![cur] = i]
        /\ UNCHANGED <<loginUsers, issued, cur>>
    BY <1>0, <1>5, ConstantAssumption DEF AssignInstance, PlacesAgree
  <2>2. i # NoInstance
    BY <1>0, <2>1, TopOfStack, ConstantAssumption DEF TypeOK
  <2> HIDE DEF i
  <2>3. /\ assigned'[cur] # NoInstance
        /\ \A u \in Users \ {cur} : assigned'[u] = assigned[u]
    BY <2>1, <2>2 DEF TypeOK
  <2> QED
    BY <1>2, <1>5, <2>1, <2>3 DEF RecordsSoFar
<1>6. CASE First /\ ReleaseInstance
  <2>1. /\ cur \in Users /\ cur \notin loginUsers /\ UNCHANGED <<loginUsers, issued, cur>>
        /\ assigned' = [assigned EXCEPT ![cur] = NoInstance]
    BY <1>0, <1>6 DEF ReleaseInstance, PlacesAgree, TypeOK
  <2>2. /\ assigned'[cur] = NoInstance
        /\ \A u \in Users \ {cur} : assigned'[u] = assigned[u]
    BY <2>1 DEF TypeOK
  <2> QED
    BY <1>2, <1>6, <2>1, <2>2 DEF RecordsSoFar
<1>7. CASE First /\ Reply
  <2>1. /\ cur' = NoUser /\ pc = "reply" /\ pc' = "serving"
        /\ UNCHANGED <<loginUsers, assigned>>
        /\ issued' = IF cur \in loginUsers THEN [issued EXCEPT ![cur] = assigned[cur]]
                                           ELSE issued
    BY <1>7 DEF Reply
  <2>2. ASSUME NEW u \in Users PROVE Agree(u)'
    <3>1. CASE u # cur
      BY <1>2, <1>7, <2>1, <3>1 DEF TypeOK
    <3>2. CASE u = cur /\ cur \in loginUsers
      BY <1>2, <1>7, <2>1, <3>2 DEF TypeOK
    <3>3. CASE u = cur /\ cur \notin loginUsers
      BY <1>0, <1>2, <1>7, <2>1, <3>3 DEF MappingsRecorded
    <3> QED
      BY <3>1, <3>2, <3>3
  <2> QED
    BY <2>1, <2>2 DEF RecordsSoFar
<1>8. CASE First /\ MainStep /\ ~DisconnectRefused
  <2>1. CASE /\ UNCHANGED <<cur, loginUsers, assigned, issued>>
             /\ pc' \in {"disconnect", "retire", "reply"} => pc \in {"disconnect", "retire"}
    BY <1>2, <1>8, <2>1 DEF RecordsSoFar
  <2> QED
    BY <1>5, <1>6, <1>7, <1>8, <2>1 DEF MainStep, CreateInstance, AwaitEvent, ClearEvent,
       DeleteUserRecord, Disconnect, RetireInstance
<1>9. CASE First /\ (AckThreadStep \/ \E i \in Instances : InstanceStep(i))
  BY <1>3, <1>9 DEF AckThreadStep, DeclareAckQueue, DeliverAck, InstanceStep,
     PublishEstablished, Listen
<1> QED
  BY <1>1, <1>3, <1>4, <1>8, <1>9, FirstSteps DEF vars

\* No ack of another launch is ever pending when an instance is waited for.
LEMMA NextAcks ==
  ASSUME TypeOK, PoolInv, NothingYet, AcksAreOurs, NoOrphanInstance, [Next]_vars
  PROVE  AcksAreOurs'
<1>0. BooksAgree /\ PlacesAgree
  BY DEF PoolInv
<1> SUFFICES ASSUME First' PROVE AcksAreOurs'
  BY DEF AcksAreOurs
<1>1. CASE pc' = "create" /\ pool' = {} /\ ~event' /\ acks' = 0
  BY <1>1 DEF AcksAreOurs
<1>2. First =>
        /\ pc # "await" => pool \subseteq published /\ acks = 0
        /\ pc \notin {"await", "clear"} => ~event
        /\ pc = "await" => /\ pool \ {Last(stack)} \subseteq published
                           /\ acks <= 1 /\ (event => acks = 0)
                           /\ event \/ acks > 0 => pool \subseteq published
  BY DEF AcksAreOurs
<1>3. CASE First /\ UNCHANGED <<pc, pool, stack, event, acks, published>>
  BY <1>2, <1>3 DEF AcksAreOurs
<1>4. CASE /\ First /\ UNCHANGED <<event, acks, published>>
           /\ pool' \subseteq pool
           /\ pc \notin {"await", "clear"} /\ pc' \notin {"await", "clear"}
  BY <1>2, <1>4 DEF AcksAreOurs
<1>5. CASE First /\ CreateInstance
  <2>1. PICK i \in Instances : /\ pool' = pool \cup {i}
                               /\ stack' = Append(stack, i)
    BY <1>5 DEF CreateInstance
  <2>2. Last(stack') = i
    <3>1. stack = <<>>
      BY <1>0, <1>5 DEF CreateInstance, PlacesAgree
    <3>2. IsInjective(stack) /\ ToSet(stack) = {}
      BY <1>0, <3>1 DEF BooksAgree, ToSet
    <3> QED
      BY <2>1, <3>2, AppendDistinct DEF TypeOK
  <2>3. pc = "create" /\ pc' = "await" /\ UNCHANGED <<event, acks, published>>
    BY <1>5 DEF CreateInstance
  <2> QED
    BY <1>2, <1>5, <2>1, <2>2, <2>3 DEF AcksAreOurs
<1>6. CASE First /\ AwaitEvent
  BY <1>2, <1>6 DEF AwaitEvent, AcksAreOurs
<1>7. CASE First /\ ClearEvent
  <2>1. /\ pc = "clear" /\ pc' \in {"serving", "login"} /\ ~event'
        /\ UNCHANGED <<pool, published, acks>>
    BY <1>7 DEF ClearEvent
  <2> QED
    BY <1>2, <1>7, <2>1 DEF AcksAreOurs
<1>8. CASE First /\ Request /\ ~\E u \in Users : LoginAgainKeyError(u)
  BY <1>4, <1>8 DEF Request, Refuse, Register, LoginFirst, LoginAgain, Logout, Delete,
     DropRecord, Serve
<1>9. CASE First /\ MainStep /\ ~DisconnectRefused
  BY <1>4, <1>5, <1>6, <1>7, <1>9 DEF MainStep, AssignInstance, DeleteUserRecord,
     ReleaseInstance, Disconnect, RetireInstance, Reply
<1>10. CASE First /\ DeliverAck
  <2>1. /\ acks > 0 /\ acks' = acks - 1 /\ event' = TRUE
        /\ UNCHANGED <<pc, pool, stack, published>>
    BY <1>10 DEF DeliverAck
  <2>2. pc = "await" /\ acks = 1 /\ pool \subseteq published
    BY <1>2, <1>10, <2>1 DEF TypeOK
  <2> QED
    BY <2>1, <2>2 DEF AcksAreOurs
<1>11. ASSUME First, NEW i \in Instances, PublishEstablished(i)
       PROVE  AcksAreOurs'
  <2>1. /\ vm[i] = "running" /\ i \notin published /\ published' = published \cup {i}
        /\ acks' = IF bound THEN acks + 1 ELSE acks
        /\ UNCHANGED <<pc, pool, stack, event>>
    BY <1>11 DEF PublishEstablished
  <2>2. i \in pool
    BY <1>11, <2>1 DEF NoOrphanInstance, First
  <2>3. \/ pc = "clear" /\ pool \subseteq published
        \/ pc = "await" /\ i = Last(stack) /\ ~event /\ acks = 0
    BY <1>2, <1>11, <2>1, <2>2 DEF TypeOK
  <2>4. pc = "await" /\ i = Last(stack) /\ ~event /\ acks = 0
    BY <2>1, <2>2, <2>3
  <2>5. pool \subseteq published' /\ acks' <= 1
    BY <1>2, <1>11, <2>1, <2>4
  <2> QED
    BY <2>1, <2>4, <2>5 DEF AcksAreOurs
<1>12. CASE First /\ (AckThreadStep \/ \E i \in Instances : InstanceStep(i))
  BY <1>3, <1>10, <1>11, <1>12 DEF AckThreadStep, DeclareAckQueue, InstanceStep, Listen
<1> QED
  BY <1>1, <1>3, <1>8, <1>9, <1>12, FirstSteps DEF vars

\* Whoever is told of an instance is told when no ack is outstanding.
LEMMA NextEstablished ==
  ASSUME TypeOK, PoolInv, NothingYet, AcksAreOurs, IssuedInstanceEstablished, [Next]_vars
  PROVE  IssuedInstanceEstablished'
<1> SUFFICES ASSUME starts' <= 1 PROVE \A u \in Users : issued'[u] \in published' \cup {NoInstance}
  BY DEF IssuedInstanceEstablished
<1>1. starts <= 1 /\ (starts' = starts \/ Start)
  BY DEF Next, Request, Refuse, Register, LoginFirst, LoginAgain, LoginAgainKeyError,
     MainThreadDies, Logout, Delete, DropRecord, MainStep, CreateInstance, AwaitEvent,
     ClearEvent, AssignInstance, DeleteUserRecord, ReleaseInstance, Disconnect,
     DisconnectRefused, RetireInstance, Reply, ReplyFails, AckThreadStep,
     DeclareAckQueue, DeliverAck, Operator, Start, Kill, Interrupt, InterruptConstructor,
     InstanceStep, PublishEstablished, Listen, vars, TypeOK
<1>2. \A u \in Users : issued[u] \in published \cup {NoInstance}
  BY <1>1 DEF IssuedInstanceEstablished
<1>3. published \subseteq published'
  BY DEF Next, Request, Refuse, Register, LoginFirst, LoginAgain, LoginAgainKeyError,
     MainThreadDies, Logout, Delete, DropRecord, MainStep, CreateInstance, AwaitEvent,
     ClearEvent, AssignInstance, DeleteUserRecord, ReleaseInstance, Disconnect,
     DisconnectRefused, RetireInstance, Reply, ReplyFails, AckThreadStep,
     DeclareAckQueue, DeliverAck, Operator, Start, Kill, Interrupt, InterruptConstructor,
     InstanceStep, PublishEstablished, Listen, vars
<1>4. CASE Reply
  <2>1. First /\ pc = "reply"
    BY <1>1, <1>4 DEF Reply, First, Alive, Handler
  <2>2. pool \subseteq published
    BY <2>1 DEF AcksAreOurs
  <2>3. assigned[cur] \in published \cup {NoInstance} \/ cur \notin loginUsers
    BY <2>2 DEF PoolInv, BooksAgree, TypeOK
  <2>4. issued' = IF cur \in loginUsers THEN [issued EXCEPT ![cur] = assigned[cur]]
                                        ELSE issued
    BY <1>4 DEF Reply
  <2> QED
    BY <1>2, <1>3, <2>3, <2>4 DEF TypeOK
<1>5. CASE ~Reply
  <2>1. \A u \in Users : issued'[u] \in {issued[u], NoInstance}
    BY <1>5 DEF Next, Request, Refuse, Register, LoginFirst, LoginAgain, LoginAgainKeyError,
     MainThreadDies, Logout, Delete, DropRecord, MainStep, CreateInstance, AwaitEvent,
     ClearEvent, AssignInstance, DeleteUserRecord, ReleaseInstance, Disconnect,
     DisconnectRefused, RetireInstance, ReplyFails, AckThreadStep,
     DeclareAckQueue, DeliverAck, Operator, Start, Kill, Interrupt, InterruptConstructor,
     InstanceStep, PublishEstablished, Listen, vars, TypeOK
  <2> QED
    BY <1>2, <1>3, <2>1
<1> QED
  BY <1>4, <1>5

\* The five parts are inductive together, on top of the pool's invariant.
LEMMA FirstProcess == Spec => []FirstInv
<1>1. Init => FirstInv
  <2>1. Init => ~First
    BY DEF Init, First, Alive, Handler
  <2> QED
    BY <2>1 DEF Init, FirstInv, NothingYet, RecordsSoFar, AcksAreOurs, NoOrphanInstance,
       IssuedInstanceEstablished, First
<1>2. TypeOK /\ PoolInv /\ FirstInv /\ [Next]_vars => FirstInv'
  <2> SUFFICES ASSUME TypeOK, PoolInv, FirstInv, [Next]_vars PROVE FirstInv'
    OBVIOUS
  <2>1. NothingYet' /\ NoOrphanInstance'
    BY NextNothingYet, NextNoOrphan DEF FirstInv
  <2>2. RecordsSoFar' /\ AcksAreOurs' /\ IssuedInstanceEstablished'
    BY NextRecordsSoFar, NextAcks, NextEstablished DEF FirstInv
  <2> QED
    BY <2>1, <2>2 DEF FirstInv
<1> QED
  BY <1>1, <1>2, PoolInvariant, PTL DEF Spec

\* In the first process, between two requests, the records in MongoDB, the
\* mapping in memory and the instances the users were told are the same.
THEOREM RecordsAlwaysMatch == Spec => []RecordsMatchMapping
<1>1. TypeOK /\ PoolInv /\ FirstInv => RecordsMatchMapping
  <2> SUFFICES ASSUME TypeOK, PoolInv, FirstInv, starts <= 1, pc = "serving",
                      NEW u \in Users
               PROVE  /\ u \in loginUsers <=> assigned[u] # NoInstance
                      /\ issued[u] = assigned[u]
    BY DEF RecordsMatchMapping
  <2>1. First /\ u # cur
    BY ConstantAssumption DEF First, Alive, PoolInv, PlacesAgree
  <2> QED
    BY <2>1 DEF FirstInv, RecordsSoFar
<1> QED
  BY <1>1, PoolInvariant, FirstProcess, PTL

\* In the first process the single shared event is enough: whoever is told of
\* an instance is told after that instance has announced its connection.
THEOREM IssuedIsEstablished == Spec => []IssuedInstanceEstablished
<1>1. FirstInv => IssuedInstanceEstablished
  BY DEF FirstInv
<1> QED
  BY <1>1, FirstProcess, PTL

\* The first process, as long as it runs, has every running instance in its
\* books, whatever was launched, released and retired.
THEOREM NoInstanceOrphaned == Spec => []NoOrphanInstance
<1>1. FirstInv => NoOrphanInstance
  BY DEF FirstInv
<1> QED
  BY <1>1, FirstProcess, PTL
=============================================================================
