---------------------------- MODULE StackLemmas ----------------------------
(***************************************************************************)
(* What the operations the login server performs on its stack of available *)
(* instances (append, pop, remove) do to a sequence without duplicates.    *)
(***************************************************************************)
EXTENDS Integers, SequencesExt, FiniteSetTheorems, SequenceTheorems, TLAPS

\* Appending a new element keeps a sequence free of duplicates.
LEMMA AppendDistinct ==
  ASSUME NEW S, NEW s \in Seq(S), NEW e \in S,
         IsInjective(s), e \notin ToSet(s)
  PROVE  /\ Append(s, e) \in Seq(S)
         /\ Append(s, e) # <<>>
         /\ IsInjective(Append(s, e))
         /\ ToSet(Append(s, e)) = ToSet(s) \cup {e}
         /\ Last(Append(s, e)) = e
<1> DEFINE t == Append(s, e)
           n == Len(s)
<1>1. /\ t \in Seq(S) /\ t # <<>> /\ Len(t) = n + 1
      /\ \A k \in 1..n : t[k] = s[k]
      /\ t[n + 1] = e
  BY AppendProperties
<1>2. n \in Nat /\ DOMAIN s = 1..n /\ DOMAIN t = 1..(n + 1)
  BY <1>1, LenProperties
<1> HIDE DEF t, n
<1>3. \A k \in 1..n : s[k] # e
  BY <1>2 DEF ToSet
<1>4. IsInjective(t)
  BY <1>1, <1>2, <1>3 DEF IsInjective
<1>5. ToSet(t) = ToSet(s) \cup {e}
  BY <1>1, <1>2 DEF ToSet
<1>6. Last(t) = e
  BY <1>1 DEF Last
<1> QED
  BY <1>1, <1>4, <1>5, <1>6 DEF t

\* Popping the top leaves a duplicate-free sequence with every other element.
LEMMA FrontDistinct ==
  ASSUME NEW S, NEW s \in Seq(S), s # <<>>, IsInjective(s)
  PROVE  /\ Last(s) \in S
         /\ Last(s) \in ToSet(s)
         /\ Front(s) \in Seq(S)
         /\ IsInjective(Front(s))
         /\ ToSet(Front(s)) = ToSet(s) \ {Last(s)}
<1> DEFINE t == Front(s)
           n == Len(s)
<1>1. n \in Nat \ {0} /\ DOMAIN s = 1..n /\ \A k \in 1..n : s[k] \in S
  BY LenProperties, EmptySeq, ElementOfSeq
<1>2. /\ t \in Seq(S) /\ Len(t) = n - 1
      /\ \A k \in 1..(n - 1) : t[k] = s[k]
  BY <1>1, SubSeqProperties DEF Front
<1>3. DOMAIN t = 1..(n - 1)
  BY <1>2, LenProperties
<1> HIDE DEF t
<1>4. IsInjective(t)
  BY <1>1, <1>2, <1>3 DEF IsInjective
<1>5. ToSet(t) = ToSet(s) \ {Last(s)}
  <2>1. \A k \in 1..(n - 1) : s[k] # s[n]
    BY <1>1 DEF IsInjective
  <2> QED
    BY <1>1, <1>2, <1>3, <2>1 DEF ToSet, Last
<1>6. Last(s) \in S /\ Last(s) \in ToSet(s)
  BY <1>1 DEF Last, ToSet
<1> QED
  BY <1>2, <1>4, <1>5, <1>6 DEF t

\* Removing an element that occurs once leaves every other element once.
LEMMA RemoveFirstDistinct ==
  ASSUME NEW S, NEW s \in Seq(S), NEW e \in ToSet(s), IsInjective(s)
  PROVE  /\ RemoveFirst(s, e) \in Seq(S)
         /\ IsInjective(RemoveFirst(s, e))
         /\ ToSet(RemoveFirst(s, e)) = ToSet(s) \ {e}
<1> DEFINE n == Len(s)
<1>1. n \in Nat /\ DOMAIN s = 1..n /\ \A j \in 1..n : s[j] \in S
  BY LenProperties, ElementOfSeq
<1>2. PICK k \in 1..n : s[k] = e
  BY <1>1 DEF ToSet
<1>3. {j \in 1..n : s[j] = e} = {k}
  BY <1>1, <1>2 DEF IsInjective
<1>4. Min({k}) = k
  BY <1>1, <1>2 DEF Min
<1>5. SelectInSeq(s, LAMBDA v : v = e) = k
  BY <1>3, <1>4 DEF SelectInSeq
<1> DEFINE a == SubSeq(s, 1, k - 1)
           b == SubSeq(s, k + 1, n)
           t == a \o b
<1>6. RemoveFirst(s, e) = t
  BY <1>2, <1>5 DEF RemoveFirst, RemoveAt
<1>7. /\ a \in Seq(S) /\ Len(a) = k - 1
      /\ \A j \in 1..(k - 1) : a[j] = s[j]
  BY <1>1, <1>2, SubSeqProperties
<1>8. /\ b \in Seq(S) /\ Len(b) = n - k
      /\ \A j \in 1..(n - k) : b[j] = s[k + j]
  <2>1. /\ k + 1 \in Int /\ n \in Int
        /\ \A j \in (k + 1)..n : s[j] \in S
    BY <1>1, <1>2
  <2>2. /\ b \in Seq(S)
        /\ Len(b) = IF k + 1 <= n THEN n - (k + 1) + 1 ELSE 0
        /\ \A j \in 1..(n - (k + 1) + 1) : b[j] = s[(k + 1) + j - 1]
    BY <2>1, SubSeqProperties
  <2>0. n \in Nat /\ k \in Nat /\ k <= n
    BY <1>1, <1>2
  <2> HIDE DEF b, n
  <2>3. /\ n - (k + 1) + 1 = n - k
        /\ (IF k + 1 <= n THEN n - (k + 1) + 1 ELSE 0) = n - k
    BY <2>0
  <2>4. ASSUME NEW j \in 1..(n - k) PROVE b[j] = s[k + j]
    <3>1. j \in 1..(n - (k + 1) + 1)
      BY <2>3
    <3>2. b[j] = s[(k + 1) + j - 1]
      BY <2>2, <3>1
    <3>3. (k + 1) + j - 1 = k + j
      BY <2>0
    <3> QED
      BY <3>2, <3>3
  <2> QED
    BY <2>2, <2>3, <2>4
<1> HIDE DEF a, b
<1>9. /\ t \in Seq(S) /\ Len(t) = n - 1
      /\ \A j \in 1..(n - 1) : t[j] = IF j <= k - 1 THEN a[j] ELSE b[j - (k - 1)]
  <2>1. /\ t \in Seq(S) /\ Len(t) = Len(a) + Len(b)
        /\ \A j \in 1..(Len(a) + Len(b)) :
              t[j] = IF j <= Len(a) THEN a[j] ELSE b[j - Len(a)]
    BY <1>7, <1>8, ConcatProperties
  <2>2. Len(a) = k - 1 /\ Len(a) + Len(b) = n - 1
    BY <1>1, <1>2, <1>7, <1>8
  <2> QED
    BY <2>1, <2>2
<1>10. \A j \in 1..(n - 1) : t[j] = IF j < k THEN s[j] ELSE s[j + 1]
  BY <1>1, <1>2, <1>7, <1>8, <1>9
<1>11. DOMAIN t = 1..(n - 1)
  BY <1>9, LenProperties
<1> HIDE DEF t
<1>12. IsInjective(t)
  <2>1. SUFFICES ASSUME NEW i \in 1..(n - 1), NEW j \in 1..(n - 1), t[i] = t[j]
                 PROVE  i = j
    BY <1>11 DEF IsInjective
  <2> DEFINE old(m) == IF m < k THEN m ELSE m + 1
  <2>2. /\ old(i) \in 1..n /\ old(j) \in 1..n
        /\ s[old(i)] = s[old(j)]
    BY <1>1, <1>10, <2>1
  <2>3. old(i) = old(j)
    BY <1>1, <2>2 DEF IsInjective
  <2> QED
    BY <1>1, <1>2, <2>3
<1>13. ToSet(t) = ToSet(s) \ {e}
  <2>1. ASSUME NEW x \in ToSet(t) PROVE x \in ToSet(s) \ {e}
    <3>1. PICK j \in 1..(n - 1) : x = t[j]
      BY <1>11 DEF ToSet
    <3> QED
      BY <1>1, <1>2, <1>3, <1>10, <3>1 DEF ToSet
  <2>2. ASSUME NEW x \in ToSet(s) \ {e} PROVE x \in ToSet(t)
    <3>1. PICK j \in 1..n : x = s[j] /\ j # k
      BY <1>1, <1>2 DEF ToSet
    <3>2. CASE j < k
      <4>1. j \in 1..(n - 1) /\ t[j] = x
        BY <1>1, <1>2, <1>10, <3>1, <3>2
      <4> QED
        BY <1>11, <4>1 DEF ToSet
    <3>3. CASE j > k
      <4>1. j - 1 \in 1..(n - 1) /\ t[j - 1] = x
        BY <1>1, <1>2, <1>10, <3>1, <3>3
      <4> QED
        BY <1>11, <4>1 DEF ToSet
    <3> QED
      BY <1>1, <3>1, <3>2, <3>3
  <2> QED
    BY <2>1, <2>2
<1> QED
  BY <1>6, <1>9, <1>12, <1>13
=============================================================================
