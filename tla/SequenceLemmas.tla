-------------------------- MODULE SequenceLemmas --------------------------
(***************************************************************************)
(* What module SeqFilter leaves of a sequence, lists known by what they    *)
(* have at which place, and lines that are cut in two.                     *)
(***************************************************************************)
EXTENDS SeqFilter, FiniteSetTheorems, SequenceTheorems, WellFoundedInduction, TLAPS

(* Of a set of positions, each is the n-th for one n, and the n-th is      *)
(* before the m-th if n is less than m.                                    *)
LEMMA Ranked ==
  ASSUME NEW n \in Nat, NEW A \in SUBSET (1..n)
  PROVE  /\ Cardinality(A) \in Nat
         /\ \A i \in A : /\ Cardinality(UpTo(A, i)) \in Nat
                          /\ Cardinality(UpTo(A, i)) \in 1..Cardinality(A)
         /\ \A i, j \in A : i < j => Cardinality(UpTo(A, i)) < Cardinality(UpTo(A, j))
<1>1. IsFiniteSet(A) /\ Cardinality(A) \in Nat
  <2>1. IsFiniteSet(1..n)
    BY FS_Interval
  <2>2. IsFiniteSet(A)
    BY <2>1, FS_Subset
  <2> QED
    BY <2>2, FS_CardinalityType
<1>2. ASSUME NEW i \in A
      PROVE  /\ IsFiniteSet(UpTo(A, i))
             /\ Cardinality(UpTo(A, i)) \in Nat
             /\ Cardinality(UpTo(A, i)) \in 1..Cardinality(A)
  <2>1. UpTo(A, i) \in SUBSET A /\ i \in UpTo(A, i)
    BY DEF UpTo
  <2>2. IsFiniteSet(UpTo(A, i)) /\ Cardinality(UpTo(A, i)) <= Cardinality(A)
    BY <1>1, <2>1, FS_Subset
  <2>3. Cardinality(UpTo(A, i)) \in Nat /\ Cardinality(UpTo(A, i)) # 0
    BY <2>1, <2>2, FS_CardinalityType, FS_EmptySet
  <2> QED
    BY <1>1, <2>2, <2>3
<1>3. ASSUME NEW i \in A, NEW j \in A, i < j
      PROVE  Cardinality(UpTo(A, i)) < Cardinality(UpTo(A, j))
  <2>1. UpTo(A, i) \in SUBSET UpTo(A, j) /\ j \in UpTo(A, j) /\ j \notin UpTo(A, i)
    <3>1. i \in Int /\ j \in Int
      OBVIOUS
    <3>2. \A m \in A : m \in Int
      OBVIOUS
    <3>3. ASSUME NEW m \in UpTo(A, i) PROVE m \in UpTo(A, j)
      <4>1. m \in A /\ m \in Int /\ m <= i
        BY <3>2 DEF UpTo
      <4> QED
        BY <1>3, <3>1, <4>1 DEF UpTo
    <3>4. j \in UpTo(A, j) /\ j \notin UpTo(A, i)
      BY <1>3, <3>1 DEF UpTo
    <3> QED
      BY <3>3, <3>4
  <2>2. /\ Cardinality(UpTo(A, i)) <= Cardinality(UpTo(A, j))
        /\ Cardinality(UpTo(A, i)) # Cardinality(UpTo(A, j))
    BY <1>2, <2>1, FS_Subset
  <2>3. Cardinality(UpTo(A, i)) \in Nat /\ Cardinality(UpTo(A, j)) \in Nat
    BY <1>1, <1>2
  <2> QED
    BY <2>2, <2>3
<1> QED
  BY <1>1, <1>2, <1>3

(* There is an n-th, up to the number of positions there are: no other set *)
(* of ranks would have room for all of them.                               *)
LEMMA NthIsThere ==
  ASSUME NEW n \in Nat, NEW A \in SUBSET (1..n), NEW k \in 1..Cardinality(A)
  PROVE  Nth(A, k) \in A /\ Cardinality(UpTo(A, Nth(A, k))) = k
<1>1. IsFiniteSet(A) /\ Cardinality(A) \in Nat
  <2>1. IsFiniteSet(1..n)
    BY FS_Interval
  <2>2. IsFiniteSet(A)
    BY <2>1, FS_Subset
  <2> QED
    BY <2>2, FS_CardinalityType
<1>2. SUFFICES \E i \in A : Cardinality(UpTo(A, i)) = k
  BY DEF Nth
<1>3. SUFFICES ASSUME \A i \in A : Cardinality(UpTo(A, i)) # k PROVE FALSE
  OBVIOUS
<1> DEFINE ranks == (1..Cardinality(A)) \ {k}
           rank  == [i \in A |-> Cardinality(UpTo(A, i))]
<1>4. rank \in [A -> ranks]
  BY <1>3, Ranked
<1>5. IsFiniteSet(ranks) /\ Cardinality(ranks) = Cardinality(A) - 1
  <2>1. IsFiniteSet(1..Cardinality(A)) /\ Cardinality(1..Cardinality(A)) = Cardinality(A)
    BY <1>1, FS_Interval
  <2> QED
    BY <2>1, FS_RemoveElement
<1>6. \E i, j \in A : i # j /\ rank[i] = rank[j]
  <2> HIDE DEF ranks, rank
  <2> QED
    <3>1. IsFiniteSet(ranks) /\ Cardinality(ranks) < Cardinality(A)
      BY <1>1, <1>5
    <3> QED
      BY <1>1, <1>4, <3>1, FS_PigeonHole
<1>7. PICK i \in A, j \in A : i < j /\ Cardinality(UpTo(A, i)) = Cardinality(UpTo(A, j))
  BY <1>6
<1> QED
  <2>1. Cardinality(UpTo(A, i)) < Cardinality(UpTo(A, j))
    BY <1>7, Ranked
  <2>2. Cardinality(UpTo(A, i)) \in Nat
    BY Ranked
  <2> QED
    BY <1>7, <2>1, <2>2

(* What is left of a sequence: elements of it that are in the set, all of  *)
(* those, and none twice that was not there twice.                         *)
LEMMA FilterKeeps ==
  ASSUME NEW S, NEW s \in Seq(S), NEW K
  PROVE  /\ Filter(s, K) \in Seq(S)
         /\ \A k \in 1..Len(Filter(s, K)) :
              Filter(s, K)[k] \in K /\ \E i \in 1..Len(s) : Filter(s, K)[k] = s[i]
         /\ \A i \in 1..Len(s) :
              s[i] \in K => \E k \in 1..Len(Filter(s, K)) : Filter(s, K)[k] = s[i]
         /\ (\A i, j \in 1..Len(s) : s[i] = s[j] => i = j) =>
              \A k, m \in 1..Len(Filter(s, K)) : Filter(s, K)[k] = Filter(s, K)[m] => k = m
<1> DEFINE A == Staying(s, K)
           f == Filter(s, K)
<1>1. Len(s) \in Nat /\ A \in SUBSET (1..Len(s))
  BY DEF Staying
<1>2. Cardinality(A) \in Nat
  BY <1>1, Ranked
<1>3. ASSUME NEW k \in 1..Cardinality(A)
      PROVE  Nth(A, k) \in A /\ Cardinality(UpTo(A, Nth(A, k))) = k
  <2> HIDE DEF A
  <2> QED
    BY <1>1, NthIsThere
<1>4. \A i \in A : i \in 1..Len(s) /\ s[i] \in S /\ s[i] \in K
  BY DEF Staying
<1>5. f = [k \in 1..Cardinality(A) |-> s[Nth(A, k)]]
  BY DEF Filter, Picked
<1>6. \A i \in 1..Len(s) : s[i] \in K => i \in A
  BY DEF Staying
<1>7. ASSUME NEW i \in A
      PROVE  /\ Cardinality(UpTo(A, i)) \in 1..Cardinality(A)
             /\ Nth(A, Cardinality(UpTo(A, i))) = i
  <2> DEFINE k == Cardinality(UpTo(A, i))
  <2>1. k \in 1..Cardinality(A)
    BY <1>1, Ranked
  <2>2. Nth(A, k) \in A /\ Cardinality(UpTo(A, Nth(A, k))) = k
    BY <2>1, <1>3
  <2>3. ASSUME NEW j \in A, i < j \/ j < i
        PROVE  Cardinality(UpTo(A, j)) # k
    <3>1. Cardinality(UpTo(A, j)) \in Nat /\ k \in Nat
      BY <1>1, Ranked
    <3>2. Cardinality(UpTo(A, j)) < k \/ k < Cardinality(UpTo(A, j))
      BY <1>1, <2>3, Ranked
    <3> QED
      BY <3>1, <3>2
  <2> QED
    BY <1>1, <2>1, <2>2, <2>3
<1> HIDE DEF A, f
<1>8. f \in Seq(S) /\ Len(f) = Cardinality(A)
  BY <1>2, <1>3, <1>4, <1>5
<1>9. \A k \in 1..Len(f) : f[k] \in K /\ \E i \in 1..Len(s) : f[k] = s[i]
  BY <1>3, <1>4, <1>5, <1>8
<1>10. \A i \in 1..Len(s) : s[i] \in K => \E k \in 1..Len(f) : f[k] = s[i]
  BY <1>5, <1>6, <1>7, <1>8
<1>11. ASSUME \A i, j \in 1..Len(s) : s[i] = s[j] => i = j,
              NEW k \in 1..Len(f), NEW m \in 1..Len(f), f[k] = f[m]
       PROVE  k = m
  <2>1. /\ Nth(A, k) \in 1..Len(s) /\ Nth(A, m) \in 1..Len(s)
        /\ f[k] = s[Nth(A, k)] /\ f[m] = s[Nth(A, m)]
    BY <1>3, <1>4, <1>5, <1>8
  <2>2. Nth(A, k) = Nth(A, m)
    BY <1>11, <2>1
  <2> QED
    BY <1>3, <1>8, <2>2
<1> QED
  BY <1>8, <1>9, <1>10, <1>11 DEF f

(* The last element, if it stays, stays the last. *)
LEMMA FilterKeepsLast ==
  ASSUME NEW S, NEW s \in Seq(S), NEW K, s # <<>>, s[Len(s)] \in K
  PROVE  Filter(s, K) # <<>> /\ Filter(s, K)[Len(Filter(s, K))] = s[Len(s)]
<1> DEFINE A == Staying(s, K)
           n == Len(s)
           c == Cardinality(A)
<1>1. n \in Nat /\ n # 0 /\ A \in SUBSET (1..n) /\ n \in A
  BY DEF Staying
<1>2. Filter(s, K) = [k \in 1..c |-> s[Nth(A, k)]]
  BY DEF Filter, Picked
<1> HIDE DEF A, n
<1>3. c \in Nat /\ c # 0
  <2>1. c \in Nat /\ Cardinality(UpTo(A, n)) \in 1..c
    BY <1>1, Ranked
  <2> QED
    BY <2>1
<1>4. UpTo(A, n) = A
  <2>1. ASSUME NEW j \in A PROVE j \in Nat /\ j <= n
    BY <1>1
  <2> QED
    BY <2>1 DEF UpTo
<1>5. Nth(A, c) \in A /\ Cardinality(UpTo(A, Nth(A, c))) = c
  <2>1. c \in 1..c
    BY <1>3
  <2> QED
    BY <1>1, <2>1, NthIsThere
<1>6. Nth(A, c) = n
  <2>1. ASSUME Nth(A, c) # n PROVE FALSE
    <3>1. Nth(A, c) < n
      <4>1. Nth(A, c) \in 1..n
        BY <1>1, <1>5
      <4> QED
        BY <1>1, <2>1, <4>1
    <3>2. Cardinality(UpTo(A, Nth(A, c))) < Cardinality(UpTo(A, n))
      BY <1>1, <1>5, <3>1, Ranked
    <3> QED
      BY <1>3, <1>4, <1>5, <3>2
  <2> QED
    BY <2>1
<1>7. Len(Filter(s, K)) = c /\ Filter(s, K)[c] = s[n]
  BY <1>2, <1>3, <1>6
<1> QED
  BY <1>3, <1>7 DEF n

(* Of the positions where something is found, one comes first. *)
LEMMA FirstIsThere ==
  ASSUME NEW T, T \subseteq Nat, T # {}
  PROVE  \E k \in T : \A j \in T : k <= j
<1> DEFINE Lt == {p \in Nat \X Nat : p[1] < p[2]}
<1>1. IsWellFoundedOn(Lt, Nat)
  BY NatLessThanWellFounded, Zenon DEF OpToRel
<1>2. PICK m \in T : \A y \in Nat : <<y, m>> \in Lt => ~(y \in T)
  <2>1. PICK x \in T : x \in Nat
    OBVIOUS
  <2> HIDE DEF Lt
  <2> QED
    BY <1>1, <2>1, WFMin
<1>3. ASSUME NEW j \in T PROVE m <= j
  <2>1. ~(<<j, m>> \in Lt)
    BY <1>2, <1>3
  <2>2. ~(j < m)
    <3>1. m \in Nat /\ j \in Nat
      BY <1>2, <1>3
    <3> QED
      BY <2>1, <3>1
  <2>3. m \in Nat /\ j \in Nat
    BY <1>2, <1>3
  <2> QED
    BY <2>2, <2>3
<1> QED
  BY <1>2, <1>3

(* What holds of 0 and goes from each number to the next holds up to n.    *)
LEMMA Reached ==
  ASSUME NEW n \in Nat, NEW P, 0 \in P, \A k \in 0..n - 1 : k \in P => k + 1 \in P
  PROVE  \A k \in 0..n : k \in P
<1> DEFINE T == {k \in 0..n : k \notin P}
<1>1. SUFFICES ASSUME T # {} PROVE FALSE
  OBVIOUS
<1>2. PICK k \in T : \A j \in T : k <= j
  <2>1. T \subseteq Nat
    OBVIOUS
  <2> HIDE DEF T
  <2> QED
    BY <1>1, <2>1, FirstIsThere
<1>3. k # 0 /\ k - 1 \in 0..n - 1 /\ k - 1 \notin T
  BY <1>2
<1>4. k - 1 \in P /\ (k - 1) + 1 = k
  BY <1>3
<1>5. k \in P
  BY <1>3, <1>4
<1> QED
  BY <1>2, <1>5

(* q lists the elements of s at the positions A, in their order; f says    *)
(* where each comes from.                                                  *)
IsListBy(q, s, A, f) ==
  /\ f \in [1..Len(q) -> A]
  /\ \A k \in 1..Len(q) : q[k] = s[f[k]]
  /\ \A j, k \in 1..Len(q) : j < k => f[j] < f[k]
  /\ \A i \in A : \E k \in 1..Len(q) : f[k] = i
IsListOf(q, s, A) == \E f : IsListBy(q, s, A, f)

(* There is one such sequence: the one that was picked.                    *)
LEMMA ListsThePicked ==
  ASSUME NEW S, NEW s \in Seq(S), NEW A \in SUBSET (1..Len(s)),
         NEW T, NEW q \in Seq(T), IsListOf(q, s, A)
  PROVE  q = Picked(s, A)
<1>1. PICK f : IsListBy(q, s, A, f)
  BY DEF IsListOf
<1> DEFINE n == Len(q)
<1>2. /\ n \in Nat /\ f \in [1..n -> A]
      /\ \A k \in 1..n : q[k] = s[f[k]] /\ f[k] \in A /\ f[k] \in Int
      /\ \A j, k \in 1..n : j < k => f[j] < f[k]
      /\ \A i \in A : \E k \in 1..n : f[k] = i
  <2>1. /\ f \in [1..n -> A]
        /\ \A k \in 1..n : q[k] = s[f[k]]
        /\ \A j, k \in 1..n : j < k => f[j] < f[k]
        /\ \A i \in A : \E k \in 1..n : f[k] = i
    BY <1>1 DEF IsListBy
  <2>2. \A i \in A : i \in Int
    OBVIOUS
  <2>3. n \in Nat
    OBVIOUS
  <2> HIDE DEF n
  <2>4. \A k \in 1..n : f[k] \in A /\ f[k] \in Int
    BY <2>1, <2>2
  <2> QED
    BY <2>1, <2>3, <2>4
<1> HIDE DEF n
<1>3. \A j, k \in 1..n : f[j] = f[k] => j = k
  <2>1. ASSUME NEW j \in 1..n, NEW k \in 1..n, j # k PROVE f[j] # f[k]
    <3>1. j < k \/ k < j
      BY <1>2, <2>1
    <3>2. f[j] < f[k] \/ f[k] < f[j]
      BY <1>2, <3>1
    <3> QED
      BY <1>2, <3>2
  <2> QED
    BY <2>1
<1>4. ASSUME NEW k \in 0..n, NEW B, B = {f[j] : j \in 1..k}
      PROVE  Cardinality(B) = k
  <2>0. 1..k \subseteq 1..n /\ k \in Nat
    BY <1>2
  <2> DEFINE g == [j \in 1..k |-> f[j]]
  <2>1. g \in Bijection(1..k, B)
    <3>1. g \in [1..k -> B] /\ \A b \in B : \E j \in 1..k : g[j] = b
      BY <1>4
    <3>2. \A a, b \in 1..k : g[a] = g[b] => a = b
      BY <1>3, <2>0
    <3> QED
      BY <3>1, <3>2 DEF Bijection, Injection, Surjection, IsInjective
  <2>2. ExistsBijection(1..k, B)
    BY <2>1 DEF ExistsBijection
  <2>3. Cardinality(B) = k
    BY <2>0, <2>2, FS_CountingElements
  <2> QED
    BY <2>3
<1>5. Cardinality(A) = n
  <2>1. A = {f[j] : j \in 1..n}
    BY <1>2
  <2> QED
    BY <1>2, <1>4, <2>1
<1>6. ASSUME NEW k \in 1..n PROVE Cardinality(UpTo(A, f[k])) = k
  <2>1. ASSUME NEW i \in A PROVE i <= f[k] <=> \E j \in 1..k : f[j] = i
    <3>1. PICK j \in 1..n : f[j] = i
      BY <1>2
    <3>2. j <= k => f[j] <= f[k]
      <4>1. CASE j = k
        BY <1>2, <4>1
      <4>2. CASE j < k
        BY <1>2, <4>2
      <4> QED
        BY <1>2, <4>1, <4>2
    <3>3. ~(j <= k) => ~(f[j] <= f[k])
      <4>1. ~(j <= k) => k < j
        BY <1>2
      <4> QED
        BY <1>2, <4>1
    <3>4. j <= k => j \in 1..k
      BY <1>2
    <3>5. ASSUME NEW m \in 1..k, f[m] = i PROVE j <= k
      <4>1. m \in 1..n
        BY <1>2
      <4>2. m = j
        BY <1>3, <3>1, <3>5, <4>1
      <4> QED
        BY <1>2, <4>2
    <3> QED
      BY <3>1, <3>2, <3>3, <3>4, <3>5
  <2>2. UpTo(A, f[k]) = {f[j] : j \in 1..k}
    <3>1. \A j \in 1..k : f[j] \in A
      BY <1>2
    <3> QED
      BY <2>1, <3>1 DEF UpTo
  <2>3. k \in 0..n
    BY <1>2
  <2> QED
    BY <1>4, <2>2, <2>3
<1>7. ASSUME NEW k \in 1..n PROVE Nth(A, k) = f[k]
  <2>1. f[k] \in A /\ Cardinality(UpTo(A, f[k])) = k
    BY <1>2, <1>6
  <2>2. ASSUME NEW i \in A, Cardinality(UpTo(A, i)) = k PROVE i = f[k]
    <3>1. PICK j \in 1..n : f[j] = i
      BY <1>2
    <3> QED
      BY <1>6, <2>2, <3>1
  <2> QED
    BY <2>1, <2>2 DEF Nth
<1>8. Picked(s, A) = [k \in 1..n |-> q[k]]
  BY <1>2, <1>5, <1>7 DEF Picked
<1> QED
  BY <1>8 DEF n

(* An element more is listed last.                                         *)
LEMMA ListsAppend ==
  ASSUME NEW S, NEW s \in Seq(S), NEW A \in SUBSET (1..Len(s)),
         NEW q \in Seq(S), IsListOf(q, s, A), NEW e \in S
  PROVE  IsListOf(Append(q, e), Append(s, e), A \union {Len(s) + 1})
<1>1. PICK f : IsListBy(q, s, A, f)
  BY DEF IsListOf
<1> DEFINE n == Len(q)
           m == Len(s)
           B == A \union {m + 1}
           q1 == Append(q, e)
           s1 == Append(s, e)
           g == [k \in 1..n+1 |-> IF k = n + 1 THEN m + 1 ELSE f[k]]
<1>2. /\ n \in Nat /\ m \in Nat
      /\ \A k \in 1..n : q[k] = s[f[k]] /\ f[k] \in A /\ f[k] \in 1..m
      /\ \A j, k \in 1..n : j < k => f[j] < f[k]
      /\ \A i \in A : \E k \in 1..n : f[k] = i
  BY <1>1 DEF IsListBy
<1>3. /\ Len(q1) = n + 1 /\ \A k \in 1..n : q1[k] = q[k]
      /\ q1[n + 1] = e
  OBVIOUS
<1>4. (\A k \in 1..m : s1[k] = s[k]) /\ s1[m + 1] = e
  OBVIOUS
<1> HIDE DEF n, m, q1, s1
<1>5. \A k \in 1..n+1 : k = n + 1 \/ k \in 1..n
  BY <1>2
<1>6. n + 1 \in 1..n+1 /\ 1..n \subseteq 1..n+1 /\ n + 1 \notin 1..n
  BY <1>2
<1>7. /\ \A k \in 1..n : g[k] = f[k]
      /\ g[n + 1] = m + 1
  BY <1>6
<1>8. g \in [1..n+1 -> B]
  BY <1>2, <1>5
<1> HIDE DEF g
<1>9. ASSUME NEW k \in 1..n+1 PROVE q1[k] = s1[g[k]]
  <2>1. CASE k = n + 1
    BY <1>3, <1>4, <1>7, <2>1
  <2>2. CASE k \in 1..n
    BY <1>2, <1>3, <1>4, <1>7, <2>2
  <2> QED
    BY <1>5, <2>1, <2>2
<1>10. ASSUME NEW j \in 1..n+1, NEW k \in 1..n+1, j < k PROVE g[j] < g[k]
  <2>1. j \in 1..n
    BY <1>2, <1>10
  <2>2. CASE k = n + 1
    BY <1>2, <1>7, <2>1, <2>2
  <2>3. CASE k \in 1..n
    BY <1>2, <1>7, <1>10, <2>1, <2>3
  <2> QED
    BY <1>5, <2>2, <2>3
<1>11. \A i \in B : \E k \in 1..n+1 : g[k] = i
  BY <1>2, <1>6, <1>7
<1>12. IsListBy(q1, s1, B, g)
  BY <1>3, <1>8, <1>9, <1>10, <1>11 DEF IsListBy
<1> QED
  BY <1>12 DEF IsListOf, q1, s1, m

(* One taken out of the list is one position less.                         *)
LEMMA ListsRemove ==
  ASSUME NEW S, NEW s \in Seq(S), NEW A \in SUBSET (1..Len(s)),
         NEW q \in Seq(S), NEW f, IsListBy(q, s, A, f), NEW p \in 1..Len(q)
  PROVE  IsListOf(SubSeq(q, 1, p - 1) \o SubSeq(q, p + 1, Len(q)), s, A \ {f[p]})
<1> DEFINE n == Len(q)
           a == SubSeq(q, 1, p - 1)
           b == SubSeq(q, p + 1, n)
           r == a \o b
           B == A \ {f[p]}
           g == [k \in 1..n-1 |-> IF k < p THEN f[k] ELSE f[k + 1]]
<1>1. f \in [1..n -> A]
  BY DEF IsListBy
<1>2. \A k \in 1..n : q[k] = s[f[k]] /\ f[k] \in A /\ f[k] \in Int
  <2>1. \A i \in A : i \in Int
    OBVIOUS
  <2> QED
    BY <1>1, <2>1 DEF IsListBy
<1>3. /\ \A j, k \in 1..n : j < k => f[j] < f[k]
      /\ \A i \in A : \E k \in 1..n : f[k] = i
  BY DEF IsListBy
<1>4. n \in Nat /\ p \in 1..n /\ p \in Int
  OBVIOUS
<1>5. /\ a \in Seq(S) /\ Len(a) = p - 1
      /\ \A k \in 1..p-1 : a[k] = q[k]
  OBVIOUS
<1>6. /\ b \in Seq(S) /\ Len(b) = n - p
      /\ \A k \in 1..n-p : b[k] = q[p + k]
  <2>1. b \in Seq(S) /\ Len(b) = n - p
    OBVIOUS
  <2>2. ASSUME NEW k \in 1..n-p PROVE b[k] = q[p + k]
    <3>1. p + 1 + k - 1 = p + k
      OBVIOUS
    <3>2. b[k] = q[p + 1 + k - 1]
      OBVIOUS
    <3> QED
      BY <3>1, <3>2
  <2> QED
    BY <2>1, <2>2
<1> HIDE DEF n, a, b
<1>7. /\ r \in Seq(S) /\ Len(r) = Len(a) + Len(b)
      /\ \A k \in 1..Len(a) : r[k] = a[k]
      /\ \A k \in 1..Len(b) : r[Len(a) + k] = b[k]
  <2>1. r \in Seq(S) /\ Len(r) = Len(a) + Len(b)
    <3>1. a \in Seq(S) /\ b \in Seq(S)
      BY <1>5, <1>6
    <3>2. r \in Seq(S)
      BY <3>1
    <3>3. Len(r) = Len(a) + Len(b)
      BY <3>1
    <3> QED
      BY <3>2, <3>3
  <2>2. \A k \in 1..Len(a) : r[k] = a[k]
    BY <1>5, <1>6
  <2>3. \A k \in 1..Len(b) : r[Len(a) + k] = b[k]
    BY <1>5, <1>6
  <2> QED
    BY <2>1, <2>2, <2>3
<1> HIDE DEF r
<1>8. Len(r) = n - 1 /\ n - 1 \in Nat
  BY <1>4, <1>5, <1>6, <1>7
<1>9. ASSUME NEW k \in 1..n-1
      PROVE  r[k] = IF k < p THEN q[k] ELSE q[k + 1]
  <2>1. CASE k < p
    <3>1. k \in 1..p-1
      BY <1>4, <2>1
    <3> QED
      BY <1>5, <1>7, <2>1, <3>1
  <2>2. CASE ~(k < p)
    <3>1. /\ k - (p - 1) \in 1..n-p /\ (p - 1) + (k - (p - 1)) = k
          /\ p + (k - (p - 1)) = k + 1
      BY <1>4, <2>2
    <3>2. r[(p - 1) + (k - (p - 1))] = q[p + (k - (p - 1))]
      BY <1>5, <1>6, <1>7, <3>1
    <3> QED
      BY <2>2, <3>1, <3>2
  <2> QED
    BY <2>1, <2>2
<1>10. ASSUME NEW k \in 1..n-1
       PROVE  /\ k \in 1..n /\ k + 1 \in 1..n /\ k \in Int
              /\ g[k] = (IF k < p THEN f[k] ELSE f[k + 1])
  BY <1>4
<1> HIDE DEF g
<1>11. ASSUME NEW k \in 1..n-1 PROVE r[k] = s[g[k]]
  BY <1>2, <1>9, <1>10
<1>12. ASSUME NEW k \in 1..n-1 PROVE g[k] \in B
  <2>1. CASE k < p
    <3>1. f[k] < f[p] /\ f[k] \in Int /\ f[p] \in Int
      BY <1>2, <1>3, <1>4, <1>10, <2>1
    <3> QED
      BY <1>2, <1>10, <2>1, <3>1
  <2>2. CASE ~(k < p)
    <3>1. p < k + 1
      BY <1>4, <2>2
    <3>2. f[p] < f[k + 1] /\ f[k + 1] \in Int /\ f[p] \in Int
      BY <1>2, <1>3, <1>4, <1>10, <3>1
    <3> QED
      BY <1>2, <1>10, <2>2, <3>2
  <2> QED
    BY <2>1, <2>2
<1>13. ASSUME NEW j \in 1..n-1, NEW k \in 1..n-1, j < k PROVE g[j] < g[k]
  <2>1. j + 1 < k + 1 /\ j < k + 1 /\ (k < p => j < p)
    BY <1>4, <1>13
  <2> QED
    BY <1>3, <1>10, <1>13, <2>1
<1>14. ASSUME NEW i \in B PROVE \E k \in 1..n-1 : g[k] = i
  <2>1. PICK m \in 1..n : f[m] = i
    BY <1>3
  <2>2. m # p
    BY <2>1
  <2>3. CASE m < p
    <3>1. m \in 1..n-1
      BY <1>4, <2>3
    <3> QED
      BY <1>10, <2>1, <2>3, <3>1
  <2>4. CASE ~(m < p)
    <3>1. m - 1 \in 1..n-1 /\ ~(m - 1 < p) /\ m - 1 + 1 = m
      BY <1>4, <2>2, <2>4
    <3> QED
      BY <1>10, <2>1, <3>1
  <2> QED
    BY <2>3, <2>4
<1>15. g \in [1..n-1 -> B]
  BY <1>12 DEF g
<1>16. IsListBy(r, s, B, g)
  BY <1>8, <1>11, <1>13, <1>14, <1>15 DEF IsListBy
<1> QED
  BY <1>16 DEF IsListOf, r, a, b, n

(* The positions after h, counted from h on.                               *)
Beyond(A, h) == {i - h : i \in A \ {h}}

(* Less its first element, the list is of what comes after that.           *)
LEMMA ListsTail ==
  ASSUME NEW S, NEW s \in Seq(S), NEW A \in SUBSET (1..Len(s)),
         NEW q \in Seq(S), NEW f, IsListBy(q, s, A, f), q # <<>>
  PROVE  /\ f[1] \in A /\ \A i \in A : f[1] <= i
         /\ IsListOf(Tail(q), SubSeq(s, f[1] + 1, Len(s)), Beyond(A, f[1]))
<1> DEFINE n == Len(q)
           m == Len(s)
           h == f[1]
           s1 == SubSeq(s, h + 1, m)
           B == Beyond(A, h)
           g == [k \in 1..n-1 |-> f[k + 1] - h]
<1>1. f \in [1..n -> A]
  BY DEF IsListBy
<1>2. \A k \in 1..n : q[k] = s[f[k]] /\ f[k] \in A /\ f[k] \in Int /\ f[k] \in 1..m
  <2>1. \A i \in A : i \in Int /\ i \in 1..m
    OBVIOUS
  <2> QED
    BY <1>1, <2>1 DEF IsListBy
<1>3. /\ \A j, k \in 1..n : j < k => f[j] < f[k]
      /\ \A i \in A : \E k \in 1..n : f[k] = i
  BY DEF IsListBy
<1>4. n \in Nat /\ n # 0 /\ 1 \in 1..n /\ m \in Nat
  OBVIOUS
<1>5. /\ Tail(q) \in Seq(S) /\ Len(Tail(q)) = n - 1
      /\ \A k \in 1..n-1 : Tail(q)[k] = q[k + 1]
  OBVIOUS
<1>6. h \in A /\ h \in 1..m /\ h \in Int
  BY <1>2, <1>4
<1>7. ASSUME NEW i \in A PROVE h <= i
  <2>1. PICK k \in 1..n : f[k] = i
    BY <1>3
  <2>2. k = 1 \/ 1 < k
    BY <1>4
  <2> QED
    BY <1>2, <1>3, <1>4, <2>1, <2>2
<1> HIDE DEF h, n, m
<1>8. /\ Len(s1) = m - h /\ m - h \in Nat
      /\ \A k \in 1..m-h : s1[k] = s[h + k]
  <2>1. s1 \in Seq(S) /\ Len(s1) = m - h /\ m - h \in Nat
    BY <1>4, <1>6 DEF m
  <2>2. ASSUME NEW k \in 1..m-h PROVE s1[k] = s[h + k]
    <3>1. h + 1 + k - 1 = h + k
      BY <1>6
    <3>2. s1[k] = s[h + 1 + k - 1]
      BY <1>4, <1>6 DEF m
    <3> QED
      BY <3>1, <3>2
  <2> QED
    BY <2>1, <2>2
<1> HIDE DEF s1
<1>9. ASSUME NEW k \in 1..n-1
      PROVE  /\ k + 1 \in 1..n /\ k \in Int /\ g[k] = f[k + 1] - h
             /\ f[k + 1] \in A /\ f[k + 1] \in 1..m /\ h < f[k + 1]
             /\ g[k] \in 1..m-h /\ h + g[k] = f[k + 1] /\ g[k] \in B
  <2>1. k + 1 \in 1..n /\ 1 < k + 1 /\ g[k] = f[k + 1] - h /\ k \in Int
    BY <1>4
  <2>2. f[k + 1] \in A /\ f[k + 1] \in 1..m /\ h < f[k + 1]
    BY <1>2, <1>3, <1>4, <2>1 DEF h
  <2>3. g[k] \in 1..m-h /\ h + g[k] = f[k + 1] /\ f[k + 1] # h
    BY <1>4, <1>6, <2>1, <2>2
  <2>4. g[k] \in B
    BY <2>1, <2>2, <2>3 DEF Beyond
  <2> QED
    BY <2>1, <2>2, <2>3, <2>4
<1> HIDE DEF g
<1>10. ASSUME NEW k \in 1..n-1 PROVE Tail(q)[k] = s1[g[k]]
  <2>1. s1[g[k]] = s[h + g[k]]
    BY <1>8, <1>9
  <2>2. s[h + g[k]] = q[k + 1]
    BY <1>2, <1>9
  <2> QED
    BY <1>5, <2>1, <2>2
<1>11. ASSUME NEW j \in 1..n-1, NEW k \in 1..n-1, j < k PROVE g[j] < g[k]
  <2>1. f[j + 1] < f[k + 1]
    BY <1>3, <1>9, <1>11
  <2> QED
    BY <1>6, <1>9, <2>1
<1>12. ASSUME NEW i \in B PROVE \E k \in 1..n-1 : g[k] = i
  <2>1. PICK j \in A : j # h /\ i = j - h
    BY DEF Beyond
  <2>2. PICK k \in 1..n : f[k] = j
    BY <1>3
  <2>3. k # 1
    BY <2>1, <2>2 DEF h
  <2>4. k - 1 \in 1..n-1 /\ k - 1 + 1 = k
    BY <1>4, <2>3
  <2>5. g[k - 1] = f[k] - h
    BY <1>9, <2>4
  <2> QED
    BY <2>1, <2>2, <2>4, <2>5
<1>13. g \in [1..n-1 -> B]
  BY <1>9 DEF g
<1>14. IsListBy(Tail(q), s1, B, g)
  BY <1>5, <1>10, <1>11, <1>12, <1>13 DEF IsListBy
<1> QED
  BY <1>6, <1>7, <1>14 DEF IsListOf, h, s1, m

-----------------------------------------------------------------------------
(***************************************************************************)
(* A line cut in two.                                                      *)
(***************************************************************************)
(* Its two halves.                                                         *)
LEMMA Halves ==
  ASSUME NEW E, NEW s \in Seq(E), NEW i \in 0..Len(s)
  PROVE  /\ SubSeq(s, 1, i) \in Seq(E) /\ SubSeq(s, i + 1, Len(s)) \in Seq(E)
         /\ Len(SubSeq(s, 1, i)) = i /\ Len(SubSeq(s, i + 1, Len(s))) = Len(s) - i
         /\ \A k \in 1..i : SubSeq(s, 1, i)[k] = s[k]
         /\ \A k \in 1..Len(s) - i : SubSeq(s, i + 1, Len(s))[k] = s[i + k]
<1>1. Len(s) \in Nat /\ \A k \in 1..Len(s) : s[k] \in E
  OBVIOUS
<1>2. /\ SubSeq(s, 1, i) \in Seq(E) /\ Len(SubSeq(s, 1, i)) = i
      /\ \A k \in 1..i : SubSeq(s, 1, i)[k] = s[k]
  <2>1. 1 \in Int /\ i \in Int /\ \A k \in 1..i : s[k] \in E
    BY <1>1
  <2>2. /\ SubSeq(s, 1, i) \in Seq(E)
        /\ Len(SubSeq(s, 1, i)) = IF 1 <= i THEN i - 1 + 1 ELSE 0
        /\ \A k \in 1..i - 1 + 1 : SubSeq(s, 1, i)[k] = s[1 + k - 1]
    BY <2>1, SubSeqProperties
  <2>3. \A k \in 1..i : k \in 1..i - 1 + 1 /\ 1 + k - 1 = k
    BY <1>1
  <2> QED
    BY <1>1, <2>2, <2>3
<1>3. /\ SubSeq(s, i + 1, Len(s)) \in Seq(E) /\ Len(SubSeq(s, i + 1, Len(s))) = Len(s) - i
      /\ \A k \in 1..Len(s) - i : SubSeq(s, i + 1, Len(s))[k] = s[i + k]
  <2> DEFINE m == i + 1
             n == Len(s)
  <2>1. m \in Int /\ n \in Int /\ \A k \in m..n : s[k] \in E
    BY <1>1
  <2> HIDE DEF m, n
  <2>2. /\ SubSeq(s, m, n) \in Seq(E)
        /\ Len(SubSeq(s, m, n)) = IF m <= n THEN n - m + 1 ELSE 0
        /\ \A k \in 1..n - m + 1 : SubSeq(s, m, n)[k] = s[m + k - 1]
    BY <2>1, SubSeqProperties
  <2>3. \A k \in 1..n - i : k \in 1..n - m + 1 /\ m + k - 1 = i + k
    BY <1>1 DEF m, n
  <2>4. (IF m <= n THEN n - m + 1 ELSE 0) = n - i
    BY <1>1 DEF m, n
  <2>5. \A k \in 1..n - i : SubSeq(s, m, n)[k] = s[i + k]
    BY <2>2, <2>3
  <2> QED
    BY <2>2, <2>4, <2>5 DEF m, n
<1> QED
  BY <1>2, <1>3

(* Put together, they are the line.                                        *)
LEMMA HalvesMakeIt ==
  ASSUME NEW E, NEW s \in Seq(E), NEW i \in 0..Len(s)
  PROVE  SubSeq(s, 1, i) \o SubSeq(s, i + 1, Len(s)) = s
<1> DEFINE b == SubSeq(s, 1, i)
           a == SubSeq(s, i + 1, Len(s))
<1>1. /\ b \in Seq(E) /\ a \in Seq(E) /\ Len(b) = i /\ Len(a) = Len(s) - i
      /\ \A k \in 1..i : b[k] = s[k]
      /\ \A k \in 1..Len(s) - i : a[k] = s[i + k]
  BY Halves
<1> HIDE DEF a, b
<1>2. /\ b \o a \in Seq(E) /\ Len(b \o a) = Len(b) + Len(a)
      /\ \A k \in 1..Len(b) + Len(a) : (b \o a)[k] = IF k <= Len(b) THEN b[k] ELSE a[k - Len(b)]
  BY <1>1, ConcatProperties
<1>3. Len(b \o a) = Len(s)
  BY <1>1, <1>2
<1>4. ASSUME NEW k \in 1..Len(s) PROVE (b \o a)[k] = s[k]
  <2>1. k \in 1..Len(b) + Len(a) /\ (k <= i \/ (k - i \in 1..Len(s) - i /\ i + (k - i) = k))
    BY <1>1
  <2>2. (b \o a)[k] = IF k <= i THEN b[k] ELSE a[k - i]
    BY <1>1, <1>2, <2>1
  <2> QED
    BY <1>1, <2>1, <2>2
<1>5. b \o a = s
  BY <1>2, <1>3, <1>4, SeqEqual
<1> QED
  BY <1>5 DEF a, b

(* Cut at the end.                                                         *)
LEMMA WholeAndRest ==
  ASSUME NEW E, NEW s \in Seq(E)
  PROVE  SubSeq(s, 1, Len(s)) = s /\ SubSeq(s, Len(s) + 1, Len(s)) = <<>>
<1>1. Len(s) \in Nat /\ Len(s) \in 0..Len(s) /\ Len(s) + 1 \in Int /\ Len(s) < Len(s) + 1
  OBVIOUS
<1>2. SubSeq(s, Len(s) + 1, Len(s)) = <<>>
  BY <1>1, SubSeqEmpty
<1>3. /\ SubSeq(s, 1, Len(s)) \in Seq(E) /\ Len(SubSeq(s, 1, Len(s))) = Len(s)
      /\ \A k \in 1..Len(s) : SubSeq(s, 1, Len(s))[k] = s[k]
  BY <1>1, Halves
<1>4. SubSeq(s, 1, Len(s)) = s
  BY <1>3, SeqEqual
<1> QED
  BY <1>2, <1>4

(* One more element where it is cut.                                       *)
LEMMA OneMore ==
  ASSUME NEW E, NEW s \in Seq(E), NEW i \in 0..Len(s), NEW e \in E,
         NEW t \in Seq(E), Len(t) = Len(s) + 1,
         \A k \in 1..Len(t) : t[k] = IF k <= i THEN s[k] ELSE IF k = i + 1 THEN e ELSE s[k - 1]
  PROVE  /\ SubSeq(t, 1, i + 1) = Append(SubSeq(s, 1, i), e)
         /\ SubSeq(t, (i + 1) + 1, Len(t)) = SubSeq(s, i + 1, Len(s))
<1> DEFINE j  == i + 1
           b  == SubSeq(s, 1, i)
           a  == SubSeq(s, i + 1, Len(s))
           b1 == SubSeq(t, 1, j)
           a1 == SubSeq(t, j + 1, Len(t))
           b2 == Append(b, e)
<1>1. /\ b \in Seq(E) /\ a \in Seq(E) /\ Len(b) = i /\ Len(a) = Len(s) - i
      /\ \A k \in 1..i : b[k] = s[k]
      /\ \A k \in 1..Len(s) - i : a[k] = s[i + k]
  BY Halves
<1>0. Len(s) \in Nat /\ j \in 0..Len(t) /\ j = i + 1
  OBVIOUS
<1>2. /\ b1 \in Seq(E) /\ a1 \in Seq(E) /\ Len(b1) = j /\ Len(a1) = Len(t) - j
      /\ \A k \in 1..j : b1[k] = t[k]
      /\ \A k \in 1..Len(t) - j : a1[k] = t[j + k]
  <2> HIDE DEF j
  <2> QED
    BY <1>0, Halves
<1> HIDE DEF a, b, a1, b1
<1>3. /\ b2 \in Seq(E) /\ Len(b2) = Len(b) + 1 /\ \A k \in 1..Len(b) : b2[k] = b[k]
      /\ b2[Len(b) + 1] = e
  BY <1>1, AppendProperties
<1> HIDE DEF b2
<1>4. ASSUME NEW k \in 1..j PROVE b1[k] = b2[k]
  <2>1. k \in 1..Len(t) /\ (k <= i => k \in 1..i) /\ (~(k <= i) => k = i + 1)
    BY <1>0
  <2>2. b1[k] = t[k]
    BY <1>2
  <2>3. CASE k <= i
    <3>1. k \in 1..i /\ k \in 1..Len(b)
      BY <1>1, <2>1, <2>3
    <3>2. b2[k] = b[k] /\ b[k] = s[k]
      BY <1>1, <1>3, <3>1
    <3>3. t[k] = s[k]
      BY <2>1, <2>3
    <3> QED
      BY <2>2, <3>2, <3>3
  <2>4. CASE ~(k <= i)
    <3>1. k = i + 1 /\ k = Len(b) + 1
      BY <1>1, <2>1, <2>4
    <3>2. t[k] = e
      BY <2>1, <2>4, <3>1
    <3> QED
      BY <1>3, <2>2, <3>1, <3>2
  <2> QED
    BY <2>3, <2>4
<1>5. b1 = b2
  <2>1. Len(b1) = j /\ Len(b2) = j
    BY <1>0, <1>1, <1>2, <1>3
  <2> QED
    BY <1>2, <1>3, <1>4, <2>1, SeqEqual
<1>6. ASSUME NEW k \in 1..Len(s) - i PROVE a1[k] = a[k]
  <2> DEFINE r == j + k
  <2>1. Len(t) = Len(s) + 1 /\ j = i + 1
    OBVIOUS
  <2>2. k \in 1..Len(t) - j /\ r \in 1..Len(t)
    BY <1>0, <2>1
  <2>5. ~(r <= i) /\ r # i + 1 /\ r - 1 = i + k
    <3>1. k \in Nat /\ k >= 1 /\ i \in Nat
      BY <1>0
    <3>2. r = i + 1 + k
      BY <2>1
    <3> HIDE DEF r, j
    <3>3. ~(r <= i)
      BY <3>1, <3>2
    <3>4. r # i + 1
      BY <3>1, <3>2
    <3>5. r - 1 = i + k
      BY <3>1, <3>2
    <3> QED
      BY <3>3, <3>4, <3>5
  <2>3. a1[k] = t[r]
    BY <1>2, <2>2
  <2> HIDE DEF j, r
  <2>4. t[r] = s[r - 1]
    BY <2>2, <2>5
  <2> QED
    BY <1>1, <2>3, <2>4, <2>5
<1>7. a1 = a
  <2>1. Len(a) = Len(s) - i
    BY <1>1
  <2>2. Len(a1) = Len(s) - i
    <3>1. Len(t) - j = Len(s) - i
      BY <1>0
    <3> QED
      BY <1>2, <3>1
  <2>3. a1 \in Seq(E) /\ a \in Seq(E) /\ Len(a1) = Len(a) /\ \A k \in 1..Len(a1) : a1[k] = a[k]
    BY <1>1, <1>2, <1>6, <2>1, <2>2
  <2> HIDE DEF j
  <2> QED
    BY <2>3, SeqEqual
<1> QED
  BY <1>5, <1>7 DEF a, b, a1, b1, b2

(* One less, the one at p.                                                 *)
LEMMA OneLess ==
  ASSUME NEW E, NEW s \in Seq(E), NEW p \in 1..Len(s),
         NEW t \in Seq(E), Len(t) = Len(s) - 1,
         \A k \in 1..Len(t) : t[k] = IF k < p THEN s[k] ELSE s[k + 1]
  PROVE  /\ SubSeq(t, 1, p - 1) = SubSeq(s, 1, p - 1)
         /\ SubSeq(t, (p - 1) + 1, Len(t)) = SubSeq(s, p + 1, Len(s))
<1> DEFINE j  == p - 1
           b  == SubSeq(s, 1, j)
           a  == SubSeq(s, p + 1, Len(s))
           b1 == SubSeq(t, 1, j)
           a1 == SubSeq(t, j + 1, Len(t))
<1>0. Len(s) \in Nat /\ j \in 0..Len(t) /\ j \in 0..Len(s) /\ j = p - 1 /\ p \in 0..Len(s)
  OBVIOUS
<1>1. /\ b \in Seq(E) /\ Len(b) = j /\ \A k \in 1..j : b[k] = s[k]
      /\ b1 \in Seq(E) /\ Len(b1) = j /\ \A k \in 1..j : b1[k] = t[k]
      /\ a1 \in Seq(E) /\ Len(a1) = Len(t) - j /\ \A k \in 1..Len(t) - j : a1[k] = t[j + k]
  <2> HIDE DEF j
  <2>1. b \in Seq(E) /\ Len(b) = j /\ \A k \in 1..j : b[k] = s[k]
    BY <1>0, Halves
  <2>2. /\ b1 \in Seq(E) /\ Len(b1) = j /\ \A k \in 1..j : b1[k] = t[k]
        /\ a1 \in Seq(E) /\ Len(a1) = Len(t) - j /\ \A k \in 1..Len(t) - j : a1[k] = t[j + k]
    BY <1>0, Halves
  <2> QED
    BY <2>1, <2>2
<1>2. /\ a \in Seq(E) /\ Len(a) = Len(s) - p /\ \A k \in 1..Len(s) - p : a[k] = s[p + k]
  <2>1. p \in 0..Len(s)
    BY <1>0
  <2> HIDE DEF j
  <2> QED
    BY <2>1, Halves
<1> HIDE DEF a, b, a1, b1
<1>4. ASSUME NEW k \in 1..j PROVE b1[k] = b[k]
  <2>1. k \in 1..Len(t) /\ k < p
    BY <1>0
  <2> QED
    BY <1>1, <2>1
<1>5. b1 = b
  BY <1>1, <1>4, SeqEqual
<1>6. ASSUME NEW k \in 1..Len(s) - p PROVE a1[k] = a[k]
  <2>1. /\ k \in 1..Len(t) - j /\ j + k \in 1..Len(t) /\ ~(j + k < p) /\ j + k + 1 = p + k
    BY <1>0
  <2> HIDE DEF j
  <2> QED
    BY <1>1, <1>2, <2>1
<1>7. a1 = a
  <2>1. Len(a1) = Len(s) - p /\ Len(a) = Len(s) - p
    BY <1>0, <1>1, <1>2
  <2> QED
    BY <1>1, <1>2, <1>6, <2>1, SeqEqual
<1> QED
  BY <1>5, <1>7 DEF a, b, a1, b1

(* Of a half, all but an end.                                              *)
LEMMA HalfButOne ==
  ASSUME NEW E, NEW s \in Seq(E), NEW i \in 0..Len(s)
  PROVE  /\ i > 0 => SubSeq(SubSeq(s, 1, i), 1, Len(SubSeq(s, 1, i)) - 1) = SubSeq(s, 1, i - 1)
         /\ i < Len(s) => Tail(SubSeq(s, i + 1, Len(s))) = SubSeq(s, (i + 1) + 1, Len(s))
<1> DEFINE b == SubSeq(s, 1, i)
           a == SubSeq(s, i + 1, Len(s))
<1>0. Len(s) \in Nat
  OBVIOUS
<1>1. /\ b \in Seq(E) /\ a \in Seq(E) /\ Len(b) = i /\ Len(a) = Len(s) - i
      /\ \A k \in 1..i : b[k] = s[k]
      /\ \A k \in 1..Len(s) - i : a[k] = s[i + k]
  BY Halves
<1> HIDE DEF a, b
<1>2. ASSUME i > 0 PROVE SubSeq(b, 1, Len(b) - 1) = SubSeq(s, 1, i - 1)
  <2> DEFINE j == i - 1
  <2>1. j \in 0..Len(b) /\ j \in 0..Len(s) /\ \A k \in 1..j : k \in 1..i
    BY <1>0, <1>1, <1>2
  <2> HIDE DEF j
  <2>2. /\ SubSeq(b, 1, j) \in Seq(E) /\ Len(SubSeq(b, 1, j)) = j
        /\ \A k \in 1..j : SubSeq(b, 1, j)[k] = b[k]
    BY <1>1, <2>1, Halves
  <2>3. /\ SubSeq(s, 1, j) \in Seq(E) /\ Len(SubSeq(s, 1, j)) = j
        /\ \A k \in 1..j : SubSeq(s, 1, j)[k] = s[k]
    BY <2>1, Halves
  <2>4. \A k \in 1..j : SubSeq(b, 1, j)[k] = SubSeq(s, 1, j)[k]
    BY <1>1, <2>1, <2>2, <2>3
  <2>5. SubSeq(b, 1, j) = SubSeq(s, 1, j)
    BY <2>2, <2>3, <2>4, SeqEqual
  <2> QED
    BY <1>1, <2>5 DEF j
<1>3. ASSUME i < Len(s) PROVE Tail(a) = SubSeq(s, (i + 1) + 1, Len(s))
  <2> DEFINE j == i + 1
             c == SubSeq(s, j + 1, Len(s))
  <2>1. j \in 0..Len(s) /\ a # <<>> /\ j = i + 1
    BY <1>0, <1>1, <1>3
  <2> HIDE DEF j
  <2>2. c \in Seq(E) /\ Len(c) = Len(s) - j /\ \A k \in 1..Len(s) - j : c[k] = s[j + k]
    BY <2>1, Halves
  <2>3. Tail(a) \in Seq(E) /\ Len(Tail(a)) = Len(a) - 1 /\ \A k \in 1..Len(Tail(a)) : Tail(a)[k] = a[k + 1]
    BY <1>1, <2>1, HeadTailProperties
  <2> HIDE DEF c
  <2>4. Len(Tail(a)) = Len(c)
    BY <1>0, <1>1, <2>1, <2>2, <2>3
  <2>5. ASSUME NEW k \in 1..Len(c) PROVE Tail(a)[k] = c[k]
    <3>1. /\ k \in 1..Len(s) - j /\ k + 1 \in 1..Len(s) - i /\ i + (k + 1) = j + k
          /\ k \in 1..Len(Tail(a))
      BY <1>0, <1>1, <2>1, <2>2, <2>3
    <3>2. c[k] = s[j + k]
      BY <2>2, <3>1
    <3>3. Tail(a)[k] = a[k + 1]
      BY <2>3, <3>1
    <3>4. a[k + 1] = s[i + (k + 1)]
      BY <1>1, <3>1
    <3> QED
      BY <3>1, <3>2, <3>3, <3>4
  <2>6. Tail(a) = c
    BY <2>2, <2>3, <2>4, <2>5, SeqEqual
  <2> QED
    BY <2>6 DEF c, j
<1> QED
  BY <1>2, <1>3 DEF a, b
=============================================================================
