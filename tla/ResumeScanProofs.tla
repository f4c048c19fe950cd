-------------------------- MODULE ResumeScanProofs --------------------------
(***************************************************************************)
(* That a scan which is resumed loses no repository: what the filter of    *)
(* resume.go returns for any listing and any resume info taken from it,    *)
(* and what the progress of a process says at any moment.                  *)
(***************************************************************************)
EXTENDS ResumeScan, FoldTheorems, SequenceTheorems

Increasing(q) == \A i, j \in DOMAIN q : i < j => q[i] < q[j]
Ascending == {q \in Seq(Nat) : Increasing(q)}

----------------------------------------------------------------------------
(* Sorted sequences.                                                       *)

\* A finite set of numbers has a greatest one.
LEMMA FiniteMax ==
  ASSUME NEW S \in SUBSET Int, IsFiniteSet(S), S # {}
  PROVE  Max(S) \in S /\ \A y \in S : y <= Max(S)
  <1> DEFINE Top(T) == \E x \in T : \A y \in T : x >= y
             Bad == {T \in SUBSET S : T # {} /\ ~Top(T)}
  <1>1. Bad = {}
    <2>1. SUFFICES ASSUME Bad # {} PROVE FALSE
      OBVIOUS
    <2>2. Bad \in SUBSET (SUBSET S)
      OBVIOUS
    <2>3. PICK T \in Bad : \A x \in T : T \ {x} \notin Bad
      <3> HIDE DEF Bad
      <3> QED BY <2>1, <2>2, MinimalSubset
    <2>4. PICK x \in T : TRUE
      BY <2>3
    <2>5. CASE T \ {x} = {}
      BY <2>3, <2>4, <2>5
    <2>6. CASE T \ {x} # {}
      <3>1. PICK m \in T \ {x} : \A y \in T \ {x} : m >= y
        BY <2>3, <2>4, <2>6
      <3>2. CASE m >= x
        <4>1. \A y \in T : m >= y
          BY <3>1, <3>2
        <4> QED BY <2>3, <3>1, <4>1
      <3>3. CASE ~(m >= x)
        <4>1. m \in Int /\ x \in Int /\ \A y \in T : y \in Int
          BY <2>3, <2>4, <3>1
        <4>2. \A y \in T : x >= y
          BY <3>1, <3>3, <4>1
        <4> QED BY <2>3, <2>4, <4>2
      <3> QED BY <3>2, <3>3
    <2> QED BY <2>5, <2>6
  <1>2. PICK x \in S : \A y \in S : x >= y
    BY <1>1
  <1>3. Max(S) \in S /\ \A y \in S : Max(S) >= y
    BY <1>2 DEF Max
  <1> QED BY <1>3

\* A finite set of numbers can be sorted.
LEMMA Sortable ==
  ASSUME NEW S \in SUBSET Nat, IsFiniteSet(S)
  PROVE  \E q \in [1..Cardinality(S) -> S] : Increasing(q)
  <1> DEFINE Can(T) == \E q \in [1..Cardinality(T) -> T] : Increasing(q)
             Bad == {T \in SUBSET S : ~Can(T)}
  <1>1. Bad = {}
    <2>1. SUFFICES ASSUME Bad # {} PROVE FALSE
      OBVIOUS
    <2>2. Bad \in SUBSET (SUBSET S)
      OBVIOUS
    <2>3. PICK T \in Bad : \A x \in T : T \ {x} \notin Bad
      <3> HIDE DEF Bad
      <3> QED BY <2>1, <2>2, MinimalSubset
    <2>4. IsFiniteSet(T) /\ T \in SUBSET S /\ T \in SUBSET Int
      <3>1. T \in SUBSET S
        BY <2>3
      <3>2. IsFiniteSet(T)
        BY <3>1, FS_Subset
      <3> QED BY <3>1, <3>2
    <2>5. CASE T = {}
      <3> DEFINE q == [i \in {} |-> 0]
      <3>1. Cardinality(T) = 0 /\ 1..0 = {}
        BY <2>5, FS_EmptySet
      <3>2. q \in [{} -> T] /\ DOMAIN q = {}
        OBVIOUS
      <3>3. Increasing(q)
        BY <3>2 DEF Increasing
      <3> HIDE DEF q
      <3>4. \E p \in [1..Cardinality(T) -> T] : Increasing(p)
        BY <3>1, <3>2, <3>3
      <3> QED BY <2>3, <3>4
    <2>6. CASE T # {}
      <3> DEFINE m == Max(T)
                 U == T \ {m}
                 c == Cardinality(U)
      <3>1. m \in T /\ \A y \in T : y <= m
        BY <2>4, <2>6, FiniteMax
      <3>2. IsFiniteSet(U) /\ c \in Nat
        BY <2>4, FS_RemoveElement, FS_CardinalityType
      <3>3. Cardinality(T) = c + 1
        <4>1. Cardinality(T) \in Nat /\ c = Cardinality(T) - 1
          BY <2>4, <3>1, FS_RemoveElement, FS_CardinalityType
        <4> HIDE DEF c
        <4> QED BY <4>1
      <3>4. PICK q \in [1..c -> U] : Increasing(q)
        <4>1. U \in SUBSET S /\ U \notin Bad
          BY <2>3, <2>4, <3>1
        <4> QED BY <4>1
      <3> DEFINE h == [i \in 1..(c + 1) |-> IF i = c + 1 THEN m ELSE q[i]]
      <3>5. \A i \in 1..(c + 1) : (i = c + 1 /\ h[i] = m) \/ (i \in 1..c /\ h[i] = q[i])
        <4> HIDE DEF c
        <4> QED BY <3>2
      <3>6. h \in [1..(c + 1) -> T]
        <4>1. \A i \in 1..(c + 1) : h[i] \in T
          BY <3>1, <3>4, <3>5
        <4> QED BY <4>1
      <3>7. \A i \in 1..c : q[i] < m
        <4>1. \A x \in U : x \in Nat /\ x # m /\ x <= m
          BY <2>4, <3>1
        <4>2. m \in Nat
          BY <2>4, <3>1
        <4>3. \A x \in U : x < m
          BY <4>1, <4>2
        <4> QED BY <3>4, <4>3
      <3>8. Increasing(h)
        <4>1. SUFFICES ASSUME NEW i \in 1..(c + 1), NEW j \in 1..(c + 1), i < j PROVE h[i] < h[j]
          BY <3>6 DEF Increasing
        <4>2. i \in 1..c /\ h[i] = q[i]
          <5> HIDE DEF c, h
          <5> QED BY <3>2, <3>5, <4>1
        <4>3. CASE j = c + 1
          BY <3>5, <3>7, <4>2, <4>3
        <4>4. CASE j \in 1..c /\ h[j] = q[j]
          BY <3>4, <4>1, <4>2, <4>4 DEF Increasing
        <4> QED BY <3>5, <4>3, <4>4
      <3> QED BY <2>3, <3>3, <3>6, <3>8
    <2> QED BY <2>5, <2>6
  <1> QED BY <1>1

\* Sorting lists the elements of the set in their order.
LEMMA SortedIs ==
  ASSUME NEW S \in SUBSET Nat, IsFiniteSet(S)
  PROVE  /\ Sorted(S) \in Seq(S) /\ Sorted(S) \in Ascending /\ ToSet(Sorted(S)) = S
         /\ Len(Sorted(S)) = Cardinality(S)
  <1> DEFINE q == Sorted(S)
             n == Cardinality(S)
  <1>1. q \in [1..n -> S] /\ Increasing(q)
    <2>1. \E p \in [1..n -> S] : \A i, j \in DOMAIN p : i < j => p[i] < p[j]
      BY Sortable DEF Increasing
    <2> QED BY <2>1 DEF Sorted, Increasing
  <1>2. n \in Nat
    BY FS_CardinalityType
  <1>3. q \in Seq(S) /\ Len(q) = n /\ DOMAIN q = 1..n
    <2> HIDE DEF q, n
    <2> QED BY <1>1, <1>2
  <1>4. q \in Seq(Nat)
    <2>1. \A i \in 1..n : q[i] \in Nat
      BY <1>1
    <2>2. q = [i \in 1..n |-> q[i]]
      BY <1>1
    <2> HIDE DEF q, n
    <2> QED BY <1>2, <2>1, <2>2
  <1>5. IsInjective(q)
    <2>1. \A i \in 1..n : q[i] \in Nat
      BY <1>1
    <2>2. \A i, j \in 1..n : i # j => i < j \/ j < i
      BY <1>2
    <2>3. \A i, j \in 1..n : i < j => q[i] < q[j]
      BY <1>1, <1>3 DEF Increasing
    <2> HIDE DEF q, n
    <2>4. \A i, j \in 1..n : q[i] = q[j] => i = j
      BY <2>1, <2>2, <2>3
    <2> QED BY <1>3, <2>4 DEF IsInjective
  <1>6. Cardinality(1..n) = n /\ IsFiniteSet(1..n)
    <2>1. 1 \in Int /\ n \in Int
      BY <1>2
    <2>2. IsFiniteSet(1..n) /\ Cardinality(1..n) = IF 1 > n THEN 0 ELSE n - 1 + 1
      BY <2>1, FS_Interval
    <2> HIDE DEF n
    <2> QED BY <1>2, <2>2
  <1>7. q \in Surjection(1..n, S)
    <2>1. q \in Injection(1..n, S)
      BY <1>1, <1>5 DEF Injection
    <2> QED BY <1>6, <2>1, FS_Injection
  <1>8. ToSet(q) = S
    <2>1. (\A i \in 1..n : q[i] \in S) /\ \A x \in S : \E i \in 1..n : q[i] = x
      BY <1>1, <1>7 DEF Surjection
    <2> HIDE DEF q, n
    <2> QED BY <1>3, <2>1 DEF ToSet
  <1> QED BY <1>1, <1>3, <1>4, <1>8 DEF Ascending

\* What an ascending sequence says of its positions.
LEMMA Order ==
  ASSUME NEW q \in Ascending
  PROVE  /\ DOMAIN q = 1..Len(q) /\ Len(q) \in Nat
         /\ \A i \in 1..Len(q) : q[i] \in Nat
         /\ \A i, j \in 1..Len(q) : (i < j <=> q[i] < q[j]) /\ (i <= j <=> q[i] <= q[j])
                                    /\ (i = j <=> q[i] = q[j])
  <1>1. DOMAIN q = 1..Len(q) /\ Len(q) \in Nat /\ \A i \in 1..Len(q) : q[i] \in Nat
    BY DEF Ascending
  <1>2. \A i, j \in 1..Len(q) : i < j => q[i] < q[j]
    BY <1>1 DEF Ascending, Increasing
  <1>3. ASSUME NEW i \in 1..Len(q), NEW j \in 1..Len(q)
        PROVE  (i < j <=> q[i] < q[j]) /\ (i <= j <=> q[i] <= q[j]) /\ (i = j <=> q[i] = q[j])
    <2>1. i < j \/ i = j \/ j < i
      BY <1>1
    <2>2. q[i] \in Nat /\ q[j] \in Nat
      BY <1>1
    <2>3. (i < j => q[i] < q[j]) /\ (j < i => q[j] < q[i])
      BY <1>2
    <2> QED BY <2>1, <2>2, <2>3
  <1> QED BY <1>1, <1>3

\* Of two sequences with the same elements one agrees with the other as far as it goes.
LEMMA AgreeWithin ==
  ASSUME NEW p \in Ascending, NEW q \in Ascending, ToSet(p) = ToSet(q)
  PROVE  Len(p) <= Len(q) /\ \A i \in 1..Len(p) : p[i] = q[i]
  <1> DEFINE n == Len(p)
             G == {i \in 0..n : i <= Len(q) /\ \A k \in 1..i : p[k] = q[k]}
  <1>1. n \in Nat /\ Len(q) \in Nat /\ DOMAIN p = 1..n /\ DOMAIN q = 1..Len(q)
    BY Order
  <1>2. 0 \in G
    BY <1>1
  <1>3. ASSUME NEW i \in 1..n, i - 1 \in G PROVE i \in G
    <2>1. i - 1 <= Len(q) /\ \A k \in 1..(i - 1) : p[k] = q[k]
      BY <1>3
    <2>2. PICK k \in 1..Len(q) : q[k] = p[i]
      <3>1. p[i] \in ToSet(p)
        BY <1>1, <1>3 DEF ToSet
      <3> QED BY <1>1, <3>1 DEF ToSet
    <2>3. i <= k
      <3>1. SUFFICES ASSUME k < i PROVE FALSE
        BY <1>1
      <3>2. k \in 1..(i - 1) /\ k \in 1..n
        BY <1>1, <3>1
      <3>3. p[k] = p[i]
        BY <2>1, <2>2, <3>2
      <3>4. k = i
        BY <1>3, <3>2, <3>3, Order
      <3> QED BY <1>1, <3>1, <3>4
    <2>4. i \in 1..Len(q)
      BY <1>1, <2>3
    <2>5. q[i] <= p[i]
      BY <2>2, <2>3, <2>4, Order
    <2>6. PICK l \in 1..n : p[l] = q[i]
      <3>1. q[i] \in ToSet(q)
        BY <1>1, <2>4 DEF ToSet
      <3> QED BY <1>1, <3>1 DEF ToSet
    <2>7. i <= l
      <3>1. SUFFICES ASSUME l < i PROVE FALSE
        BY <1>1
      <3>2. l \in 1..(i - 1) /\ l \in 1..Len(q)
        BY <1>1, <2>4, <3>1
      <3>3. q[l] = q[i]
        BY <2>1, <2>6, <3>2
      <3>4. l = i
        BY <2>4, <3>2, <3>3, Order
      <3> QED BY <1>1, <3>1, <3>4
    <2>8. p[i] <= q[i]
      BY <1>3, <2>6, <2>7, Order
    <2>9. p[i] = q[i]
      <3>1. p[i] \in Nat /\ q[i] \in Nat
        BY <1>3, <2>4, Order
      <3> QED BY <2>5, <2>8, <3>1
    <2>10. \A m \in 1..i : m = i \/ m \in 1..(i - 1)
      BY <1>1
    <2>11. \A m \in 1..i : p[m] = q[m]
      BY <2>1, <2>9, <2>10
    <2>12. i \in 0..n /\ i <= Len(q)
      BY <1>1, <2>4
    <2> QED BY <2>11, <2>12
  <1>4. n \in G
    <2>1. n \in 0..n
      BY <1>1
    <2> HIDE DEF G
    <2> QED BY <1>1, <1>2, <1>3, <2>1, UpTo
  <1> QED BY <1>4

\* There is one order to sort in.
LEMMA SortedUnique ==
  ASSUME NEW p \in Ascending, NEW q \in Ascending, ToSet(p) = ToSet(q)
  PROVE  p = q
  <1>1. Len(p) <= Len(q) /\ Len(q) <= Len(p) /\ \A i \in 1..Len(p) : p[i] = q[i]
    BY AgreeWithin
  <1>2. Len(p) = Len(q)
    <2>1. Len(p) \in Nat /\ Len(q) \in Nat
      BY Order
    <2> QED BY <1>1, <2>1
  <1>3. p = [i \in 1..Len(p) |-> p[i]] /\ q = [i \in 1..Len(q) |-> q[i]]
    BY DEF Ascending
  <1> QED BY <1>1, <1>2, <1>3

\* Removing an element leaves the others in their order.
LEMMA RemovedIs ==
  ASSUME NEW q \in Ascending, NEW r \in Nat
  PROVE  /\ RemoveRepoFromResumeInfo(q, r) \in Ascending
         /\ ToSet(RemoveRepoFromResumeInfo(q, r)) = ToSet(q) \ {r}
  <1> DEFINE w == RemoveRepoFromResumeInfo(q, r)
             n == Len(q)
  <1>0. /\ DOMAIN q = 1..n /\ n \in Nat /\ q \in Seq(Nat)
        /\ \A i \in 1..n : q[i] \in Nat
        /\ \A i, j \in 1..n : (i < j <=> q[i] < q[j]) /\ (i = j <=> q[i] = q[j])
    BY Order DEF Ascending
  <1>1. CASE ~\E i \in 1..n : q[i] = r
    <2>1. w = q
      BY <1>1 DEF RemoveRepoFromResumeInfo, RemoveFirst
    <2>2. r \notin ToSet(q)
      BY <1>0, <1>1 DEF ToSet
    <2>3. ToSet(q) \ {r} = ToSet(q)
      BY <2>2
    <2> QED BY <2>1, <2>3
  <1>2. CASE \E i \in 1..n : q[i] = r
    <2>1. PICK k \in 1..n : q[k] = r
      BY <1>2
    <2>2. n \in Nat /\ q \in Seq(Nat)
      BY <1>0
    <2> DEFINE I == {i \in 1..n : q[i] = r}
    <2>3. I = {k}
      BY <2>1, <1>0
    <2>4. SelectInSeq(q, LAMBDA v : v = r) = k
      <3>1. Min(I) = k
        BY <2>3 DEF Min
      <3> QED BY <2>3, <3>1 DEF SelectInSeq
    <2>5. w = SubSeq(q, 1, k - 1) \o SubSeq(q, k + 1, n)
      BY <1>2, <2>4 DEF RemoveRepoFromResumeInfo, RemoveFirst, RemoveAt
    <2> HIDE DEF w, I
    <2>6. w \in Seq(Nat) /\ Len(w) = n - 1
          /\ \A i \in 1..(n - 1) : w[i] = IF i < k THEN q[i] ELSE q[i + 1]
      <3> DEFINE a == SubSeq(q, 1, k - 1)
                 b == SubSeq(q, k + 1, n)
      <3>1. a \in Seq(Nat) /\ b \in Seq(Nat)
        <4>1. 1 \in Int /\ k - 1 \in Int /\ k + 1 \in Int /\ n \in Int
          BY <2>1, <2>2
        <4>2. (\A i \in 1..(k - 1) : q[i] \in Nat) /\ (\A i \in (k + 1)..n : q[i] \in Nat)
          <5>1. \A i \in 1..(k - 1) : i \in 1..n
            BY <2>1, <2>2
          <5>2. \A i \in (k + 1)..n : i \in 1..n
            BY <2>1, <2>2
          <5> QED BY <1>0, <5>1, <5>2
        <4> QED BY <4>1, <4>2, SubSeqProperties
      <3>2. Len(a) = k - 1 /\ Len(b) = n - k
        BY <2>1, <2>2
      <3>3. \A i \in 1..(k - 1) : a[i] = q[i]
        BY <2>1, <2>2
      <3>4. \A i \in 1..(n - k) : b[i] = q[k + i]
        BY <2>1, <2>2
      <3>5. w = a \o b
        BY <2>5
      <3> HIDE DEF a, b
      <3>8. w \in Seq(Nat) /\ Len(w) = (k - 1) + (n - k)
            /\ \A i \in 1..((k - 1) + (n - k)) : w[i] = IF i <= k - 1 THEN a[i] ELSE b[i - (k - 1)]
        <4>1. /\ w \in Seq(Nat) /\ Len(w) = Len(a) + Len(b)
              /\ \A i \in 1..(Len(a) + Len(b)) : w[i] = IF i <= Len(a) THEN a[i] ELSE b[i - Len(a)]
          BY <3>1, <3>5, ConcatProperties
        <4> QED BY <3>2, <4>1
      <3>6. ASSUME NEW i \in 1..(n - 1) PROVE w[i] = IF i < k THEN q[i] ELSE q[i + 1]
        <4>1. CASE i < k
          <5>1. i \in 1..(k - 1) /\ i <= k - 1 /\ i \in 1..((k - 1) + (n - k))
            BY <2>1, <2>2, <4>1
          <5> QED BY <3>3, <3>8, <4>1, <5>1
        <4>2. CASE ~(i < k)
          <5>1. i - (k - 1) \in 1..(n - k) /\ ~(i <= k - 1) /\ i \in 1..((k - 1) + (n - k))
            BY <2>1, <2>2, <4>2
          <5>2. w[i] = b[i - (k - 1)]
            BY <3>8, <5>1
          <5>3. b[i - (k - 1)] = q[k + (i - (k - 1))]
            BY <3>4, <5>1
          <5>4. k + (i - (k - 1)) = i + 1
            BY <2>1, <2>2
          <5> QED BY <4>2, <5>2, <5>3, <5>4
        <4> QED BY <4>1, <4>2
      <3>7. (k - 1) + (n - k) = n - 1
        BY <2>1, <2>2
      <3> QED BY <3>6, <3>7, <3>8
    <2> DEFINE at(i) == IF i < k THEN i ELSE i + 1
    <2>7. \A i \in 1..(n - 1) : at(i) \in 1..n /\ at(i) # k /\ w[i] = q[at(i)]
      BY <2>1, <2>2, <2>6
    <2>8. \A i, j \in 1..(n - 1) : i < j => at(i) < at(j)
      BY <2>1, <2>2
    <2>9. w \in Ascending
      <3>1. DOMAIN w = 1..(n - 1)
        BY <2>2, <2>6
      <3> HIDE DEF at
      <3>2. \A i, j \in 1..(n - 1) : i < j => w[i] < w[j]
        BY <2>7, <2>8, <1>0
      <3> QED BY <2>6, <3>1, <3>2 DEF Ascending, Increasing
    <2>10. ToSet(w) = ToSet(q) \ {r}
      <3>1. DOMAIN w = 1..(n - 1) /\ DOMAIN q = 1..n
        BY <2>2, <2>6
      <3>2. ASSUME NEW i \in 1..(n - 1) PROVE w[i] \in ToSet(q) \ {r}
        <4>1. at(i) \in 1..n /\ at(i) # k /\ w[i] = q[at(i)]
          BY <2>7
        <4> HIDE DEF at
        <4>2. q[at(i)] # r
          BY <2>1, <4>1, <1>0
        <4> QED BY <3>1, <4>1, <4>2 DEF ToSet
      <3>3. ASSUME NEW j \in 1..n, q[j] # r PROVE \E i \in 1..(n - 1) : w[i] = q[j]
        <4>1. j # k
          BY <2>1, <3>3
        <4>2. CASE j < k
          <5>1. j \in 1..(n - 1) /\ w[j] = q[j]
            BY <2>1, <2>2, <2>6, <4>2
          <5> QED BY <5>1
        <4>3. CASE j > k
          <5>1. j - 1 \in 1..(n - 1) /\ ~(j - 1 < k) /\ (j - 1) + 1 = j
            BY <2>1, <2>2, <4>3
          <5>2. w[j - 1] = q[j]
            BY <2>6, <5>1
          <5> QED BY <5>1, <5>2
        <4> QED BY <2>1, <2>2, <4>1, <4>2, <4>3
      <3>4. ToSet(w) = {w[i] : i \in 1..(n - 1)} /\ ToSet(q) = {q[j] : j \in 1..n}
        BY <3>1 DEF ToSet
      <3>5. \A x \in ToSet(w) : x \in ToSet(q) \ {r}
        BY <3>2, <3>4
      <3>6. \A x \in ToSet(q) \ {r} : x \in ToSet(w)
        BY <3>3, <3>4
      <3> QED BY <3>5, <3>6
    <2> QED BY <2>9, <2>10 DEF w
  <1> QED BY <1>1, <1>2

----------------------------------------------------------------------------
(* FilterReposToResume.                                                    *)

Walk == [entry : Nat, lastFound : Nat, found : Seq(Nat)]
Begin == [entry |-> 1, lastFound |-> 0, found |-> <<>>]
Visited(repos, resume, walk, i) ==
  IF walk.entry > Len(resume) THEN walk ELSE VisitRepo(repos, resume, walk, i)

\* One round of the loop.
LEMMA VisitedType ==
  ASSUME NEW repos \in Seq(Nat), NEW resume \in Seq(Nat), NEW walk \in Walk, NEW i \in 1..Len(repos)
  PROVE  Visited(repos, resume, walk, i) \in Walk
  <1>1. repos[i] \in Nat /\ i \in Nat
    OBVIOUS
  <1>2. walk.entry \in Nat /\ walk.lastFound \in Nat /\ walk.found \in Seq(Nat)
    BY DEF Walk
  <1>3. walk.entry + 1 \in Nat /\ Append(walk.found, repos[i]) \in Seq(Nat)
    BY <1>1, <1>2
  <1>4. VisitRepo(repos, resume, walk, i) \in Walk
    BY <1>1, <1>2, <1>3 DEF VisitRepo, Walk
  <1> QED BY <1>4 DEF Visited

\* The repositories are visited one after the other: h[i] is where the walk is after the first i.
LEMMA FilterSteps ==
  ASSUME NEW repos \in Seq(Nat), NEW resume \in Seq(Nat), resume # <<>>
  PROVE  \E h \in [0..Len(repos) -> Walk] :
            /\ h[0] = Begin
            /\ \A i \in 1..Len(repos) : h[i] = Visited(repos, resume, h[i - 1], i)
            /\ FilterReposToResume(repos, resume) =
                 h[Len(repos)].found
                   \o SubSeq(repos, h[Len(repos)].lastFound + 1, Len(repos))
  <1> DEFINE n == Len(repos)
             q == [i \in DOMAIN repos |-> i]
             F == [p \in Walk \X (1..n) |-> Visited(repos, resume, p[1], p[2])]
             Made(g) == g = [s \in SUBSET (1..n) |->
                               IF s = {} THEN Begin
                               ELSE Visited(repos, resume, g[s \ {Max(s)}], q[Max(s)])]
  <1>1. n \in Nat /\ DOMAIN repos = 1..n /\ q \in [1..n -> 1..n] /\ DOMAIN q = 1..n
        /\ \A i \in 1..n : q[i] = i
    OBVIOUS
  <1>2. \A a \in Walk, i \in 1..n :
          /\ Visited(repos, resume, a, i) \in Walk
          /\ F[<<a, i>>] = Visited(repos, resume, a, i)
    <2>1. ASSUME NEW a \in Walk, NEW i \in 1..n
          PROVE  Visited(repos, resume, a, i) \in Walk
      BY VisitedType
    <2> QED BY <2>1
  <1>3. F \in [Walk \X (1..n) -> Walk] /\ Begin \in Walk
    <2>1. Begin \in Walk
      BY DEF Begin, Walk
    <2> QED BY <1>2, <2>1
  <1> HIDE DEF n, F, q
  <1>4. PICK g \in [SUBSET (1..n) -> Walk] : Folds(g, F, Begin, q, 1..n)
    BY <1>1, <1>3, FoldExists
  <1>5. ASSUME NEW s \in SUBSET (1..n), s # {}
        PROVE  g[s] = Visited(repos, resume, g[s \ {Max(s)}], q[Max(s)])
    <2>1. Max(s) \in 1..n /\ s \ {Max(s)} \in SUBSET (1..n)
      BY <1>1, <1>5, MaxOf
    <2>2. g[s] = F[<<g[s \ {Max(s)}], q[Max(s)]>>]
      BY <1>4, <1>5 DEF Folds
    <2>3. g[s \ {Max(s)}] \in Walk /\ q[Max(s)] \in 1..n
      BY <1>1, <1>4, <2>1
    <2> QED BY <1>2, <2>2, <2>3
  <1>6. g[{}] = Begin
    BY <1>4 DEF Folds
  <1>7. Made(g)
    BY <1>4, <1>5, <1>6
  <1> DEFINE made == CHOOSE k : Made(k)
  <1>8. FilterReposToResume(repos, resume) =
          made[1..n].found \o SubSeq(repos, made[1..n].lastFound + 1, n)
    BY <1>1, ZenonT(60) DEF FilterReposToResume, FoldLeft, MapThenFoldSet, Begin, Visited, n, q
  <1>9. Made(made)
    BY <1>7
  <1>10. made[1..n] = g[1..n]
    <2>1. made[{}] = Begin
      BY <1>9
    <2>2. \A s \in SUBSET (1..n) : s # {} =>
            made[s] = Visited(repos, resume, made[s \ {Max(s)}], q[Max(s)])
      BY <1>9
    <2> HIDE DEF made, Made
    <2> DEFINE G == {s \in SUBSET (1..n) : made[s] = g[s]}
    <2>3. {} \in G
      BY <1>6, <2>1
    <2>4. ASSUME NEW s \in SUBSET (1..n), s # {}, s \ {Max(s)} \in G PROVE s \in G
      BY <1>5, <2>2, <2>4
    <2>5. 1..n \in SUBSET (1..n) /\ (1..n \in G => made[1..n] = g[1..n])
      OBVIOUS
    <2> HIDE DEF G
    <2> QED BY <1>1, <2>3, <2>4, <2>5, FoldReaches
  <1> HIDE DEF Made, made
  <1> DEFINE h == [i \in 0..n |-> g[1..i]]
  <1>11. \A i \in 0..n : 1..i \in SUBSET (1..n) /\ h[i] = g[1..i]
    BY <1>1
  <1>12. h \in [0..n -> Walk]
    BY <1>4, <1>11
  <1>13. h[0] = Begin /\ h[n] = made[1..n]
    <2>1. 1..0 = {} /\ 0 \in 0..n /\ n \in 0..n
      BY <1>1
    <2> QED BY <1>6, <1>10, <1>11, <2>1
  <1>14. ASSUME NEW i \in 1..n
         PROVE  h[i] = Visited(repos, resume, h[i - 1], i)
    <2>1. i \in 0..n /\ i - 1 \in 0..n /\ q[i] = i
      BY <1>1
    <2>2. 1..i # {} /\ 1..i \in SUBSET (1..n) /\ Max(1..i) = i /\ (1..i) \ {Max(1..i)} = 1..(i - 1)
      BY <1>1, FoldPrefix
    <2>3. g[1..i] = Visited(repos, resume, g[1..(i - 1)], i)
      BY <1>5, <2>1, <2>2
    <2> QED BY <1>11, <2>1, <2>3
  <1> HIDE DEF h
  <1> QED BY <1>8, <1>12, <1>13, <1>14 DEF n

\* What the walk has found after the first i repositories: the first c entries
\* of the resume info, the last of them at lastFound, and the entry it looks
\* for is that one or the next.
Found(repos, resume, walk, i, c) ==
  /\ walk.found = SubSeq(resume, 1, c) /\ walk.lastFound \in Nat
  /\ c > 0 => walk.lastFound \in 1..i /\ repos[walk.lastFound] = resume[c]
  /\ \/ walk.entry = c /\ i > 0 /\ c > 0 /\ repos[i] = resume[c]
     \/ walk.entry = c + 1 /\ (i > 0 /\ c < Len(resume) => repos[i] < resume[c + 1])

\* A repository that is looked for is found, and one entry at most is passed.
LEMMA VisitFinds ==
  ASSUME NEW repos \in Ascending, NEW resume \in Ascending, ToSet(resume) \subseteq ToSet(repos),
         NEW i \in 1..Len(repos), NEW walk \in Walk, NEW c \in 0..Len(resume),
         Found(repos, resume, walk, i - 1, c)
  PROVE  \E e \in 0..Len(resume) : Found(repos, resume, Visited(repos, resume, walk, i), i, e)
  <1> DEFINE m == Len(resume)
             n == Len(repos)
             x == repos[i]
             after == Visited(repos, resume, walk, i)
  <1>0. /\ m \in Nat /\ n \in Nat /\ i \in 1..n /\ c \in 0..m /\ x \in Nat
        /\ \A k \in 1..m : resume[k] \in Nat
        /\ \A k \in 1..n : repos[k] \in Nat
        /\ resume \in Seq(Nat)
    BY Order DEF Ascending
  <1>1. \A k \in 1..m : \E j \in 1..n : repos[j] = resume[k]
    <2>1. DOMAIN resume = 1..m /\ DOMAIN repos = 1..n
      BY Order
    <2> QED BY <2>1 DEF ToSet
  <1>2. \A j, k \in 1..n : (j < k <=> repos[j] < repos[k]) /\ (j <= k <=> repos[j] <= repos[k])
    BY Order
  <1>3. \A j, k \in 1..m : (j < k <=> resume[j] < resume[k])
    BY Order
  \* The next entry is at i or behind it.
  <1>4. ASSUME NEW k \in 1..m, i > 1 => repos[i - 1] < resume[k] PROVE x <= resume[k]
    <2>1. PICK j \in 1..n : repos[j] = resume[k]
      BY <1>1
    <2>2. i <= j
      <3>1. SUFFICES ASSUME j < i PROVE FALSE
        BY <1>0
      <3>2. i > 1 /\ i - 1 \in 1..n /\ j <= i - 1
        BY <1>0, <3>1
      <3>3. repos[j] <= repos[i - 1] /\ repos[j] \in Nat /\ repos[i - 1] \in Nat
        BY <1>0, <1>2, <3>2
      <3>4. repos[i - 1] < repos[j]
        BY <1>4, <2>1, <3>2
      <3>5. \A a, b \in Nat : ~(a <= b /\ b < a)
        OBVIOUS
      <3> QED BY <3>3, <3>4, <3>5, Zenon
    <2> QED BY <1>0, <1>2, <2>1, <2>2
  <1>5. \A e \in 1..m : SubSeq(resume, 1, e) = Append(SubSeq(resume, 1, e - 1), resume[e])
    <2> SUFFICES ASSUME NEW e \in 1..m PROVE SubSeq(resume, 1, e) = Append(SubSeq(resume, 1, e - 1), resume[e])
      OBVIOUS
    <2>1. 1 \in 1..m /\ e \in 1..m
      BY <1>0
    <2>2. SubSeq(resume, 1, e) = SubSeq(resume, 1, e - 1) \o <<resume[e]>>
      BY <1>0, <2>1, SubSeqRecursiveSecond
    <2>3. SubSeq(resume, 1, e - 1) \in Seq(Nat)
      <3>1. 1 \in Int /\ e - 1 \in Int /\ \A k \in 1..(e - 1) : k \in 1..m
        BY <1>0
      <3> QED BY <1>0, <3>1, SubSeqProperties
    <2>4. resume[e] \in Nat
      BY <1>0
    <2> QED BY <2>2, <2>3, <2>4, AppendIsConcat
  <1>6. walk.found = SubSeq(resume, 1, c) /\ walk.lastFound \in Nat
        /\ (c > 0 => walk.lastFound \in 1..(i - 1) /\ repos[walk.lastFound] = resume[c])
    BY DEF Found
  <1> HIDE DEF m, n, x, after
  <1>7. ASSUME NEW e \in 1..m, after.entry = e, x = resume[e], after.lastFound = i,
               after.found = SubSeq(resume, 1, e)
        PROVE  Found(repos, resume, after, i, e)
    <2>1. e > 0 /\ i > 0 /\ i \in 1..i /\ i \in Nat
      BY <1>0
    <2> QED BY <1>7, <2>1 DEF Found, x
  <1>8. ASSUME after.entry = c + 1, after.lastFound = walk.lastFound, after.found = walk.found,
               c < m => x < resume[c + 1]
        PROVE  Found(repos, resume, after, i, c)
    <2>1. c > 0 => walk.lastFound \in 1..i
      <3>1. \A k \in 1..(i - 1) : k \in 1..i
        BY <1>0
      <3> QED BY <1>6, <3>1
    <2> QED BY <1>6, <1>8, <2>1 DEF Found, m, x
  <1>9. CASE walk.entry = c /\ i - 1 > 0 /\ c > 0 /\ repos[i - 1] = resume[c]
    <2>1. c \in 1..m /\ ~(walk.entry > m) /\ i - 1 \in 1..n /\ i > 1
      BY <1>0, <1>9
    <2>2. x > resume[c]
      <3>1. i - 1 < i
        BY <1>0
      <3>2. repos[i - 1] < repos[i]
        BY <1>0, <1>2, <2>1, <3>1
      <3> QED BY <1>0, <1>9, <2>1, <3>2 DEF x
    <2>3. after = VisitRepo(repos, resume, walk, i)
      BY <2>1 DEF after, Visited, m
    <2>4. CASE c + 1 <= m /\ x = resume[c + 1]
      <3>1. c + 1 \in 1..m /\ (c + 1) - 1 = c
        BY <1>0, <2>4
      <3>2. after.entry = c + 1 /\ after.lastFound = i /\ after.found = Append(walk.found, x)
        BY <1>9, <2>2, <2>3, <2>4 DEF VisitRepo, x, m
      <3>3. after.found = SubSeq(resume, 1, c + 1)
        BY <1>5, <1>6, <2>4, <3>1, <3>2
      <3>4. Found(repos, resume, after, i, c + 1)
        BY <1>7, <2>4, <3>1, <3>2, <3>3
      <3> QED BY <1>0, <3>1, <3>4 DEF after, m
    <2>5. CASE ~(c + 1 <= m /\ x = resume[c + 1])
      <3>1. after.entry = c + 1 /\ after.lastFound = walk.lastFound /\ after.found = walk.found
        BY <1>9, <2>2, <2>3, <2>5 DEF VisitRepo, x, m
      <3>2. ASSUME c < m PROVE x < resume[c + 1]
        <4>1. c + 1 \in 1..m /\ c < c + 1
          BY <1>0, <2>1, <3>2
        <4>2. resume[c] < resume[c + 1]
          BY <1>3, <2>1, <4>1
        <4>3. x <= resume[c + 1]
          BY <1>4, <1>9, <4>1, <4>2
        <4>4. resume[c + 1] \in Nat /\ c + 1 <= m
          BY <1>0, <4>1
        <4> QED BY <1>0, <2>5, <4>3, <4>4
      <3>3. Found(repos, resume, after, i, c)
        BY <1>8, <3>1, <3>2
      <3> QED BY <1>0, <3>3 DEF after, m
    <2> QED BY <2>4, <2>5
  <1>10. CASE walk.entry = c + 1 /\ (i - 1 > 0 /\ c < m => repos[i - 1] < resume[c + 1])
    <2>1. CASE c < m
      <3>1. c + 1 \in 1..m /\ ~(walk.entry > m) /\ (c + 1) - 1 = c
        BY <1>0, <1>10, <2>1
      <3>2. x <= resume[c + 1]
        <4>1. i > 1 => i - 1 > 0
          BY <1>0
        <4>2. i > 1 => repos[i - 1] < resume[c + 1]
          BY <1>10, <2>1, <4>1
        <4> QED BY <1>4, <3>1, <4>2
      <3>3. resume[c + 1] \in Nat
        BY <1>0, <3>1
      <3>4. ~(x > resume[c + 1]) /\ c + 1 <= m
        BY <1>0, <3>1, <3>2, <3>3
      <3>5. after = VisitRepo(repos, resume, walk, i)
        BY <3>1 DEF after, Visited, m
      <3>6. CASE x = resume[c + 1]
        <4>1. after.entry = c + 1 /\ after.lastFound = i /\ after.found = Append(walk.found, x)
          BY <1>10, <3>4, <3>5, <3>6 DEF VisitRepo, x, m
        <4>2. after.found = SubSeq(resume, 1, c + 1)
          BY <1>5, <1>6, <3>1, <3>6, <4>1
        <4>3. Found(repos, resume, after, i, c + 1)
          BY <1>7, <3>1, <3>6, <4>1, <4>2
        <4> QED BY <1>0, <3>1, <4>3 DEF after, m
      <3>7. CASE x # resume[c + 1]
        <4>1. after.entry = c + 1 /\ after.lastFound = walk.lastFound /\ after.found = walk.found
          BY <1>10, <3>4, <3>5, <3>7 DEF VisitRepo, x, m
        <4>2. x < resume[c + 1]
          BY <1>0, <3>2, <3>3, <3>7
        <4>3. Found(repos, resume, after, i, c)
          BY <1>8, <4>1, <4>2
        <4> QED BY <1>0, <4>3 DEF after, m
      <3> QED BY <3>6, <3>7
    <2>2. CASE ~(c < m)
      <3>1. walk.entry > m
        BY <1>0, <1>10, <2>2
      <3>2. after = walk
        BY <3>1 DEF after, Visited, m
      <3>3. Found(repos, resume, after, i, c)
        BY <1>8, <1>10, <2>2, <3>2
      <3> QED BY <1>0, <3>3 DEF after, m
    <2> QED BY <2>1, <2>2
  <1> QED BY <1>9, <1>10 DEF Found, m

\* Going on behind a position with what was found up to it.
LEMMA Continued ==
  ASSUME NEW repos \in Ascending, NEW found \in Ascending, NEW l \in 0..Len(repos),
         \A i \in 1..Len(found) : l > 0 /\ found[i] <= repos[l]
  PROVE  /\ found \o SubSeq(repos, l + 1, Len(repos)) \in Ascending
         /\ \A r : r \in ToSet(found \o SubSeq(repos, l + 1, Len(repos)))
                     <=> r \in ToSet(found) \/ \E k \in (l + 1)..Len(repos) : r = repos[k]
  <1> DEFINE m == Len(found)
             n == Len(repos)
             b == SubSeq(repos, l + 1, n)
             kept == found \o b
  <1>0. /\ m \in Nat /\ n \in Nat /\ found \in Seq(Nat) /\ repos \in Seq(Nat)
        /\ DOMAIN found = 1..m /\ DOMAIN repos = 1..n
        /\ \A k \in 1..m : found[k] \in Nat
        /\ \A k \in 1..n : repos[k] \in Nat
        /\ \A j, k \in 1..n : j < k => repos[j] < repos[k]
        /\ \A j, k \in 1..m : j < k => found[j] < found[k]
    <2>1. found \in Seq(Nat) /\ repos \in Seq(Nat)
      BY DEF Ascending
    <2> QED BY <2>1, Order
  <1>5. l \in 0..n /\ \A i \in 1..m : l > 0 /\ found[i] <= repos[l]
    OBVIOUS
  <1> HIDE DEF m, n, kept
  <1>6. b \in Seq(Nat) /\ Len(b) = n - l /\ \A i \in 1..(n - l) : b[i] = repos[l + i]
    <2>1. l + 1 \in Int /\ n \in Int /\ \A i \in (l + 1)..n : repos[i] \in Nat
      <3>1. l + 1 \in Int /\ n \in Int /\ \A i \in (l + 1)..n : i \in 1..n
        BY <1>0, <1>5
      <3> QED BY <1>0, <3>1
    <2>2. /\ b \in Seq(Nat) /\ Len(b) = IF l + 1 <= n THEN n - (l + 1) + 1 ELSE 0
          /\ \A i \in 1..(n - (l + 1) + 1) : b[i] = repos[l + 1 + i - 1]
      BY <2>1, SubSeqProperties
    <2>3. Len(b) = n - l
      <3>1. n - (l + 1) + 1 = n - l /\ (~(l + 1 <= n) => n - l = 0)
        BY <1>0, <1>5
      <3> HIDE DEF b
      <3> QED BY <2>2, <3>1
    <2>4. n - (l + 1) + 1 = n - l /\ \A i \in 1..(n - l) : l + 1 + i - 1 = l + i
      BY <1>0, <1>5
    <2> HIDE DEF b
    <2>5. \A i \in 1..(n - l) : b[i] = repos[l + i]
      BY <2>2, <2>4
    <2> QED BY <2>2, <2>3, <2>5
  <1> HIDE DEF b
  <1>8. /\ kept \in Seq(Nat) /\ Len(kept) = m + (n - l)
        /\ \A i \in 1..(m + (n - l)) : kept[i] = IF i <= m THEN found[i] ELSE b[i - m]
    <2>1. /\ found \o b \in Seq(Nat) /\ Len(found \o b) = Len(found) + Len(b)
          /\ \A i \in 1..(Len(found) + Len(b)) :
               (found \o b)[i] = IF i <= Len(found) THEN found[i] ELSE b[i - Len(found)]
      <3>1. found \in Seq(Nat) /\ b \in Seq(Nat)
        BY <1>0, <1>6
      <3> QED BY <3>1, ConcatProperties
    <2> QED BY <1>6, <2>1 DEF m, kept
  <1>9. \A i \in 1..m : i \in 1..(m + (n - l)) /\ kept[i] = found[i]
    <2>1. \A i \in 1..m : i \in 1..(m + (n - l)) /\ i <= m
      BY <1>0, <1>5
    <2> QED BY <1>8, <2>1
  <1>10. \A i \in 1..(n - l) : /\ m + i \in 1..(m + (n - l)) /\ l + i \in 1..n
                               /\ kept[m + i] = repos[l + i]
    <2>1. \A i \in 1..(n - l) : /\ m + i \in 1..(m + (n - l)) /\ ~(m + i <= m)
                                /\ (m + i) - m = i /\ l + i \in 1..n
      BY <1>0, <1>5
    <2> QED BY <1>6, <1>8, <2>1
  <1>11. \A i \in 1..(m + (n - l)) : i \in 1..m \/ \E j \in 1..(n - l) : i = m + j
    <2>1. ASSUME NEW i \in 1..(m + (n - l)), i \notin 1..m PROVE \E j \in 1..(n - l) : i = m + j
      <3>1. i - m \in 1..(n - l) /\ i = m + (i - m)
        BY <1>0, <1>5, <2>1
      <3> QED BY <3>1
    <2> QED BY <2>1
  <1>12. \A i \in 1..m, j \in 1..(n - l) : found[i] < repos[l + j]
    <2> SUFFICES ASSUME NEW i \in 1..m, NEW j \in 1..(n - l) PROVE found[i] < repos[l + j]
      OBVIOUS
    <2>1. l \in 1..n /\ l < l + j /\ l + j \in 1..n
      BY <1>0, <1>5
    <2>2. found[i] <= repos[l] /\ repos[l] < repos[l + j]
      BY <1>0, <1>5, <2>1
    <2>3. found[i] \in Nat /\ repos[l] \in Nat /\ repos[l + j] \in Nat
      BY <1>0, <2>1
    <2> QED BY <2>2, <2>3
  <1>13. kept \in Ascending
    <2>1. ASSUME NEW i \in 1..(m + (n - l)), NEW j \in 1..(m + (n - l)), i < j
          PROVE  kept[i] < kept[j]
      <3>1. CASE j \in 1..m
        <4>1. i \in 1..m
          BY <1>0, <2>1, <3>1
        <4>2. found[i] < found[j]
          BY <1>0, <2>1, <3>1, <4>1
        <4> QED BY <1>9, <3>1, <4>1, <4>2
      <3>2. ASSUME NEW k \in 1..(n - l), j = m + k PROVE kept[i] < kept[j]
        <4>1. CASE i \in 1..m
          BY <1>9, <1>10, <1>12, <3>2, <4>1
        <4>2. ASSUME NEW g \in 1..(n - l), i = m + g PROVE kept[i] < kept[j]
          <5>1. l + g < l + k
            BY <1>0, <1>5, <2>1, <3>2, <4>2
          <5>2. repos[l + g] < repos[l + k]
            BY <1>0, <1>10, <5>1
          <5> QED BY <1>10, <3>2, <4>2, <5>2
        <4> QED BY <1>11, <4>1, <4>2
      <3> QED BY <1>11, <3>1, <3>2
    <2>2. DOMAIN kept = 1..(m + (n - l))
      BY <1>8
    <2> QED BY <1>8, <2>1, <2>2 DEF Ascending, Increasing
  <1>14. ASSUME NEW r
         PROVE  r \in ToSet(kept) <=> r \in ToSet(found) \/ \E k \in (l + 1)..n : r = repos[k]
    <2>1. DOMAIN kept = 1..(m + (n - l))
      BY <1>8
    <2>2. ASSUME r \in ToSet(kept) PROVE r \in ToSet(found) \/ \E k \in (l + 1)..n : r = repos[k]
      <3>1. PICK i \in 1..(m + (n - l)) : kept[i] = r
        BY <2>1, <2>2 DEF ToSet
      <3>2. CASE i \in 1..m
        BY <1>0, <1>9, <3>1, <3>2 DEF ToSet
      <3>3. ASSUME NEW j \in 1..(n - l), i = m + j PROVE \E k \in (l + 1)..n : r = repos[k]
        <4>1. r = repos[l + j]
          BY <1>10, <3>1, <3>3
        <4>2. l + j \in (l + 1)..n
          BY <1>0, <1>5
        <4> QED BY <4>1, <4>2
      <3> QED BY <1>11, <3>2, <3>3
    <2>3. ASSUME r \in ToSet(found) PROVE r \in ToSet(kept)
      <3>1. PICK i \in 1..m : found[i] = r
        BY <1>0, <2>3 DEF ToSet
      <3> QED BY <1>9, <2>1, <3>1 DEF ToSet
    <2>4. ASSUME NEW k \in (l + 1)..n, r = repos[k] PROVE r \in ToSet(kept)
      <3>1. k - l \in 1..(n - l) /\ l + (k - l) = k
        BY <1>0, <1>5
      <3>2. kept[m + (k - l)] = r /\ m + (k - l) \in 1..(m + (n - l))
        BY <1>10, <2>4, <3>1
      <3> QED BY <2>1, <3>2 DEF ToSet
    <2> QED BY <2>2, <2>3, <2>4
  <1> QED BY <1>13, <1>14 DEF kept, b, n

\* Whatever the resume info, what was found so far is in order and not behind lastFound.
Behind(repos, walk, i) ==
  /\ walk.found \in Ascending /\ walk.lastFound \in 0..i
  /\ \A k \in 1..Len(walk.found) : /\ walk.lastFound > 0 /\ walk.found[k] <= repos[walk.lastFound]
                                   /\ walk.found[k] \in ToSet(repos)

\* A repository is found after those before it.
LEMMA VisitStaysBehind ==
  ASSUME NEW repos \in Ascending, NEW resume \in Seq(Nat), NEW i \in 1..Len(repos), NEW walk \in Walk,
         Behind(repos, walk, i - 1)
  PROVE  Behind(repos, Visited(repos, resume, walk, i), i)
  <1> DEFINE n == Len(repos)
             after == Visited(repos, resume, walk, i)
             old == walk.found
             last == walk.lastFound
  <1>0. /\ n \in Nat /\ i \in 1..n /\ DOMAIN repos = 1..n
        /\ \A k \in 1..n : repos[k] \in Nat
        /\ \A j, k \in 1..n : j < k => repos[j] < repos[k]
    BY Order
  <1>1. /\ old \in Ascending /\ last \in 0..(i - 1)
        /\ \A k \in 1..Len(old) : last > 0 /\ old[k] <= repos[last] /\ old[k] \in ToSet(repos)
    BY DEF Behind
  <1>2. \/ after.found = old /\ after.lastFound = last
        \/ after.found = Append(old, repos[i]) /\ after.lastFound = i
    BY DEF Visited, VisitRepo
  <1> HIDE DEF after, old, last, n
  <1>3. CASE after.found = old /\ after.lastFound = last
    <2>1. last \in 0..i
      BY <1>0, <1>1
    <2> QED BY <1>1, <1>3, <2>1 DEF Behind, after
  <1>4. CASE after.found = Append(old, repos[i]) /\ after.lastFound = i
    <2> DEFINE m == Len(old)
               new == Append(old, repos[i])
    <2>1. m \in Nat /\ old \in Seq(Nat) /\ \A k \in 1..m : old[k] \in Nat
      BY <1>1, Order DEF Ascending
    <2>2. /\ new \in Seq(Nat) /\ Len(new) = m + 1 /\ new[m + 1] = repos[i]
          /\ \A k \in 1..m : new[k] = old[k]
      BY <1>0, <2>1, AppendProperties
    <2> HIDE DEF new
    <2>3. \A k \in 1..m : old[k] < repos[i]
      <3> SUFFICES ASSUME NEW k \in 1..m PROVE old[k] < repos[i]
        OBVIOUS
      <3>1. last \in 1..n /\ last < i
        BY <1>0, <1>1
      <3>2. repos[last] < repos[i] /\ old[k] <= repos[last]
        BY <1>0, <1>1, <3>1
      <3>3. repos[last] \in Nat /\ repos[i] \in Nat /\ old[k] \in Nat
        BY <1>0, <2>1, <3>1
      <3>4. \A a, b, c \in Nat : a <= b /\ b < c => a < c
        OBVIOUS
      <3> QED BY <3>2, <3>3, <3>4, Zenon
    <2>4. \A k \in 1..m : new[k] < repos[i] /\ new[k] \in ToSet(repos)
      BY <1>1, <2>2, <2>3
    <2>5. repos[i] \in ToSet(repos) /\ repos[i] \in Nat
      BY <1>0 DEF ToSet
    <2>6. \A j, k \in 1..m : j < k => new[j] < new[k]
      BY <1>1, <2>2, Order
    <2> HIDE DEF m
    <2>7. \A k \in 1..(m + 1) : k \in 1..m \/ k = m + 1
      BY <2>1
    <2>8. new \in Ascending
      <3>1. ASSUME NEW j \in 1..(m + 1), NEW k \in 1..(m + 1), j < k PROVE new[j] < new[k]
        <4>1. j \in 1..m
          BY <2>1, <3>1
        <4> QED BY <2>2, <2>4, <2>6, <2>7, <3>1, <4>1
      <3>2. DOMAIN new = 1..(m + 1)
        BY <2>2
      <3> QED BY <2>2, <3>1, <3>2 DEF Ascending, Increasing
    <2>9. \A k \in 1..(m + 1) : new[k] <= repos[i] /\ new[k] \in ToSet(repos)
      <3>1. \A k \in 1..m : new[k] \in Nat /\ new[k] <= repos[i]
        <4>1. \A k \in 1..m : new[k] \in Nat /\ new[k] < repos[i]
          BY <2>1, <2>2, <2>4
        <4>2. \A a, b \in Nat : a < b => a <= b
          OBVIOUS
        <4> QED BY <2>5, <4>1, <4>2
      <3>2. repos[i] <= repos[i]
        BY <2>5
      <3> QED BY <2>2, <2>4, <2>5, <2>7, <3>1, <3>2
    <2>10. i \in 0..i /\ i > 0
      BY <1>0
    <2> QED BY <1>4, <2>2, <2>8, <2>9, <2>10 DEF Behind, after, new
  <1> QED BY <1>2, <1>3, <1>4

(***************************************************************************)
(* Whatever the resume info says, the filter returns repositories of the   *)
(* listing only, in their order and none twice.                            *)
(***************************************************************************)
THEOREM FilterWithin ==
  ASSUME NEW repos \in Ascending, NEW resume \in Seq(Nat)
  PROVE  /\ FilterReposToResume(repos, resume) \in Ascending
         /\ ToSet(FilterReposToResume(repos, resume)) \subseteq ToSet(repos)
  <1>1. CASE resume = <<>>
    BY <1>1 DEF FilterReposToResume
  <1>2. CASE resume # <<>>
    <2> DEFINE n == Len(repos)
               kept == FilterReposToResume(repos, resume)
    <2>0. n \in Nat /\ repos \in Seq(Nat) /\ DOMAIN repos = 1..n
      BY Order DEF Ascending
    <2>1. PICK h \in [0..n -> Walk] :
            /\ h[0] = Begin
            /\ \A i \in 1..n : h[i] = Visited(repos, resume, h[i - 1], i)
            /\ kept = h[n].found \o SubSeq(repos, h[n].lastFound + 1, n)
      BY <1>2, <2>0, FilterSteps
    <2> HIDE DEF n, kept
    <2>2. Behind(repos, h[n], n)
      <3> DEFINE G == {i \in 0..n : Behind(repos, h[i], i)}
      <3>1. 0 \in G
        <4>1. <<>> \in Ascending /\ Len(<<>>) = 0 /\ 0 \in 0..0
          BY DEF Ascending, Increasing
        <4>2. Behind(repos, Begin, 0)
          BY <4>1 DEF Behind, Begin
        <4> QED BY <2>0, <2>1, <4>2
      <3>2. ASSUME NEW i \in 1..n, i - 1 \in G PROVE i \in G
        <4>1. i - 1 \in 0..n /\ i \in 0..n /\ i \in 1..Len(repos)
          BY <2>0 DEF n
        <4>2. h[i - 1] \in Walk /\ h[i] = Visited(repos, resume, h[i - 1], i)
          BY <2>1, <4>1
        <4>3. Behind(repos, h[i], i)
          BY <3>2, <4>1, <4>2, VisitStaysBehind
        <4> QED BY <4>1, <4>3
      <3>3. n \in 0..n /\ (n \in G => Behind(repos, h[n], n))
        BY <2>0
      <3> HIDE DEF G
      <3> QED BY <2>0, <3>1, <3>2, <3>3, UpTo
    <2> DEFINE found == h[n].found
               l == h[n].lastFound
    <2>3. /\ found \in Ascending /\ l \in 0..Len(repos)
          /\ \A k \in 1..Len(found) : l > 0 /\ found[k] <= repos[l] /\ found[k] \in ToSet(repos)
          /\ kept = found \o SubSeq(repos, l + 1, Len(repos))
      BY <2>1, <2>2 DEF Behind, n
    <2> HIDE DEF found, l
    <2>4. /\ kept \in Ascending
          /\ \A r : r \in ToSet(kept) <=> r \in ToSet(found) \/ \E k \in (l + 1)..Len(repos) : r = repos[k]
      <3>1. \A k \in 1..Len(found) : l > 0 /\ found[k] <= repos[l]
        BY <2>3
      <3>2. /\ found \o SubSeq(repos, l + 1, Len(repos)) \in Ascending
            /\ \A r : r \in ToSet(found \o SubSeq(repos, l + 1, Len(repos)))
                         <=> r \in ToSet(found) \/ \E k \in (l + 1)..Len(repos) : r = repos[k]
        BY <2>3, <3>1, Continued
      <3> QED BY <2>3, <3>2, Zenon
    <2>5. \A r \in ToSet(found) : r \in ToSet(repos)
      <3>1. DOMAIN found = 1..Len(found)
        BY <2>3, Order
      <3> QED BY <2>3, <3>1 DEF ToSet
    <2>6. \A k \in (l + 1)..Len(repos) : repos[k] \in ToSet(repos)
      <3>1. \A k \in (l + 1)..Len(repos) : k \in 1..Len(repos)
        BY <2>3
      <3> QED BY <2>0, <3>1 DEF ToSet, n
    <2> QED BY <2>4, <2>5, <2>6 DEF kept
  <1> QED BY <1>1, <1>2

(***************************************************************************)
(* Resuming in a listing that has every entry of the resume info returns   *)
(* the entries and the repositories after the last of them.                *)
(***************************************************************************)
THEOREM FilterIs ==
  ASSUME NEW repos \in Ascending, NEW resume \in Ascending, resume # <<>>,
         ToSet(resume) \subseteq ToSet(repos)
  PROVE  ToSet(FilterReposToResume(repos, resume)) =
           {r \in ToSet(repos) : r \in ToSet(resume) \/ r > resume[Len(resume)]}
  <1> DEFINE m == Len(resume)
             n == Len(repos)
             kept == FilterReposToResume(repos, resume)
  <1>0. /\ m \in Nat \ {0} /\ n \in Nat /\ resume \in Seq(Nat) /\ repos \in Seq(Nat)
        /\ DOMAIN resume = 1..m /\ DOMAIN repos = 1..n
        /\ \A k \in 1..m : resume[k] \in Nat
        /\ \A k \in 1..n : repos[k] \in Nat
        /\ \A j, k \in 1..n : (j < k <=> repos[j] < repos[k]) /\ (j <= k <=> repos[j] <= repos[k])
        /\ \A j, k \in 1..m : (j < k <=> resume[j] < resume[k]) /\ (j <= k <=> resume[j] <= resume[k])
    <2>1. resume \in Seq(Nat) /\ repos \in Seq(Nat)
      BY DEF Ascending
    <2>2. m # 0
      BY <2>1
    <2> QED BY <2>1, <2>2, Order
  <1>1. PICK h \in [0..n -> Walk] :
          /\ h[0] = Begin
          /\ \A i \in 1..n : h[i] = Visited(repos, resume, h[i - 1], i)
          /\ kept = h[n].found \o SubSeq(repos, h[n].lastFound + 1, n)
    BY <1>0, FilterSteps
  <1> HIDE DEF kept, m, n
  <1>2. \E c \in 0..m : Found(repos, resume, h[n], n, c)
    <2> DEFINE G == {i \in 0..n : \E c \in 0..m : Found(repos, resume, h[i], i, c)}
    <2>1. 0 \in G
      <3>1. Found(repos, resume, Begin, 0, 0)
        <4>1. SubSeq(resume, 1, 0) = <<>>
          BY <1>0, SubSeqEmpty
        <4> QED BY <4>1 DEF Found, Begin
      <3> QED BY <1>0, <1>1, <3>1
    <2>2. ASSUME NEW i \in 1..n, i - 1 \in G PROVE i \in G
      <3>1. PICK c \in 0..m : Found(repos, resume, h[i - 1], i - 1, c)
        BY <2>2
      <3>2. i - 1 \in 0..n /\ i \in 0..n
        BY <1>0
      <3>3. h[i - 1] \in Walk /\ h[i] = Visited(repos, resume, h[i - 1], i)
        BY <1>1, <3>2
      <3>4. \E e \in 0..m : Found(repos, resume, h[i], i, e)
        BY <3>1, <3>3, VisitFinds DEF m, n
      <3> QED BY <3>2, <3>4
    <2>3. n \in 0..n /\ (n \in G => \E c \in 0..m : Found(repos, resume, h[n], n, c))
      BY <1>0
    <2> HIDE DEF G
    <2> QED BY <1>0, <2>1, <2>2, <2>3, UpTo
  <1>3. PICK c \in 0..m : Found(repos, resume, h[n], n, c)
    BY <1>2
  <1>4. c = m
    <2>1. SUFFICES ASSUME c # m PROVE FALSE
      OBVIOUS
    <2>2. c + 1 \in 1..m /\ c < m
      BY <1>0, <2>1
    <2>3. PICK j \in 1..n : repos[j] = resume[c + 1]
      BY <1>0, <2>2 DEF ToSet
    <2>4. n \in 1..n /\ n > 0
      BY <1>0
    <2>5. repos[n] < resume[c + 1]
      <3>1. CASE n > 0 /\ c > 0 /\ repos[n] = resume[c]
        <4>1. c \in 1..m /\ c < c + 1
          BY <1>0, <3>1
        <4> QED BY <1>0, <2>2, <3>1, <4>1
      <3>2. CASE n > 0 /\ c < Len(resume) => repos[n] < resume[c + 1]
        BY <2>2, <2>4, <3>2 DEF m
      <3> QED BY <1>3, <3>1, <3>2 DEF Found, m
    <2>6. repos[j] <= repos[n]
      BY <1>0, <2>4
    <2>7. repos[j] \in Nat /\ repos[n] \in Nat
      BY <1>0, <2>4
    <2> QED BY <2>3, <2>5, <2>6, <2>7
  <1> DEFINE l == h[n].lastFound
  <1>5. l \in 1..n /\ repos[l] = resume[m] /\ h[n].found = resume
    <2>1. SubSeq(resume, 1, m) = resume
      BY <1>0, SubSeqFull DEF m
    <2> QED BY <1>0, <1>3, <1>4, <2>1 DEF Found
  <1> HIDE DEF l
  <1>6. \A i \in 1..m : l > 0 /\ resume[i] <= repos[l]
    <2>1. m \in 1..m /\ \A i \in 1..m : i <= m
      BY <1>0
    <2> QED BY <1>0, <1>5, <2>1
  <1>7. \A r : r \in ToSet(kept) <=> r \in ToSet(resume) \/ \E k \in (l + 1)..n : r = repos[k]
    <2>1. kept = resume \o SubSeq(repos, l + 1, Len(repos)) /\ l \in 0..Len(repos)
      BY <1>0, <1>1, <1>5 DEF l, n
    <2>2. \A i \in 1..Len(resume) : l > 0 /\ resume[i] <= repos[l]
      BY <1>6 DEF m
    <2>3. \A r : r \in ToSet(resume \o SubSeq(repos, l + 1, Len(repos)))
                   <=> r \in ToSet(resume) \/ \E k \in (l + 1)..Len(repos) : r = repos[k]
      BY <2>1, <2>2, Continued
    <2> QED BY <2>1, <2>3, Zenon DEF n
  <1>8. ASSUME NEW r \in ToSet(repos)
        PROVE  (\E k \in (l + 1)..n : r = repos[k]) <=> r > resume[m]
    <2>1. PICK i \in 1..n : repos[i] = r
      BY <1>0 DEF ToSet
    <2>2. r > resume[m] <=> l < i
      BY <1>0, <1>5, <2>1
    <2>3. l < i <=> i \in (l + 1)..n
      BY <1>0, <1>5
    <2>4. ASSUME NEW k \in (l + 1)..n, r = repos[k] PROVE r > resume[m]
      <3>1. k \in 1..n /\ l < k
        BY <1>0, <1>5
      <3>2. repos[l] < repos[k]
        BY <1>0, <1>5, <3>1
      <3> QED BY <1>0, <1>5, <2>4, <3>1, <3>2
    <2> QED BY <2>1, <2>2, <2>3, <2>4
  <1>9. \A k \in (l + 1)..n : repos[k] \in ToSet(repos)
    <2>1. \A k \in (l + 1)..n : k \in 1..n
      BY <1>0, <1>5
    <2> QED BY <1>0, <2>1 DEF ToSet
  <1>10. ToSet(kept) = {r \in ToSet(repos) : r \in ToSet(resume) \/ r > resume[m]}
    <2>1. \A r : r \in ToSet(kept) <=> r \in ToSet(repos) /\ (r \in ToSet(resume) \/ r > resume[m])
      BY <1>7, <1>8, <1>9
    <2> QED BY <2>1
  <1> QED BY <1>10 DEF kept, m

----------------------------------------------------------------------------
(* What is true of a process at any moment.                                *)

Types ==
  /\ phase \in {"down", "scanning", "completed"} /\ cancelled \in BOOLEAN
  /\ listed \in SUBSET Repos /\ (phase # "down" => listed \in Listings)
  /\ toScan \in Ascending /\ ToSet(toScan) \subseteq listed /\ launched \in 0..Len(toScan)
  /\ state \in [Repos -> {"none", "launched", "scanning", "ended"}]
  /\ resumeInfo \in Ascending /\ finished \in SUBSET Repos
  /\ progress.resume \in Ascending /\ ToSet(progress.resume) \subseteq Repos
  /\ saved.resume \in Ascending /\ ToSet(saved.resume) \subseteq Repos
  /\ overtaken \in BOOLEAN

\* The loop launches in the order of toScan, and jobPool.Wait waits for all.
Goroutines ==
  /\ \A i \in 1..Len(toScan) : state[toScan[i]] = "none" <=> i > launched
  /\ \A r \in Repos \ ToSet(toScan) : state[r] = "none"
  /\ phase = "completed" => launched = Len(toScan) /\ ActiveRepos = {}

\* The resume info is what is being scanned; the encoded one may say more.
Recorded ==
  /\ ToSet(resumeInfo) = Scanning
  /\ Scanning \subseteq ToSet(progress.resume)
  /\ Scanning # {} => ToSet(progress.resume) \subseteq ToSet(toScan)
  /\ phase = "scanning" /\ launched = 0 =>
       toScan = FilterReposToResume(Sorted(listed), progress.resume)

ProcessInv == Types /\ Goroutines /\ Recorded

\* Listings are finite sets of numbers.
LEMMA RepoSets ==
  /\ Repos \in SUBSET Nat /\ IsFiniteSet(Repos)
  /\ \A S \in SUBSET Repos : S \in SUBSET Nat /\ IsFiniteSet(S)
  /\ \A found \in Listings : found \in SUBSET Repos
  <1>1. Repos \in SUBSET Nat /\ IsFiniteSet(Repos)
    BY ResumeAssumption DEF Repos
  <1>2. \A S \in SUBSET Repos : IsFiniteSet(S)
    BY <1>1, FS_Subset
  <1>3. \A found \in Listings : found \in SUBSET Repos
    BY DEF Repos
  <1> QED BY <1>1, <1>2, <1>3

\* Nothing is in order.
LEMMA EmptyAscends == <<>> \in Ascending /\ ToSet(<<>>) = {}
  BY DEF Ascending, Increasing, ToSet

\* Every process begins with what it has listed, or a part of it in the same order.
LEMMA StartFilters ==
  ASSUME NEW found \in Listings, NEW resume \in Ascending
  PROVE  /\ FilterReposToResume(Sorted(found), resume) \in Ascending
         /\ ToSet(FilterReposToResume(Sorted(found), resume)) \subseteq found
  <1>1. found \in SUBSET Nat /\ IsFiniteSet(found)
    BY RepoSets
  <1>2. Sorted(found) \in Ascending /\ ToSet(Sorted(found)) = found
    BY <1>1, SortedIs
  <1>3. resume \in Seq(Nat)
    BY DEF Ascending
  <1> QED BY <1>2, <1>3, FilterWithin

\* The invariant holds at first.
LEMMA InitProcess == Init => ProcessInv
  <1> SUFFICES ASSUME Init PROVE ProcessInv
    OBVIOUS
  <1>1. Len(<<>>) = 0
    OBVIOUS
  <1>2. Types
    <2>1. progress.resume = <<>> /\ saved.resume = <<>>
      BY DEF Init, Fresh
    <2>2. state \in [Repos -> {"none", "launched", "scanning", "ended"}]
      BY DEF Init
    <2>3. launched \in 0..Len(toScan)
      BY <1>1 DEF Init
    <2>4. /\ phase = "down" /\ cancelled \in BOOLEAN /\ listed = {} /\ toScan = <<>>
          /\ resumeInfo = <<>> /\ finished = {} /\ overtaken \in BOOLEAN
      BY DEF Init
    <2> QED BY <2>1, <2>2, <2>3, <2>4, EmptyAscends DEF Types
  <1>3. Goroutines
    BY <1>1, EmptyAscends DEF Init, Goroutines
  <1>4. Recorded
    BY EmptyAscends DEF Init, Recorded, Scanning, Fresh
  <1> QED BY <1>2, <1>3, <1>4 DEF ProcessInv

\* A new process, whatever the last one left.
LEMMA StartKeeps ==
  ASSUME ProcessInv, NEW found \in Listings, Start(found)
  PROVE  ProcessInv'
  <1>1. saved.resume \in Ascending /\ ToSet(saved.resume) \subseteq Repos /\ finished \in SUBSET Repos
        /\ overtaken \in BOOLEAN
    BY DEF ProcessInv, Types
  <1>2. /\ phase' = "scanning" /\ cancelled' = FALSE /\ listed' = found /\ launched' = 0
        /\ toScan' = FilterReposToResume(Sorted(found), saved.resume)
        /\ state' = [r \in Repos |-> "none"] /\ resumeInfo' = <<>>
        /\ progress'.resume = saved.resume /\ saved' = saved
        /\ finished' = finished /\ overtaken' = overtaken
    BY DEF Start, Fresh
  <1>3. toScan' \in Ascending /\ ToSet(toScan') \subseteq found
    BY <1>1, <1>2, StartFilters
  <1>4. Len(toScan') \in Nat /\ \A i \in 1..Len(toScan') : toScan'[i] \in Repos /\ i > 0
    <2>1. DOMAIN toScan' = 1..Len(toScan') /\ Len(toScan') \in Nat
      BY <1>3, Order
    <2>2. \A i \in 1..Len(toScan') : toScan'[i] \in ToSet(toScan')
      BY <2>1 DEF ToSet
    <2> QED BY <1>3, <2>1, <2>2, RepoSets
  <1>5. Scanning' = {}
    BY <1>2 DEF Scanning
  <1>6. Types'
    <2>1. found \in SUBSET Repos
      BY RepoSets
    <2>2. state' \in [Repos -> {"none", "launched", "scanning", "ended"}]
      BY <1>2
    <2>3. launched' \in 0..Len(toScan')
      BY <1>2, <1>4
    <2>4. phase' \in {"down", "scanning", "completed"} /\ cancelled' \in BOOLEAN
      BY <1>2
    <2> QED BY <1>1, <1>2, <1>3, <2>1, <2>2, <2>3, <2>4, EmptyAscends DEF Types
  <1>7. Goroutines'
    BY <1>2, <1>4 DEF Goroutines
  <1>8. Recorded'
    BY <1>2, <1>5, EmptyAscends DEF Recorded
  <1> QED BY <1>6, <1>7, <1>8 DEF ProcessInv

\* What is launched is a repository of the loop, and what has been launched stays launched.
LEMMA Launched ==
  ASSUME ProcessInv
  PROVE  /\ Len(toScan) \in Nat /\ DOMAIN toScan = 1..Len(toScan)
         /\ \A i \in 1..Len(toScan) : toScan[i] \in Repos /\ toScan[i] \in ToSet(toScan)
         /\ \A r \in Repos : state[r] # "none" => r \in Nat /\
              \E i \in 1..Len(toScan) : toScan[i] = r /\ i <= launched
         /\ \A i, j \in 1..Len(toScan) : toScan[i] = toScan[j] => i = j
  <1>1. /\ toScan \in Ascending /\ ToSet(toScan) \subseteq Repos /\ launched \in 0..Len(toScan)
        /\ \A i \in 1..Len(toScan) : state[toScan[i]] = "none" <=> i > launched
        /\ \A r \in Repos \ ToSet(toScan) : state[r] = "none"
    BY DEF ProcessInv, Types, Goroutines
  <1>2. /\ Len(toScan) \in Nat /\ DOMAIN toScan = 1..Len(toScan)
        /\ \A i, j \in 1..Len(toScan) : toScan[i] = toScan[j] => i = j
    BY <1>1, Order
  <1>3. \A i \in 1..Len(toScan) : toScan[i] \in ToSet(toScan)
    BY <1>2 DEF ToSet
  <1>4. ASSUME NEW r \in Repos, state[r] # "none"
        PROVE  r \in Nat /\ \E i \in 1..Len(toScan) : toScan[i] = r /\ i <= launched
    <2>1. r \in ToSet(toScan)
      BY <1>1, <1>4
    <2>2. PICK i \in 1..Len(toScan) : toScan[i] = r
      BY <1>2, <2>1 DEF ToSet
    <2>3. ~(i > launched)
      BY <1>1, <1>4, <2>2
    <2>4. i <= launched
      BY <1>1, <1>2, <2>3
    <2> QED BY <2>2, <2>4, RepoSets
  <1> QED BY <1>1, <1>2, <1>3, <1>4

\* A goroutine goes on: the loop does not notice.
LEMMA Moves ==
  ASSUME ProcessInv, NEW r \in Repos, NEW s \in {"scanning", "ended"},
         state[r] \in {"launched", "scanning"}, state' = [state EXCEPT ![r] = s],
         UNCHANGED <<procVars, launched>>
  PROVE  /\ Goroutines' /\ state' \in [Repos -> {"none", "launched", "scanning", "ended"}]
         /\ launched > 0 /\ phase # "completed" /\ r \in ToSet(toScan)
         /\ \A x \in Repos : state'[x] = IF x = r THEN s ELSE state[x]
  <1>1. /\ state \in [Repos -> {"none", "launched", "scanning", "ended"}]
        /\ toScan' = toScan /\ launched' = launched /\ phase' = phase
    BY DEF ProcessInv, Types, procVars
  <1>2. \A x \in Repos : state'[x] = IF x = r THEN s ELSE state[x]
    BY <1>1
  <1>3. state[r] # "none" /\ s # "none"
    OBVIOUS
  <1>4. phase # "completed"
    BY DEF ProcessInv, Goroutines, ActiveRepos
  <1>5. \A i \in 1..Len(toScan) : toScan[i] \in Repos
    BY Launched
  <1>6. \A x \in Repos : state'[x] = "none" <=> state[x] = "none"
    BY <1>2, <1>3
  <1>7. Goroutines'
    BY <1>1, <1>4, <1>5, <1>6 DEF ProcessInv, Goroutines
  <1>8. PICK i \in 1..Len(toScan) : toScan[i] = r /\ i <= launched
    BY <1>3, Launched
  <1>9. launched > 0 /\ r \in ToSet(toScan)
    <2>1. launched \in Nat
      BY Launched DEF ProcessInv, Types
    <2> QED BY <1>8, <2>1, Launched
  <1> QED BY <1>1, <1>2, <1>4, <1>7, <1>9

\* The loop gives the next repository to the pool.
LEMMA LaunchKeeps ==
  ASSUME ProcessInv, Launch
  PROVE  ProcessInv'
  <1> DEFINE n == Len(toScan)
             next == toScan[launched + 1]
  <1>1. /\ state \in [Repos -> {"none", "launched", "scanning", "ended"}] /\ launched \in 0..n
        /\ launched < n /\ phase = "scanning"
        /\ launched' = launched + 1 /\ state' = [state EXCEPT ![next] = "launched"]
        /\ phase' = phase /\ cancelled' = cancelled /\ listed' = listed /\ toScan' = toScan
        /\ resumeInfo' = resumeInfo /\ progress' = progress /\ saved' = saved
        /\ finished' = finished /\ overtaken' = overtaken
    BY DEF ProcessInv, Types, Launch, procVars
  <1>2. n \in Nat /\ launched + 1 \in 1..n /\ launched' \in 0..n /\ launched' # 0
    BY <1>1, Launched
  <1>3. next \in Repos /\ next \in ToSet(toScan) /\ state[next] = "none"
    <2>1. next \in Repos /\ next \in ToSet(toScan)
      BY <1>2, Launched
    <2>2. launched + 1 > launched
      BY <1>1
    <2> QED BY <1>2, <2>1, <2>2 DEF ProcessInv, Goroutines
  <1>4. \A x \in Repos : state'[x] = IF x = next THEN "launched" ELSE state[x]
    BY <1>1
  <1>5. Scanning' = Scanning
    BY <1>3, <1>4 DEF Scanning
  <1>6. state' \in [Repos -> {"none", "launched", "scanning", "ended"}]
    BY <1>1
  <1>7. Types'
    BY <1>1, <1>2, <1>6 DEF ProcessInv, Types
  <1>8. Goroutines'
    <2>1. ASSUME NEW i \in 1..n PROVE state'[toScan[i]] = "none" <=> i > launched + 1
      <3>1. toScan[i] \in Repos /\ (toScan[i] = next => i = launched + 1)
        BY <1>2, Launched
      <3>2. state[toScan[i]] = "none" <=> i > launched
        BY DEF ProcessInv, Goroutines
      <3>3. i # launched + 1 => (i > launched <=> i > launched + 1)
        BY <1>1
      <3>4. ~(launched + 1 > launched + 1)
        BY <1>1
      <3> HIDE DEF next
      <3>5. CASE toScan[i] = next
        BY <1>4, <3>1, <3>4, <3>5
      <3>6. CASE toScan[i] # next
        <4>1. i # launched + 1
          BY <3>6 DEF next
        <4> QED BY <1>4, <3>1, <3>2, <3>3, <3>6, <4>1
      <3> QED BY <3>5, <3>6
    <2>2. \A r \in Repos \ ToSet(toScan) : state'[r] = "none"
      <3> HIDE DEF next
      <3> QED BY <1>3, <1>4 DEF ProcessInv, Goroutines
    <2> QED BY <1>1, <2>1, <2>2 DEF Goroutines
  <1>9. Recorded'
    BY <1>1, <1>2, <1>5 DEF ProcessInv, Recorded
  <1> QED BY <1>7, <1>8, <1>9 DEF ProcessInv

\* A goroutine that starts too late.
LEMMA SkipKeeps ==
  ASSUME ProcessInv, NEW r \in Repos, SkipCancelled(r)
  PROVE  ProcessInv'
  <1>1. /\ state[r] = "launched" /\ state' = [state EXCEPT ![r] = "ended"]
        /\ UNCHANGED <<procVars, launched>>
        /\ phase' = phase /\ cancelled' = cancelled /\ listed' = listed /\ toScan' = toScan
        /\ launched' = launched /\ resumeInfo' = resumeInfo /\ progress' = progress
        /\ saved' = saved /\ finished' = finished /\ overtaken' = overtaken
    BY DEF SkipCancelled, procVars
  <1>2. /\ Goroutines' /\ state' \in [Repos -> {"none", "launched", "scanning", "ended"}]
        /\ \A x \in Repos : state'[x] = IF x = r THEN "ended" ELSE state[x]
    BY <1>1, Moves
  <1>3. Scanning' = Scanning
    BY <1>1, <1>2 DEF Scanning
  <1>4. Types'
    BY <1>1, <1>2 DEF ProcessInv, Types
  <1>5. Recorded'
    BY <1>1, <1>3 DEF ProcessInv, Recorded
  <1> QED BY <1>2, <1>4, <1>5 DEF ProcessInv

\* What a goroutine records when it begins.
LEMMA BeginRecords ==
  ASSUME ProcessInv, NEW r \in Repos, BeginScan(r)
  PROVE  /\ resumeInfo' \in Ascending /\ ToSet(resumeInfo') = Scanning \cup {r}
         /\ progress'.resume = resumeInfo'
         /\ Scanning \cup {r} \subseteq ToSet(toScan)
  <1>1. ToSet(resumeInfo) = Scanning /\ Scanning \cup {r} \in SUBSET Repos
    BY DEF ProcessInv, Recorded, Scanning
  <1>2. resumeInfo' = Sorted(Scanning \cup {r})
    BY <1>1 DEF BeginScan
  <1>3. Scanning \cup {r} \in SUBSET Nat /\ IsFiniteSet(Scanning \cup {r})
    BY <1>1, RepoSets
  <1>4. resumeInfo' \in Ascending /\ ToSet(resumeInfo') = Scanning \cup {r}
    BY <1>2, <1>3, SortedIs
  <1>5. progress'.resume = resumeInfo'
    BY DEF BeginScan, SetProgressComplete
  <1>6. \A x \in Scanning \cup {r} : x \in Repos /\ state[x] # "none"
    BY DEF Scanning, BeginScan
  <1>7. Scanning \cup {r} \subseteq ToSet(toScan)
    BY <1>6 DEF ProcessInv, Goroutines
  <1> QED BY <1>4, <1>5, <1>7

\* A scan begins and is recorded.
LEMMA BeginKeeps ==
  ASSUME ProcessInv, NEW r \in Repos, BeginScan(r)
  PROVE  ProcessInv'
  <1>1. /\ state[r] = "launched" /\ state' = [state EXCEPT ![r] = "scanning"]
        /\ UNCHANGED <<procVars, launched>>
        /\ phase' = phase /\ cancelled' = cancelled /\ listed' = listed /\ toScan' = toScan
        /\ launched' = launched /\ saved' = saved /\ finished' = finished
    BY DEF BeginScan, procVars
  <1>2. overtaken' \in BOOLEAN
    BY DEF BeginScan
  <1>3. /\ Goroutines' /\ state' \in [Repos -> {"none", "launched", "scanning", "ended"}]
        /\ launched > 0
        /\ \A x \in Repos : state'[x] = IF x = r THEN "scanning" ELSE state[x]
    BY <1>1, Moves
  <1>4. Scanning' = Scanning \cup {r}
    BY <1>3 DEF Scanning
  <1>5. /\ resumeInfo' \in Ascending /\ ToSet(resumeInfo') = Scanning \cup {r}
        /\ progress'.resume = resumeInfo'
        /\ Scanning \cup {r} \subseteq ToSet(toScan)
    BY BeginRecords
  <1>6. Scanning \cup {r} \subseteq Repos
    BY DEF Scanning
  <1>7. Types'
    BY <1>1, <1>2, <1>3, <1>5, <1>6 DEF ProcessInv, Types
  <1>8. launched # 0
    BY <1>3 DEF ProcessInv, Types
  <1>9. Recorded'
    BY <1>1, <1>4, <1>5, <1>8 DEF Recorded
  <1> QED BY <1>3, <1>7, <1>9 DEF ProcessInv

\* A scan ends; what has been encoded stays as it was.
LEMMA EndKeeps ==
  ASSUME ProcessInv, NEW r \in Repos, EndScan(r)
  PROVE  ProcessInv'
  <1>1. /\ state[r] = "scanning" /\ state' = [state EXCEPT ![r] = "ended"]
        /\ UNCHANGED <<procVars, launched>>
        /\ phase' = phase /\ cancelled' = cancelled /\ listed' = listed /\ toScan' = toScan
        /\ launched' = launched /\ progress' = progress /\ saved' = saved /\ overtaken' = overtaken
        /\ resumeInfo' = RemoveRepoFromResumeInfo(resumeInfo, r)
    BY DEF EndScan, procVars
  <1>2. finished' \in SUBSET Repos
    BY DEF EndScan, ProcessInv, Types
  <1>3. /\ Goroutines' /\ state' \in [Repos -> {"none", "launched", "scanning", "ended"}]
        /\ launched > 0
        /\ \A x \in Repos : state'[x] = IF x = r THEN "ended" ELSE state[x]
    BY <1>1, Moves
  <1>4. Scanning' = Scanning \ {r}
    BY <1>3 DEF Scanning
  <1>5. resumeInfo' \in Ascending /\ ToSet(resumeInfo') = Scanning \ {r}
    <2>1. resumeInfo \in Ascending /\ ToSet(resumeInfo) = Scanning /\ r \in Nat
      BY RepoSets DEF ProcessInv, Types, Recorded
    <2> QED BY <1>1, <2>1, RemovedIs
  <1>6. Types'
    BY <1>1, <1>2, <1>3, <1>5 DEF ProcessInv, Types
  <1>7. launched # 0
    BY <1>3 DEF ProcessInv, Types
  <1>8. Recorded'
    BY <1>1, <1>4, <1>5, <1>7 DEF ProcessInv, Recorded
  <1> QED BY <1>3, <1>6, <1>8 DEF ProcessInv

\* The loop is done, and so is everything it launched.
LEMMA CompleteKeeps ==
  ASSUME ProcessInv, Complete
  PROVE  ProcessInv'
  <1>1. /\ phase' = "completed" /\ launched = Len(toScan) /\ ActiveRepos = {}
        /\ cancelled' = cancelled /\ listed' = listed /\ toScan' = toScan
        /\ launched' = launched /\ state' = state /\ resumeInfo' = resumeInfo
        /\ saved' = saved /\ finished' = finished /\ overtaken' = overtaken
        /\ progress'.resume = <<>> /\ phase = "scanning"
    BY DEF Complete, SetProgressComplete
  <1>2. Scanning = {} /\ Scanning' = {} /\ ActiveRepos' = {}
    BY <1>1 DEF ActiveRepos, Scanning
  <1>3. Types'
    BY <1>1, EmptyAscends DEF ProcessInv, Types
  <1>4. Goroutines'
    BY <1>1, <1>2 DEF ProcessInv, Goroutines
  <1>5. Recorded'
    BY <1>1, <1>2 DEF ProcessInv, Recorded
  <1> QED BY <1>3, <1>4, <1>5 DEF ProcessInv

\* The rest leaves the goroutines and what they recorded alone.
LEMMA OthersLeave ==
  ASSUME ProcessInv, Cancel \/ Save \/ Stop \/ UNCHANGED vars
  PROVE  ProcessInv'
  <1>1. /\ listed' = listed /\ toScan' = toScan /\ launched' = launched /\ state' = state
        /\ resumeInfo' = resumeInfo /\ finished' = finished /\ overtaken' = overtaken
        /\ progress' = progress
    BY DEF Cancel, Save, Stop, vars, procVars
  <1>2. phase' = phase \/ phase' = "down"
    BY DEF Cancel, Save, Stop, vars, procVars
  <1>3. cancelled' \in BOOLEAN /\ (saved' = saved \/ saved' = progress)
    BY DEF Cancel, Save, Stop, vars, procVars, ProcessInv, Types
  <1>4. Scanning' = Scanning /\ ActiveRepos' = ActiveRepos
    BY <1>1 DEF Scanning, ActiveRepos
  <1>5. Types'
    BY <1>1, <1>2, <1>3 DEF ProcessInv, Types
  <1>6. Goroutines'
    BY <1>1, <1>2, <1>4 DEF ProcessInv, Goroutines
  <1>7. Recorded'
    BY <1>1, <1>2, <1>4 DEF ProcessInv, Recorded
  <1> QED BY <1>5, <1>6, <1>7 DEF ProcessInv

\* Every step keeps the invariant.
LEMMA NextProcess == ProcessInv /\ [Next]_vars => ProcessInv'
  <1> SUFFICES ASSUME ProcessInv, [Next]_vars PROVE ProcessInv'
    OBVIOUS
  <1>1. ASSUME NEW found \in Listings, Start(found) PROVE ProcessInv'
    BY <1>1, StartKeeps
  <1>2. ASSUME NEW r \in Repos, SkipCancelled(r) PROVE ProcessInv'
    BY <1>2, SkipKeeps
  <1>3. ASSUME NEW r \in Repos, BeginScan(r) PROVE ProcessInv'
    BY <1>3, BeginKeeps
  <1>4. ASSUME NEW r \in Repos, EndScan(r) PROVE ProcessInv'
    BY <1>4, EndKeeps
  <1>5. CASE Launch
    BY <1>5, LaunchKeeps
  <1>6. CASE Complete
    BY <1>6, CompleteKeeps
  <1>7. CASE Cancel \/ Save \/ Stop \/ UNCHANGED vars
    BY <1>7, OthersLeave
  <1> QED BY <1>1, <1>2, <1>3, <1>4, <1>5, <1>6, <1>7 DEF Next

----------------------------------------------------------------------------
(* What a resumed process scans.                                           *)

\* Of a listing: everything, or the entries of the resume info and what comes after the last.
LEMMA ResumedIs ==
  ASSUME NEW found \in SUBSET Repos, NEW info, info.resume \in Ascending,
         ToSet(info.resume) \subseteq found
  PROVE  /\ info.resume = <<>> => Resumed(found, info) = found
         /\ info.resume # <<>> =>
              Resumed(found, info) =
                {r \in found : r \in ToSet(info.resume) \/ r > info.resume[Len(info.resume)]}
  <1>1. found \in SUBSET Nat /\ IsFiniteSet(found)
    BY RepoSets
  <1>2. Sorted(found) \in Ascending /\ ToSet(Sorted(found)) = found
    BY <1>1, SortedIs
  <1>3. ASSUME info.resume = <<>> PROVE Resumed(found, info) = found
    BY <1>2, <1>3 DEF Resumed, FilterReposToResume
  <1>4. ASSUME info.resume # <<>>
        PROVE  Resumed(found, info) =
                 {r \in found : r \in ToSet(info.resume) \/ r > info.resume[Len(info.resume)]}
    BY <1>2, <1>4, FilterIs DEF Resumed
  <1> QED BY <1>3, <1>4

\* What is being scanned would be scanned again.
LEMMA BegunResumed == ProcessInv => BegunIsResumed
  <1> SUFFICES ASSUME ProcessInv, phase = "scanning", NEW r \in Scanning
               PROVE  r \in Resumed(listed, progress)
    BY DEF BegunIsResumed
  <1>1. /\ Scanning \subseteq ToSet(progress.resume)
        /\ ToSet(progress.resume) \subseteq ToSet(toScan) /\ ToSet(toScan) \subseteq listed
        /\ progress.resume \in Ascending /\ listed \in SUBSET Repos
    BY DEF ProcessInv, Types, Recorded
  <1>2. r \in listed /\ r \in ToSet(progress.resume) /\ progress.resume # <<>>
    BY <1>1, EmptyAscends
  <1>3. ToSet(progress.resume) \subseteq listed
    BY <1>1
  <1> QED BY <1>1, <1>2, <1>3, ResumedIs

----------------------------------------------------------------------------
(* A scan of one listing by several processes.                             *)

\* Every process enumerates the same repositories.
SameListing == \E found : Listings = {found}

Ended == {r \in Repos : state[r] = "ended"}

\* No goroutine is behind one that was launched after it.
InOrder ==
  \A i, j \in 1..Len(toScan) :
    i < j => ~(state[toScan[i]] = "launched" /\ state[toScan[j]] = "scanning")

NothingLost ==
  ~overtaken =>
    /\ Repos \ finished \subseteq Resumed(Repos, saved)
    /\ InOrder
    /\ phase # "down" => /\ Repos \ finished \subseteq Resumed(Repos, progress)
                         /\ Repos \ ToSet(toScan) \subseteq finished
                         /\ ~cancelled => Ended \subseteq finished

\* The repository goroutines are working on has one place in toScan.
LEMMA PlaceOf ==
  ASSUME ProcessInv, NEW i \in 1..Len(toScan)
  PROVE  Position(toScan[i]) = i
  <1> DEFINE r == toScan[i]
             I == {k \in 1..Len(toScan) : toScan[k] = r}
  <1>1. I = {i}
    BY Launched
  <1>2. Min(I) = i
    BY <1>1 DEF Min
  <1> QED BY <1>1, <1>2 DEF Position, SelectInSeq

\* Everything that is not finished is in the resume info of the goroutine
\* that begins, or after its last entry.
LEMMA BeginLosesNothing ==
  ASSUME ProcessInv, NothingLost, NEW r \in Repos, phase # "down", BeginScan(r)
  PROVE  NothingLost'
  <1> SUFFICES ASSUME ~overtaken'
               PROVE  /\ (Repos \ finished \subseteq Resumed(Repos, saved))'
                      /\ InOrder'
                      /\ (Repos \ finished \subseteq Resumed(Repos, progress))'
                      /\ (Repos \ ToSet(toScan) \subseteq finished)'
                      /\ (~cancelled => Ended \subseteq finished)'
    BY DEF NothingLost
  <1>1. /\ state[r] = "launched" /\ ~cancelled /\ state' = [state EXCEPT ![r] = "scanning"]
        /\ UNCHANGED <<procVars, launched>>
        /\ phase' = phase /\ cancelled' = cancelled /\ listed' = listed /\ toScan' = toScan
        /\ launched' = launched /\ saved' = saved /\ finished' = finished
        /\ ~overtaken /\ ~Overtakes(r)
    BY DEF BeginScan, procVars
  <1>2. \A x \in Repos : state'[x] = IF x = r THEN "scanning" ELSE state[x]
    BY <1>1, Moves
  <1>3. /\ Repos \ finished \subseteq Resumed(Repos, saved) /\ InOrder
        /\ Repos \ ToSet(toScan) \subseteq finished /\ Ended \subseteq finished
    BY <1>1 DEF NothingLost
  <1>4. PICK at \in 1..Len(toScan) : toScan[at] = r /\ at <= launched
    BY <1>1, Launched
  <1>5. \A i \in 1..Len(toScan) : i < at => state[toScan[i]] # "launched"
    <2>1. Position(r) = at
      BY <1>4, PlaceOf
    <2>2. \A i \in 1..Len(toScan) : i < at => i \in 1..(at - 1)
      BY Launched
    <2> QED BY <1>1, <2>1, <2>2 DEF Overtakes
  <1>6. (Repos \ finished \subseteq Resumed(Repos, saved))'
    BY <1>1, <1>3 DEF Resumed
  <1>7. InOrder'
    <2> SUFFICES ASSUME NEW i \in 1..Len(toScan), NEW j \in 1..Len(toScan), i < j,
                        state'[toScan[i]] = "launched", state'[toScan[j]] = "scanning"
                 PROVE  FALSE
      BY <1>1 DEF InOrder
    <2>1. toScan[i] \in Repos /\ toScan[j] \in Repos
      BY Launched
    <2>2. toScan[i] # r /\ state[toScan[i]] = "launched"
      BY <1>2, <2>1
    <2>3. CASE toScan[j] = r
      <3>1. j = at
        BY <1>4, <2>3, Launched
      <3> QED BY <1>5, <2>2, <3>1
    <2>4. CASE toScan[j] # r
      <3>1. state[toScan[j]] = "scanning"
        BY <1>2, <2>1, <2>4
      <3> QED BY <1>3, <2>2, <3>1 DEF InOrder
    <2> QED BY <2>3, <2>4
  <1>8. (Repos \ finished \subseteq Resumed(Repos, progress))'
    <2>1. /\ resumeInfo' \in Ascending /\ ToSet(resumeInfo') = Scanning \cup {r}
          /\ progress'.resume = resumeInfo'
          /\ Scanning \cup {r} \subseteq Repos
      BY BeginRecords DEF Scanning
    <2> DEFINE q == progress'.resume
               last == q[Len(q)]
    <2>2. q \in Ascending /\ ToSet(q) = Scanning \cup {r} /\ q # <<>>
      BY <2>1, EmptyAscends
    <2>3. last \in Scanning \cup {r}
      <3>1. Len(q) \in 1..Len(q) /\ DOMAIN q = 1..Len(q)
        <4>1. q \in Seq(Nat)
          BY <2>2 DEF Ascending
        <4> QED BY <2>2, <4>1
      <3>2. last \in ToSet(q)
        BY <3>1 DEF ToSet
      <3> QED BY <2>2, <3>2
    <2>4. (Resumed(Repos, progress))' = {x \in Repos : x \in ToSet(q) \/ x > last}
      <3>1. Resumed(Repos, progress') = {x \in Repos : x \in ToSet(q) \/ x > last}
        BY <2>1, <2>2, ResumedIs
      <3>2. (Resumed(Repos, progress))' = Resumed(Repos, progress')
        BY DEF Resumed
      <3> QED BY <3>1, <3>2
    <2> HIDE DEF q, last
    <2>5. ASSUME NEW x \in Repos, x \notin finished, x \notin ToSet(q) PROVE x > last
      <3>1. x \in ToSet(toScan) /\ x # r /\ state[x] # "scanning" /\ state[x] # "ended"
        BY <1>3, <2>2, <2>5 DEF Scanning, Ended
      <3>2. PICK i \in 1..Len(toScan) : toScan[i] = x
        BY <3>1, Launched DEF ToSet
      <3>3. PICK j \in 1..Len(toScan) : toScan[j] = last /\ j <= launched
        <4>1. last \in Repos /\ state[last] # "none"
          BY <1>1, <2>3 DEF Scanning
        <4> QED BY <4>1, Launched
      <3>4. j < i
        <4>1. state[x] = "none" \/ state[x] = "launched"
          BY <3>1 DEF ProcessInv, Types
        <4>2. CASE state[x] = "none"
          <5>1. i > launched
            BY <3>2, <4>2 DEF ProcessInv, Goroutines
          <5>2. launched \in Nat /\ i \in Nat /\ j \in Nat
            BY Launched DEF ProcessInv, Types
          <5> QED BY <3>3, <5>1, <5>2
        <4>3. CASE state[x] = "launched"
          <5>1. i # j
            <6>1. x # last
              BY <2>3, <3>1 DEF Scanning
            <6> QED BY <3>2, <3>3, <6>1
          <5>2. ~(i < j)
            <6>1. CASE last = r
              <7>1. j = at
                BY <1>4, <3>3, <6>1, Launched
              <7> QED BY <1>5, <3>2, <4>3, <7>1
            <6>2. CASE last \in Scanning
              <7>1. state[toScan[j]] = "scanning"
                BY <3>3, <6>2 DEF Scanning
              <7> QED BY <1>3, <3>2, <4>3, <7>1 DEF InOrder
            <6> QED BY <2>3, <6>1, <6>2
          <5>3. i \in Nat /\ j \in Nat
            BY Launched
          <5> QED BY <5>1, <5>2, <5>3
        <4> QED BY <4>1, <4>2, <4>3
      <3>5. toScan[j] < toScan[i] /\ toScan[i] \in Nat /\ toScan[j] \in Nat
        <4>1. toScan \in Ascending
          BY DEF ProcessInv, Types
        <4> QED BY <3>4, <4>1, Order
      <3> QED BY <3>2, <3>3, <3>5
    <2> QED BY <1>1, <2>4, <2>5
  <1>9. (~cancelled => Ended \subseteq finished)'
    <2>1. Ended' \subseteq Ended
      BY <1>2 DEF Ended
    <2> QED BY <1>1, <1>3, <2>1
  <1> QED BY <1>1, <1>3, <1>6, <1>7, <1>8, <1>9

\* Resuming depends on the listing and the resume info only.
LEMMA ResumedStays ==
  ASSUME NEW a, NEW b, a.resume = b.resume
  PROVE  Resumed(Repos, a) = Resumed(Repos, b)
  BY DEF Resumed

\* The next process begins with what was saved.
LEMMA StartLosesNothing ==
  ASSUME ProcessInv, SameListing, NothingLost, NEW found \in Listings, Start(found)
  PROVE  NothingLost'
  <1> SUFFICES ASSUME ~overtaken' PROVE NothingLost'
    BY DEF NothingLost
  <1>1. /\ toScan' = FilterReposToResume(Sorted(found), saved.resume)
        /\ state' = [r \in Repos |-> "none"] /\ progress'.resume = saved.resume
        /\ saved' = saved /\ finished' = finished /\ overtaken' = overtaken
    BY DEF Start, Fresh
  <1>2. found = Repos
    BY DEF SameListing, Repos
  <1>3. Repos \ finished \subseteq Resumed(Repos, saved)
    BY <1>1 DEF NothingLost
  <1>4. ToSet(toScan') = Resumed(Repos, saved)
    BY <1>1, <1>2 DEF Resumed
  <1>5. Resumed(Repos, progress') = Resumed(Repos, saved)
    BY <1>1 DEF Resumed
  <1>6. Ended' = {}
    BY <1>1 DEF Ended
  <1>7. InOrder'
    <2>1. ProcessInv'
      BY StartKeeps
    <2>2. \A i \in 1..Len(toScan') : toScan'[i] \in Repos
      <3>1. toScan' \in Ascending /\ ToSet(toScan') \subseteq Repos
        BY <2>1 DEF ProcessInv, Types
      <3>2. DOMAIN toScan' = 1..Len(toScan')
        BY <3>1, Order
      <3> QED BY <3>1, <3>2 DEF ToSet
    <2> QED BY <1>1, <2>2 DEF InOrder
  <1>8. (Resumed(Repos, progress))' = Resumed(Repos, saved) /\ (Resumed(Repos, saved))' = Resumed(Repos, saved)
    BY <1>1, <1>5 DEF Resumed
  <1>9. /\ (Repos \ finished \subseteq Resumed(Repos, saved))'
        /\ (Repos \ finished \subseteq Resumed(Repos, progress))'
        /\ (Repos \ ToSet(toScan) \subseteq finished)'
        /\ (~cancelled => Ended \subseteq finished)'
    BY <1>1, <1>3, <1>4, <1>6, <1>8
  <1> QED BY <1>7, <1>9 DEF NothingLost

\* The loop launches in the order of toScan.
LEMMA LaunchLosesNothing ==
  ASSUME ProcessInv, NothingLost, Launch
  PROVE  NothingLost'
  <1> SUFFICES ASSUME ~overtaken' PROVE NothingLost'
    BY DEF NothingLost
  <1> DEFINE next == toScan[launched + 1]
  <1>1. /\ launched < Len(toScan) /\ state' = [state EXCEPT ![next] = "launched"]
        /\ phase' = phase /\ cancelled' = cancelled /\ toScan' = toScan
        /\ progress' = progress /\ saved' = saved /\ finished' = finished /\ overtaken' = overtaken
    BY DEF Launch, procVars
  <1>2. launched \in Nat /\ launched + 1 \in 1..Len(toScan) /\ next \in Repos
    <2>1. launched \in Nat /\ launched + 1 \in 1..Len(toScan)
      BY <1>1, Launched DEF ProcessInv, Types
    <2> QED BY <2>1, Launched
  <1>3. \A x \in Repos : state'[x] = IF x = next THEN "launched" ELSE state[x]
    BY <1>1 DEF ProcessInv, Types
  <1>4. Ended' \subseteq Ended
    BY <1>3 DEF Ended
  <1>5. InOrder'
    <2> SUFFICES ASSUME NEW i \in 1..Len(toScan), NEW j \in 1..Len(toScan), i < j,
                        state'[toScan[i]] = "launched", state'[toScan[j]] = "scanning"
                 PROVE  FALSE
      BY <1>1 DEF InOrder
    <2>1. toScan[i] \in Repos /\ toScan[j] \in Repos
      BY Launched
    <2>2. state[toScan[j]] = "scanning"
      BY <1>3, <2>1
    <2>3. ~(j > launched)
      BY <2>2 DEF ProcessInv, Goroutines
    <2>4. i # launched + 1
      BY <1>2, <2>3
    <2>5. toScan[i] # next
      BY <1>2, <2>4, Launched
    <2>6. state[toScan[i]] = "launched"
      BY <1>3, <2>1, <2>5
    <2> QED BY <1>1, <2>2, <2>6 DEF NothingLost, InOrder
  <1>6. (Resumed(Repos, progress))' = Resumed(Repos, progress) /\ (Resumed(Repos, saved))' = Resumed(Repos, saved)
    BY <1>1 DEF Resumed
  <1> QED BY <1>1, <1>4, <1>5, <1>6 DEF NothingLost

\* A goroutine that ends leaves what it was to scan finished, or the scan is cancelled.
LEMMA EndLosesNothing ==
  ASSUME ProcessInv, NothingLost, NEW r \in Repos, phase # "down", SkipCancelled(r) \/ EndScan(r)
  PROVE  NothingLost'
  <1> SUFFICES ASSUME ~overtaken' PROVE NothingLost'
    BY DEF NothingLost
  <1>1. /\ state[r] \in {"launched", "scanning"} /\ state' = [state EXCEPT ![r] = "ended"]
        /\ UNCHANGED <<procVars, launched>>
        /\ phase' = phase /\ cancelled' = cancelled /\ toScan' = toScan
        /\ progress' = progress /\ saved' = saved /\ overtaken' = overtaken
    BY DEF SkipCancelled, EndScan, procVars
  <1>2. finished \subseteq finished' /\ (~cancelled => r \in finished')
    BY DEF SkipCancelled, EndScan
  <1>3. \A x \in Repos : state'[x] = IF x = r THEN "ended" ELSE state[x]
    BY <1>1, Moves
  <1>4. Ended' \subseteq Ended \cup {r}
    BY <1>3 DEF Ended
  <1>5. InOrder'
    <2>1. \A i \in 1..Len(toScan) : toScan[i] \in Repos
      BY Launched
    <2>2. InOrder
      BY <1>1 DEF NothingLost
    <2> QED BY <1>1, <1>3, <2>1, <2>2 DEF InOrder
  <1>6. (Resumed(Repos, progress))' = Resumed(Repos, progress) /\ (Resumed(Repos, saved))' = Resumed(Repos, saved)
    BY <1>1 DEF Resumed
  <1> QED BY <1>1, <1>2, <1>4, <1>5, <1>6 DEF NothingLost

\* Progress that is cleared, saved or left behind still says what is to be scanned.
LEMMA OthersLoseNothing ==
  ASSUME ProcessInv, NothingLost, Complete \/ Cancel \/ Save \/ Stop \/ UNCHANGED vars
  PROVE  NothingLost'
  <1> SUFFICES ASSUME ~overtaken' PROVE NothingLost'
    BY DEF NothingLost
  <1>1. /\ toScan' = toScan /\ state' = state /\ finished' = finished /\ overtaken' = overtaken
        /\ phase' # "down" => phase # "down"
        /\ cancelled' = cancelled \/ cancelled'
    <2>1. toScan' = toScan /\ state' = state /\ finished' = finished /\ overtaken' = overtaken
      BY DEF Complete, Cancel, Save, Stop, vars, procVars
    <2>2. phase' # "down" => phase # "down"
      BY DEF Complete, Cancel, Save, Stop, vars, procVars
    <2>3. cancelled' = cancelled \/ cancelled'
      <3>1. CASE Cancel
        BY <3>1, Zenon DEF Cancel
      <3>2. CASE Complete \/ Save \/ Stop \/ UNCHANGED vars
        <4>1. cancelled' = cancelled
          BY <3>2 DEF Complete, Save, Stop, vars, procVars
        <4> QED BY <4>1
      <3> QED BY <3>1, <3>2
    <2> QED BY <2>1, <2>2, <2>3
  <1>2. Ended' = Ended /\ (InOrder => InOrder')
    BY <1>1 DEF Ended, InOrder
  <1>3. progress' = progress \/ progress'.resume = <<>>
    BY DEF Complete, Cancel, Save, Stop, vars, SetProgressComplete
  <1>4. saved' = saved \/ (saved' = progress /\ phase # "down")
    <2>1. CASE Save
      <3>1. saved' = progress
        BY <2>1 DEF Save
      <3>2. phase # "down"
        BY <2>1 DEF Save
      <3> QED BY <3>1, <3>2
    <2>2. CASE Complete \/ Cancel \/ Stop \/ UNCHANGED vars
      <3>1. saved' = saved
        BY <2>2 DEF Complete, Cancel, Stop, vars
      <3> QED BY <3>1
    <2> QED BY <2>1, <2>2
  <1>5. (Resumed(Repos, progress))' = Resumed(Repos, progress) \/ (Resumed(Repos, progress))' = Repos
    <2>1. CASE progress' = progress
      BY <2>1 DEF Resumed
    <2>2. CASE progress'.resume = <<>>
      <3>1. Resumed(Repos, progress') = Repos
        BY <2>2, RepoSets, EmptyAscends, ResumedIs
      <3> QED BY <3>1 DEF Resumed
    <2> QED BY <1>3, <2>1, <2>2
  <1>6. \/ (Resumed(Repos, saved))' = Resumed(Repos, saved)
        \/ (Resumed(Repos, saved))' = Resumed(Repos, progress) /\ phase # "down"
    BY <1>4 DEF Resumed
  <1> QED BY <1>1, <1>2, <1>5, <1>6 DEF NothingLost

\* As long as every process lists the same repositories.
LEMMA NextNothingLost ==
  SameListing => (ProcessInv /\ NothingLost /\ [Next]_vars => NothingLost')
  <1> SUFFICES ASSUME SameListing, ProcessInv, NothingLost, [Next]_vars PROVE NothingLost'
    OBVIOUS
  <1>1. ASSUME NEW found \in Listings, Start(found) PROVE NothingLost'
    BY <1>1, StartLosesNothing
  <1>2. ASSUME NEW r \in Repos, phase # "down", SkipCancelled(r) \/ EndScan(r) PROVE NothingLost'
    BY <1>2, EndLosesNothing
  <1>3. ASSUME NEW r \in Repos, phase # "down", BeginScan(r) PROVE NothingLost'
    BY <1>3, BeginLosesNothing
  <1>4. CASE Launch
    BY <1>4, LaunchLosesNothing
  <1>5. CASE Complete \/ Cancel \/ Save \/ Stop \/ UNCHANGED vars
    BY <1>5, OthersLoseNothing
  <1> QED BY <1>1, <1>2, <1>3, <1>4, <1>5 DEF Next

\* At first nothing has been saved, so that everything is scanned.
LEMMA InitNothingLost == Init => NothingLost
  <1> SUFFICES ASSUME Init PROVE NothingLost
    OBVIOUS
  <1>1. saved.resume = <<>> /\ phase = "down" /\ toScan = <<>>
    BY DEF Init, Fresh
  <1>2. Resumed(Repos, saved) = Repos
    BY <1>1, RepoSets, EmptyAscends, ResumedIs
  <1>3. InOrder
    BY <1>1 DEF InOrder
  <1> QED BY <1>1, <1>2, <1>3 DEF NothingLost

\* With one listing, every saved progress is one of it.
LEMMA OneListing == SameListing /\ ProcessInv /\ phase # "down" => listed = Repos
  BY DEF SameListing, ProcessInv, Types, Repos

\* What a completed scan says is true of the whole listing.
LEMMA CompletedScanned == SameListing /\ ProcessInv /\ NothingLost => CompletedMeansScanned
  <1> SUFFICES ASSUME SameListing, ProcessInv, NothingLost, phase = "completed", ~cancelled, ~overtaken,
                      NEW x \in listed
               PROVE  x \in finished
    BY DEF CompletedMeansScanned
  <1>1. /\ Repos \ ToSet(toScan) \subseteq finished /\ Ended \subseteq finished
        /\ launched = Len(toScan) /\ ActiveRepos = {} /\ x \in Repos
    BY OneListing DEF NothingLost, ProcessInv, Goroutines
  <1>2. CASE x \in ToSet(toScan)
    <2>1. PICK i \in 1..Len(toScan) : toScan[i] = x
      BY <1>2, Launched DEF ToSet
    <2>2. ~(i > launched)
      BY <1>1, Launched
    <2>3. state[x] # "none"
      BY <2>1, <2>2 DEF ProcessInv, Goroutines
    <2>4. state[x] = "ended"
      BY <1>1, <2>3 DEF ProcessInv, Types, ActiveRepos
    <2> QED BY <1>1, <2>4 DEF Ended
  <1> QED BY <1>1, <1>2

\* The filter's comment is right about what a process resumes with.
LEMMA AsDocumented == SameListing /\ ProcessInv => ResumedAsDocumented
  <1> SUFFICES ASSUME SameListing, ProcessInv, phase = "scanning", launched = 0
               PROVE  toScan = Sorted(DocumentedScan(listed, progress.resume))
    BY DEF ResumedAsDocumented
  <1> DEFINE q == progress.resume
             doc == DocumentedScan(Repos, q)
  <1>1. /\ toScan \in Ascending /\ ToSet(toScan) = Resumed(Repos, progress) /\ listed = Repos
        /\ q \in Ascending /\ ToSet(q) \subseteq Repos
    BY OneListing DEF ProcessInv, Types, Recorded, Resumed
  <1>2. ToSet(toScan) = doc
    <2>1. CASE q = <<>>
      <3>1. ToSet(q) \cap Repos = {}
        BY <2>1, EmptyAscends
      <3>2. doc = Repos
        BY <3>1 DEF DocumentedScan
      <3> QED BY <1>1, <2>1, <3>2, ResumedIs
    <2>2. CASE q # <<>>
      <3> DEFINE known == ToSet(q) \cap Repos
                 last == q[Len(q)]
      <3>1. known = ToSet(q) /\ DOMAIN q = 1..Len(q) /\ Len(q) \in 1..Len(q)
        <4>1. q \in Seq(Nat)
          BY <1>1 DEF Ascending
        <4> QED BY <1>1, <2>2, <4>1
      <3>2. last \in known
        BY <3>1 DEF ToSet
      <3>3. Max(known) = last
        <4>1. known \in SUBSET Int /\ IsFiniteSet(known)
          <5>1. known \in SUBSET Repos
            OBVIOUS
          <5>2. known \in SUBSET Nat /\ IsFiniteSet(known)
            BY <5>1, RepoSets
          <5> QED BY <5>2
        <4>2. Max(known) \in known /\ last <= Max(known)
          BY <3>2, <4>1, FiniteMax
        <4>3. PICK k \in 1..Len(q) : q[k] = Max(known)
          BY <3>1, <4>2 DEF ToSet
        <4>4. Max(known) <= last
          <5>1. k <= Len(q)
            OBVIOUS
          <5> QED BY <1>1, <3>1, <4>3, <5>1, Order
        <4>5. Max(known) \in Int /\ last \in Int
          BY <3>2, <4>1, <4>2
        <4>6. \A a, b \in Int : a <= b /\ b <= a => a = b
          OBVIOUS
        <4> QED BY <4>2, <4>4, <4>5, <4>6
      <3>4. doc = {r \in Repos : r \in ToSet(q) \/ r > last}
        BY <3>1, <3>2, <3>3 DEF DocumentedScan
      <3> QED BY <1>1, <2>2, <3>4, RepoSets, ResumedIs
    <2> QED BY <2>1, <2>2
  <1> HIDE DEF q
  <1>3. Sorted(doc) \in Ascending /\ ToSet(Sorted(doc)) = doc
    <2>1. doc \in SUBSET Repos
      BY DEF DocumentedScan
    <2> QED BY <2>1, RepoSets, SortedIs
  <1>4. toScan = Sorted(doc)
    BY <1>1, <1>2, <1>3, SortedUnique
  <1> QED BY <1>1, <1>4 DEF q

----------------------------------------------------------------------------
(***************************************************************************)
(* A repository whose scan has begun and not ended is scanned again by a   *)
(* process that resumes from the progress as it is now, whatever listings  *)
(* the processes find and however many goroutines scan.                    *)
(***************************************************************************)
THEOREM BegunScansResume == Spec => []BegunIsResumed
  BY InitProcess, NextProcess, BegunResumed, PTL DEF Spec

(***************************************************************************)
(* With one listing, a process that resumes scans exactly what the comment *)
(* of FilterReposToResume says, in order, whatever resume info the earlier *)
(* processes left, however stale.                                          *)
(***************************************************************************)
THEOREM ResumesAsDocumented == SameListing => (Spec => []ResumedAsDocumented)
  <1> SUFFICES ASSUME SameListing PROVE Spec => []ResumedAsDocumented
    OBVIOUS
  <1>1. ProcessInv => ResumedAsDocumented
    BY AsDocumented
  <1> QED BY <1>1, InitProcess, NextProcess, PTL DEF Spec

(***************************************************************************)
(* With one listing, and unless a goroutine overtakes another, nothing is  *)
(* skipped for good: wherever processes stop or are cancelled and whenever *)
(* progress is saved, the next process scans all that no process finished. *)
(***************************************************************************)
THEOREM NoneSkipped == SameListing => (Spec => []NothingSkipped)
  <1> SUFFICES ASSUME SameListing PROVE Spec => []NothingSkipped
    OBVIOUS
  <1>1. NothingLost => NothingSkipped
    BY DEF NothingLost, NothingSkipped, SameListing, Repos
  <1>2. ProcessInv /\ NothingLost /\ [Next]_vars => NothingLost'
    BY NextNothingLost
  <1> QED BY <1>1, <1>2, InitProcess, NextProcess, InitNothingLost, PTL DEF Spec

(***************************************************************************)
(* Under the same conditions, a scan that completes without having been    *)
(* cancelled has finished the whole listing, in this process or before.    *)
(***************************************************************************)
THEOREM CompletedIsScanned == SameListing => (Spec => []CompletedMeansScanned)
  <1> SUFFICES ASSUME SameListing PROVE Spec => []CompletedMeansScanned
    OBVIOUS
  <1>1. ProcessInv /\ NothingLost => CompletedMeansScanned
    BY CompletedScanned
  <1>2. ProcessInv /\ NothingLost /\ [Next]_vars => NothingLost'
    BY NextNothingLost
  <1> QED BY <1>1, <1>2, InitProcess, NextProcess, InitNothingLost, PTL DEF Spec
=============================================================================
