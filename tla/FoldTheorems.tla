---------------------------- MODULE FoldTheorems ----------------------------
(***************************************************************************)
(* Facts about SumFunctionOnSet, the fold the models take their totals     *)
(* with.  A sum of natural numbers is the number of pairs <<x, n>> with    *)
(* n < f[x], so that whatever is known of finite sets carries over.  Then  *)
(* positions in sequences, and FoldLeft as the last of its own             *)
(* intermediate values.                                                    *)
(***************************************************************************)
EXTENDS Naturals, Sequences, FiniteSets, FiniteSetsExt, Functions, FiniteSetTheorems, SequenceTheorems, TLAPS

Below(f, S) == {p \in S \X Nat : p[2] < f[p[1]]}
NatOn(f, S) == \A x \in S : f[x] \in Nat

\* One summand contributes as many pairs as its value.
LEMMA BelowSplit ==
  ASSUME NEW S, NEW f, NatOn(f, S), NEW x \in S, IsFiniteSet(Below(f, S \ {x}))
  PROVE  /\ IsFiniteSet(Below(f, S))
         /\ Cardinality(Below(f, S)) = f[x] + Cardinality(Below(f, S \ {x}))
  <1> DEFINE Row == {x} \X (0 .. f[x] - 1)
             Rest == Below(f, S \ {x})
  <1>1. f[x] \in Nat
    BY DEF NatOn
  <1>2. IsFiniteSet(Row) /\ Cardinality(Row) = f[x]
    <2>1. IsFiniteSet(0 .. f[x] - 1) /\ Cardinality(0 .. f[x] - 1) = f[x]
      <3>1. f[x] - 1 \in Int /\ 0 \in Int
        BY <1>1
      <3>2. /\ IsFiniteSet(0 .. f[x] - 1)
            /\ Cardinality(0 .. f[x] - 1) = IF 0 > f[x] - 1 THEN 0 ELSE (f[x] - 1) - 0 + 1
        BY <3>1, FS_Interval
      <3>3. QED BY <1>1, <3>2
    <2>2. IsFiniteSet({x}) /\ Cardinality({x}) = 1
      BY FS_Singleton
    <2>3. /\ IsFiniteSet(Row)
          /\ Cardinality(Row) = Cardinality({x}) * Cardinality(0 .. f[x] - 1)
      BY <2>1, <2>2, FS_Product
    <2>4. QED BY <1>1, <2>1, <2>2, <2>3
  <1>3. Below(f, S) = Row \cup Rest
    <2>1. ASSUME NEW p \in Below(f, S) PROVE p \in Row \cup Rest
      BY <1>1, <2>1 DEF Below
    <2>2. ASSUME NEW p \in Row PROVE p \in Below(f, S)
      <3>1. p[1] = x /\ p[2] \in 0 .. f[x] - 1 /\ p = <<p[1], p[2]>>
        BY <2>2
      <3>2. p[2] \in Nat /\ p[2] < f[x]
        BY <1>1, <3>1
      <3>3. QED BY <3>1, <3>2 DEF Below
    <2>3. Rest \subseteq Below(f, S)
      BY DEF Below
    <2>4. QED BY <2>1, <2>2, <2>3
  <1>4. Row \cap Rest = {}
    BY DEF Below
  <1>5. Cardinality(Rest) \in Nat /\ Cardinality({}) = 0
    BY FS_CardinalityType, FS_EmptySet
  <1>6. /\ IsFiniteSet(Row \cup Rest)
        /\ Cardinality(Row \cup Rest)
             = Cardinality(Row) + Cardinality(Rest) - Cardinality(Row \cap Rest)
    BY <1>2, FS_Union
  <1>7. QED
    <2> HIDE DEF Row, Rest
    <2>1. Cardinality(Row \cup Rest) = f[x] + Cardinality(Rest) - 0
      BY <1>2, <1>4, <1>5, <1>6
    <2>2. Cardinality(Below(f, S)) = f[x] + Cardinality(Rest)
      BY <1>1, <1>3, <1>5, <2>1
    <2>3. QED BY <1>3, <1>6, <2>2 DEF Rest

\* A minimal set with a property, among the subsets of a finite set: the form
\* of induction over finite sets that needs no operator.
LEMMA MinimalSubset ==
  ASSUME NEW S, IsFiniteSet(S), NEW Bad \in SUBSET (SUBSET S), Bad # {}
  PROVE  \E T \in Bad : \A x \in T : T \ {x} \notin Bad
  <1> DEFINE R == StrictSubsetOrdering(S)
  <1>1. IsWellFoundedOn(R, SUBSET S)
    BY FS_StrictSubsetOrderingWellFounded, FS_FiniteSubsetsOfFinite
  <1>2. PICK T \in Bad : \A U \in Bad : ~(<<U, T>> \in R)
    <2> HIDE DEF R
    <2>1. Bad \subseteq SUBSET S
      OBVIOUS
    <2>2. \E T \in Bad : \A U \in Bad : ~(<<U, T>> \in R)
      BY <1>1, <2>1, WFMin, Zenon
    <2>3. QED BY <2>2
  <1>3. ASSUME NEW x \in T, T \ {x} \in Bad PROVE FALSE
    <2>1. <<T \ {x}, T>> \in (SUBSET S) \X (SUBSET S) /\ T \ {x} # T
      BY <1>3
    <2>2. <<T \ {x}, T>> \in StrictSubsetOrdering(S)
      BY <2>1 DEF StrictSubsetOrdering
    <2>3. QED BY <1>2, <1>3, <2>2
  <1>4. QED BY <1>2, <1>3

\* There are finitely many pairs below a natural function of a finite set.
LEMMA BelowFinite ==
  ASSUME NEW S, IsFiniteSet(S), NEW f, NatOn(f, S)
  PROVE  IsFiniteSet(Below(f, S))
  <1> DEFINE Bad == {T \in SUBSET S : ~IsFiniteSet(Below(f, T))}
  <1>1. SUFFICES ASSUME Bad # {} PROVE FALSE
    OBVIOUS
  <1>2. PICK T \in Bad : \A x \in T : T \ {x} \notin Bad
    BY <1>1, MinimalSubset
  <1>3. CASE T = {}
    <2>1. Below(f, {}) = {}
      BY DEF Below
    <2>2. QED BY <1>2, <1>3, <2>1, FS_EmptySet
  <1>4. ASSUME NEW x \in T PROVE FALSE
    <2>1. IsFiniteSet(Below(f, T \ {x})) /\ NatOn(f, T)
      BY <1>2, <1>4 DEF NatOn
    <2>2. QED BY <1>2, <2>1, BelowSplit
  <1>5. QED BY <1>3, <1>4

\* The fold is what the pairs count.
LEMMA SumIsBelow ==
  ASSUME NEW S, IsFiniteSet(S), NEW f, NatOn(f, S)
  PROVE  SumFunctionOnSet(f, S) = Cardinality(Below(f, S))
  <1> DEFINE Sum(g) == g = [s \in SUBSET S |->
                              IF s = {} THEN 0
                              ELSE f[CHOOSE x \in s : TRUE] + g[s \ {CHOOSE x \in s : TRUE}]]
             count == [s \in SUBSET S |-> Cardinality(Below(f, s))]
             iter == CHOOSE g : Sum(g)
             Bad == {s \in SUBSET S : iter[s] # count[s]}
  <1>1. SumFunctionOnSet(f, S) = iter[S]
    BY DEF SumFunctionOnSet, FoldFunctionOnSet, MapThenFoldSet
  <1>2. ASSUME NEW s \in SUBSET S, NEW x \in s
        PROVE  count[s] = f[x] + count[s \ {x}]
    <2>1. IsFiniteSet(s \ {x}) /\ NatOn(f, s) /\ NatOn(f, s \ {x})
      BY FS_Subset DEF NatOn
    <2>2. IsFiniteSet(Below(f, s \ {x}))
      BY <2>1, BelowFinite
    <2>3. Cardinality(Below(f, s)) = f[x] + Cardinality(Below(f, s \ {x}))
      BY <2>1, <2>2, BelowSplit
    <2>4. QED BY <2>3
  <1>3. count[{}] = 0
    <2>1. Below(f, {}) = {}
      BY DEF Below
    <2>2. QED BY <2>1, FS_EmptySet
  <1>4. Sum(count)
    <2>1. ASSUME NEW s \in SUBSET S, s # {}
          PROVE  count[s] = f[CHOOSE x \in s : TRUE] + count[s \ {CHOOSE x \in s : TRUE}]
      BY <1>2, <2>1
    <2>2. QED BY <1>3, <2>1
  <1>5. Sum(iter)
    BY <1>4
  <1>6. Bad = {}
    <2>1. SUFFICES ASSUME Bad # {} PROVE FALSE
      OBVIOUS
    <2>2. PICK T \in Bad : \A x \in T : T \ {x} \notin Bad
      BY <2>1, MinimalSubset
    <2>3. T # {}
      BY <1>3, <1>5, <2>2
    <2>4. PICK x \in T : x = CHOOSE y \in T : TRUE
      BY <2>3
    <2>5. iter[T] = f[x] + iter[T \ {x}]
      BY <1>5, <2>3, <2>4
    <2>6. iter[T \ {x}] = count[T \ {x}]
      BY <2>2
    <2>7. QED BY <1>2, <2>2, <2>5, <2>6
  <1>7. QED BY <1>1, <1>6

\* The sum of natural numbers over a finite set is a natural number.
THEOREM SumNat ==
  ASSUME NEW S, IsFiniteSet(S), NEW f, NatOn(f, S)
  PROVE  SumFunctionOnSet(f, S) \in Nat
  BY SumIsBelow, BelowFinite, FS_CardinalityType

\* Taking one element out of the set takes its value off the sum.
THEOREM SumRemove ==
  ASSUME NEW S, IsFiniteSet(S), NEW f, NatOn(f, S), NEW x \in S
  PROVE  SumFunctionOnSet(f, S) = f[x] + SumFunctionOnSet(f, S \ {x})
  <1>1. IsFiniteSet(S \ {x}) /\ NatOn(f, S \ {x})
    BY FS_RemoveElement DEF NatOn
  <1>2. QED BY <1>1, SumIsBelow, BelowFinite, BelowSplit

\* The sum depends only on the values at the elements of the set.
THEOREM SumSame ==
  ASSUME NEW S, IsFiniteSet(S), NEW f, NEW g, NatOn(f, S), \A x \in S : g[x] = f[x]
  PROVE  SumFunctionOnSet(g, S) = SumFunctionOnSet(f, S)
  <1>1. NatOn(g, S)
    BY DEF NatOn
  <1>2. Below(g, S) = Below(f, S)
    BY DEF Below
  <1>3. QED BY <1>1, <1>2, SumIsBelow

\* Smaller values, smaller sum.
THEOREM SumMonotone ==
  ASSUME NEW S, IsFiniteSet(S), NEW f, NEW g, NatOn(f, S), NatOn(g, S),
         \A x \in S : f[x] <= g[x]
  PROVE  SumFunctionOnSet(f, S) <= SumFunctionOnSet(g, S)
  <1>1. Below(f, S) \subseteq Below(g, S)
    <2>1. ASSUME NEW p \in Below(f, S) PROVE p \in Below(g, S)
      <3>1. p \in S \X Nat /\ p[1] \in S /\ p[2] \in Nat /\ p[2] < f[p[1]]
        BY DEF Below
      <3>2. p[2] < g[p[1]]
        BY <3>1 DEF NatOn
      <3>3. QED BY <3>1, <3>2 DEF Below
    <2>2. QED BY <2>1
  <1>2. QED BY <1>1, SumIsBelow, BelowFinite, FS_Subset

\* One summand grows by n.
THEOREM SumGrows ==
  ASSUME NEW S, IsFiniteSet(S), NEW f, NEW g, NatOn(f, S), NEW x \in S, NEW n \in Nat,
         g[x] = f[x] + n, \A y \in S \ {x} : g[y] = f[y]
  PROVE  SumFunctionOnSet(g, S) = SumFunctionOnSet(f, S) + n
  <1>1. f[x] \in Nat /\ NatOn(g, S) /\ NatOn(f, S \ {x}) /\ IsFiniteSet(S \ {x})
    BY FS_RemoveElement DEF NatOn
  <1>2. SumFunctionOnSet(g, S \ {x}) = SumFunctionOnSet(f, S \ {x})
    BY <1>1, SumSame
  <1>3. SumFunctionOnSet(f, S \ {x}) \in Nat
    BY <1>1, SumNat
  <1>4. QED BY <1>1, <1>2, <1>3, SumRemove

\* One summand changes.
THEOREM SumChanges ==
  ASSUME NEW S, IsFiniteSet(S), NEW f, NEW g, NatOn(f, S), NEW x \in S, g[x] \in Nat,
         \A y \in S \ {x} : g[y] = f[y]
  PROVE  /\ SumFunctionOnSet(f, S) \in Nat /\ SumFunctionOnSet(g, S) \in Nat
         /\ SumFunctionOnSet(g, S) + f[x] = SumFunctionOnSet(f, S) + g[x]
  <1>1. f[x] \in Nat /\ NatOn(g, S) /\ NatOn(f, S \ {x}) /\ IsFiniteSet(S \ {x})
    BY FS_RemoveElement DEF NatOn
  <1>2. SumFunctionOnSet(g, S \ {x}) = SumFunctionOnSet(f, S \ {x})
    BY <1>1, SumSame
  <1>3. SumFunctionOnSet(f, S \ {x}) \in Nat /\ SumFunctionOnSet(f, S) \in Nat /\ SumFunctionOnSet(g, S) \in Nat
    BY <1>1, SumNat
  <1>4. /\ SumFunctionOnSet(f, S) = f[x] + SumFunctionOnSet(f, S \ {x})
        /\ SumFunctionOnSet(g, S) = g[x] + SumFunctionOnSet(g, S \ {x})
    BY <1>1, SumRemove
  <1>5. QED BY <1>1, <1>2, <1>3, <1>4

\* A sum of zeros is zero.
THEOREM SumZero ==
  ASSUME NEW S, IsFiniteSet(S), NEW f, \A x \in S : f[x] = 0
  PROVE  SumFunctionOnSet(f, S) = 0
  <1>1. NatOn(f, S)
    BY DEF NatOn
  <1>2. Below(f, S) = {}
    BY DEF Below
  <1>3. QED BY <1>1, <1>2, SumIsBelow, FS_EmptySet
----------------------------------------------------------------------------
(* Counting the elements of a sequence that belong to a set.               *)

Positions(q, V) == {i \in DOMAIN q : q[i] \in V}

\* A sequence has finitely many positions.
THEOREM PositionsFinite ==
  ASSUME NEW D, NEW q \in Seq(D), NEW V
  PROVE  IsFiniteSet(Positions(q, V)) /\ Cardinality(Positions(q, V)) \in Nat
  <1>1. DOMAIN q = 1 .. Len(q) /\ Len(q) \in Nat
    OBVIOUS
  <1>2. IsFiniteSet(1 .. Len(q))
    BY <1>1, FS_Interval
  <1>3. Positions(q, V) \in SUBSET (1 .. Len(q))
    BY <1>1 DEF Positions
  <1>. QED BY <1>2, <1>3, FS_Subset, FS_CardinalityType

\* Appending an element of V adds one position of V, any other adds none.
THEOREM PositionsAppend ==
  ASSUME NEW D, NEW q \in Seq(D), NEW d \in D, NEW V
  PROVE  Cardinality(Positions(Append(q, d), V))
           = Cardinality(Positions(q, V)) + (IF d \in V THEN 1 ELSE 0)
  <1>1. /\ DOMAIN Append(q, d) = 1 .. Len(q) + 1 /\ DOMAIN q = 1 .. Len(q) /\ Len(q) \in Nat
        /\ \A i \in 1 .. Len(q) : Append(q, d)[i] = q[i]
        /\ Append(q, d)[Len(q) + 1] = d
    OBVIOUS
  <1>2. Len(q) + 1 \notin Positions(q, V)
    BY <1>1 DEF Positions
  <1>3. Positions(Append(q, d), V)
          = Positions(q, V) \cup (IF d \in V THEN {Len(q) + 1} ELSE {})
    BY <1>1 DEF Positions
  <1>4. IsFiniteSet(Positions(q, V)) /\ Cardinality(Positions(q, V)) \in Nat
    BY PositionsFinite
  <1>5. Cardinality(Positions(q, V) \cup {Len(q) + 1}) = Cardinality(Positions(q, V)) + 1
    BY <1>2, <1>4, FS_AddElement
  <1>. QED
    <2>1. CASE d \in V
      BY <1>3, <1>5, <2>1
    <2>2. CASE d \notin V
      <3>1. Positions(Append(q, d), V) = Positions(q, V)
        BY <1>3, <2>2
      <3>. QED BY <1>4, <2>2, <3>1
    <2>. QED BY <2>1, <2>2

\* Dropping the head takes one position away when the head is in V.
THEOREM PositionsTail ==
  ASSUME NEW D, NEW q \in Seq(D), q # <<>>, NEW V
  PROVE  Cardinality(Positions(q, V))
           = Cardinality(Positions(Tail(q), V)) + (IF Head(q) \in V THEN 1 ELSE 0)
  <1> DEFINE Rest == Positions(q, V) \ {1}
             shift == [i \in Positions(Tail(q), V) |-> i + 1]
  <1>1. /\ DOMAIN q = 1 .. Len(q) /\ Len(q) \in Nat \ {0} /\ Tail(q) \in Seq(D)
        /\ DOMAIN Tail(q) = 1 .. Len(q) - 1
        /\ \A i \in 1 .. Len(q) - 1 : Tail(q)[i] = q[i + 1]
        /\ Head(q) = q[1]
    OBVIOUS
  <1>2. shift \in Bijection(Positions(Tail(q), V), Rest)
    <2>1. ASSUME NEW i \in Positions(Tail(q), V) PROVE i + 1 \in Rest /\ i \in Nat
      BY <1>1 DEF Positions
    <2>2. ASSUME NEW k \in Rest PROVE k - 1 \in Positions(Tail(q), V) /\ (k - 1) + 1 = k
      <3>1. k \in 2 .. Len(q) /\ q[k] \in V
        BY <1>1 DEF Positions
      <3>2. k - 1 \in 1 .. Len(q) - 1 /\ (k - 1) + 1 = k
        BY <1>1, <3>1
      <3>. QED BY <1>1, <3>1, <3>2 DEF Positions
    <2>. QED BY <2>1, <2>2 DEF Bijection, Injection, Surjection, IsInjective
  <1>3. IsFiniteSet(Positions(q, V)) /\ IsFiniteSet(Positions(Tail(q), V))
    BY <1>1, PositionsFinite
  <1>4. Cardinality(Rest) = Cardinality(Positions(Tail(q), V))
    BY <1>2, <1>3, FS_Bijection DEF ExistsBijection
  <1>5. 1 \in Positions(q, V) <=> Head(q) \in V
    BY <1>1 DEF Positions
  <1>6. Cardinality(Positions(q, V)) \in Nat
    BY <1>1, PositionsFinite
  <1>7. Cardinality(Rest) = IF 1 \in Positions(q, V) THEN Cardinality(Positions(q, V)) - 1
                            ELSE Cardinality(Positions(q, V))
    BY <1>3, FS_RemoveElement
  <1>. QED
    <2> HIDE DEF Rest
    <2>. QED BY <1>4, <1>5, <1>6, <1>7

----------------------------------------------------------------------------
\* A set of numbers up to n has a greatest one.
LEMMA MaxOf ==
  ASSUME NEW n \in Nat, NEW s \in SUBSET (1..n), s # {}
  PROVE  Max(s) \in s /\ \A y \in s : y <= Max(s)
  <1> DEFINE Top(T) == \E x \in T : \A y \in T : x >= y
             Bad == {T \in SUBSET (1..n) : T # {} /\ ~Top(T)}
  <1>1. IsFiniteSet(1..n)
    BY FS_Interval
  <1>2. Bad = {}
    <2>1. SUFFICES ASSUME Bad # {} PROVE FALSE
      OBVIOUS
    <2>2. Bad \in SUBSET (SUBSET (1..n))
      OBVIOUS
    <2>3. PICK T \in Bad : \A x \in T : T \ {x} \notin Bad
      <3> HIDE DEF Bad
      <3> QED BY <1>1, <2>1, <2>2, MinimalSubset
    <2>4. PICK x \in T : TRUE
      BY <2>3
    <2>5. CASE T \ {x} = {}
      BY <2>3, <2>4, <2>5
    <2>6. CASE T \ {x} # {}
      <3>1. PICK m \in T \ {x} : \A y \in T \ {x} : m >= y
        BY <2>3, <2>4, <2>6
      <3>2. m \in Int /\ x \in Int /\ \A y \in T : y \in Int
        BY <2>3, <2>4, <3>1
      <3>3. CASE m >= x
        <4>1. \A y \in T : m >= y
          BY <3>1, <3>3
        <4> QED BY <2>3, <3>1, <4>1
      <3>4. CASE x >= m
        <4>1. \A y \in T : x >= y
          BY <3>1, <3>2, <3>4
        <4> QED BY <2>3, <2>4, <4>1
      <3> QED BY <3>2, <3>3, <3>4
    <2> QED BY <2>5, <2>6
  <1>3. PICK x \in s : \A y \in s : x >= y
    BY <1>2
  <1>4. Max(s) \in s /\ \A y \in s : Max(s) >= y
    BY <1>3 DEF Max
  <1> QED BY <1>4

\* A greater number has nothing to say about the rest of the set.
LEMMA MaxIs ==
  ASSUME NEW n \in Nat, NEW s \in SUBSET (1..n), NEW x \in s, \A y \in s : y <= x
  PROVE  Max(s) = x
  <1>1. Max(s) \in s /\ x <= Max(s)
    BY MaxOf
  <1>2. Max(s) <= x
    BY <1>1
  <1>3. Max(s) \in Int /\ x \in Int
    <2>1. \A y \in s : y \in Int
      OBVIOUS
    <2> QED BY <1>1, <2>1
  <1>4. \A a, b \in Int : a <= b /\ b <= a => a = b
    OBVIOUS
  <1> QED BY <1>1, <1>2, <1>3, <1>4

\* ... and a least one.
LEMMA MinOf ==
  ASSUME NEW n \in Nat, NEW s \in SUBSET (1..n), s # {}
  PROVE  Min(s) \in s /\ \A y \in s : Min(s) <= y
  <1> DEFINE m == [x \in s |-> n + 1 - x]
             t == {m[x] : x \in s}
  <1>1. \A x \in s : x \in Int /\ m[x] = n + 1 - x /\ m[x] \in 1..n
    OBVIOUS
  <1>2. t \in SUBSET (1..n) /\ t # {}
    BY <1>1
  <1>3. Max(t) \in t /\ \A y \in t : y <= Max(t)
    <2> HIDE DEF t
    <2> QED BY <1>2, MaxOf
  <1>4. PICK x \in s : Max(t) = m[x]
    BY <1>3
  <1>5. \A y \in s : x <= y
    <2>1. ASSUME NEW y \in s PROVE x <= y
      <3>1. m[y] <= m[x]
        BY <1>3, <1>4
      <3>2. m[y] = n + 1 - y /\ m[x] = n + 1 - x /\ x \in Int /\ y \in Int
        BY <1>1
      <3> HIDE DEF m
      <3> QED BY <3>1, <3>2
    <2> QED BY <2>1
  <1> QED BY <1>5 DEF Min

(***************************************************************************)
(* FoldLeft goes through the subsets of the positions: what it makes of    *)
(* one is made of the greatest position in it and what it makes of the     *)
(* rest.  g is such a function, for the step F.                            *)
(***************************************************************************)
Folds(g, F, base, q, S) ==
  g = [s \in SUBSET S |-> IF s = {} THEN base ELSE F[<<g[s \ {Max(s)}], q[Max(s)]>>]]

\* There is such a function, for any finite number of positions.
LEMMA FoldExists ==
  ASSUME NEW A, NEW D, NEW F \in [A \X D -> A], NEW base \in A, NEW n \in Nat, NEW q \in [1..n -> D]
  PROVE  \E g \in [SUBSET (1..n) -> A] : Folds(g, F, base, q, 1..n)
  <1> DEFINE Has(T) == \E g \in [SUBSET T -> A] : Folds(g, F, base, q, T)
             Bad == {T \in SUBSET (1..n) : ~Has(T)}
  <1>1. IsFiniteSet(1..n)
    BY FS_Interval
  <1>2. Bad = {}
    <2>1. SUFFICES ASSUME Bad # {} PROVE FALSE
      OBVIOUS
    <2>2. Bad \in SUBSET (SUBSET (1..n))
      OBVIOUS
    <2>3. PICK T \in Bad : \A x \in T : T \ {x} \notin Bad
      <3> HIDE DEF Bad
      <3> QED BY <1>1, <2>1, <2>2, MinimalSubset
    <2>4. CASE T = {}
      <3> DEFINE g == [s \in SUBSET {} |-> base]
      <3>1. g \in [SUBSET {} -> A]
        OBVIOUS
      <3>2. Folds(g, F, base, q, {})
        BY DEF Folds
      <3> QED BY <2>3, <2>4, <3>1, <3>2
    <2>5. CASE T # {}
      <3> DEFINE x == Max(T)
      <3>1. T \in SUBSET (1..n) /\ x \in T /\ \A y \in T : y <= x
        BY <2>3, <2>5, MaxOf
      <3>2. PICK g \in [SUBSET (T \ {x}) -> A] : Folds(g, F, base, q, T \ {x})
        BY <2>3, <3>1
      <3> DEFINE h == [s \in SUBSET T |-> IF x \in s THEN F[<<g[s \ {x}], q[x]>>] ELSE g[s]]
      <3>3. ASSUME NEW s \in SUBSET T, x \in s
            PROVE  Max(s) = x /\ h[s] = F[<<h[s \ {Max(s)}], q[Max(s)]>>] /\ h[s] \in A
        <4>1. Max(s) = x
          BY <3>1, <3>3, MaxIs
        <4>2. s \ {x} \in SUBSET (T \ {x}) /\ h[s \ {x}] = g[s \ {x}] /\ g[s \ {x}] \in A
          BY <3>2
        <4>3. q[x] \in D
          BY <3>1
        <4>4. h[s] = F[<<g[s \ {x}], q[x]>>]
          BY <3>3
        <4> HIDE DEF h, x
        <4>5. F[<<g[s \ {x}], q[x]>>] \in A
          BY <4>2, <4>3
        <4> QED BY <4>1, <4>2, <4>4, <4>5
      <3>4. ASSUME NEW s \in SUBSET T, x \notin s, s # {}
            PROVE  h[s] = F[<<h[s \ {Max(s)}], q[Max(s)]>>] /\ h[s] \in A
        <4>1. s \in SUBSET (T \ {x}) /\ s \ {Max(s)} \in SUBSET (T \ {x})
          BY <3>4
        <4>2. h[s] = g[s] /\ h[s \ {Max(s)}] = g[s \ {Max(s)}] /\ g[s] \in A
          BY <3>2, <3>4, <4>1
        <4>3. g[s] = F[<<g[s \ {Max(s)}], q[Max(s)]>>]
          BY <3>2, <3>4, <4>1 DEF Folds
        <4> QED BY <4>2, <4>3
      <3>5. h[{}] = base
        <4>1. g[{}] = base
          BY <3>2 DEF Folds
        <4> QED BY <4>1
      <3>6. h = [s \in SUBSET T |-> h[s]]
        OBVIOUS
      <3> HIDE DEF h, x
      <3>7. \A s \in SUBSET T : h[s] \in A
        BY <3>3, <3>4, <3>5
      <3>8. h \in [SUBSET T -> A]
        BY <3>6, <3>7
      <3>9. \A s \in SUBSET T : h[s] = IF s = {} THEN base ELSE F[<<h[s \ {Max(s)}], q[Max(s)]>>]
        BY <3>3, <3>4, <3>5
      <3>10. Folds(h, F, base, q, T)
        BY <3>6, <3>9 DEF Folds
      <3> QED BY <2>3, <3>8, <3>10
    <2> QED BY <2>4, <2>5
  <1>3. 1..n \notin Bad
    BY <1>2
  <1> QED BY <1>3

\* Induction the way FoldLeft goes, for the set G of the subsets reached.
LEMMA FoldReaches ==
  ASSUME NEW n \in Nat, NEW G, {} \in G,
         \A s \in SUBSET (1..n) : s # {} /\ s \ {Max(s)} \in G => s \in G
  PROVE  \A s \in SUBSET (1..n) : s \in G
  <1> DEFINE Bad == {s \in SUBSET (1..n) : s \notin G}
  <1>1. IsFiniteSet(1..n)
    BY FS_Interval
  <1>2. SUFFICES ASSUME Bad # {} PROVE FALSE
    OBVIOUS
  <1>3. Bad \in SUBSET (SUBSET (1..n))
    OBVIOUS
  <1>4. PICK T \in Bad : \A x \in T : T \ {x} \notin Bad
    <2> HIDE DEF Bad
    <2> QED BY <1>1, <1>2, <1>3, MinimalSubset
  <1>5. T # {} /\ T \in SUBSET (1..n)
    BY <1>4
  <1>6. Max(T) \in T
    BY <1>5, MaxOf
  <1>7. T \ {Max(T)} \in G
    BY <1>4, <1>5, <1>6
  <1> QED BY <1>4, <1>5, <1>7

\* The function on the first positions only.
LEMMA FoldPrefix ==
  ASSUME NEW n \in Nat, NEW i \in 1..n
  PROVE  1..i # {} /\ 1..i \in SUBSET (1..n) /\ Max(1..i) = i /\ (1..i) \ {Max(1..i)} = 1..(i - 1)
  <1>1. 1..i \in SUBSET (1..n) /\ i \in 1..i /\ \A y \in 1..i : y <= i
    OBVIOUS
  <1>2. Max(1..i) = i
    BY <1>1, MaxIs
  <1>3. (1..i) \ {i} = 1..(i - 1)
    OBVIOUS
  <1> QED BY <1>1, <1>2, <1>3

\* Induction along the positions of a sequence, for the set G of those reached.
LEMMA UpTo ==
  ASSUME NEW n \in Nat, NEW G, 0 \in G, \A i \in 1..n : i - 1 \in G => i \in G
  PROVE  \A i \in 0..n : i \in G
  <1> DEFINE Bad == {s \in SUBSET (1..n) : \E i \in 1..n : s = 1..i /\ i \notin G}
  <1>1. IsFiniteSet(1..n)
    BY FS_Interval
  <1>2. SUFFICES ASSUME NEW j \in 0..n, j \notin G PROVE FALSE
    OBVIOUS
  <1>3. Bad \in SUBSET (SUBSET (1..n)) /\ 1..j \in Bad
    BY <1>2
  <1>4. PICK T \in Bad : \A x \in T : T \ {x} \notin Bad
    <2> HIDE DEF Bad
    <2> QED BY <1>1, <1>3, MinimalSubset
  <1>5. PICK i \in 1..n : T = 1..i /\ i \notin G
    BY <1>4
  <1>6. (1..i) \ {i} = 1..(i - 1) /\ i \in T
    BY <1>5
  <1>7. i - 1 \notin G /\ i - 1 \in 1..n
    BY <1>5
  <1>8. 1..(i - 1) \in Bad
    BY <1>7
  <1> QED BY <1>4, <1>5, <1>6, <1>8

(***************************************************************************)
(* What a fold makes of the first i elements, for every i, is g on the     *)
(* intervals.                                                              *)
(***************************************************************************)
Traces(g, F, base, q) ==
  /\ g[{}] = base
  /\ \A s \in SUBSET (1..Len(q)) : s # {} =>
       /\ s \ {Max(s)} \in SUBSET (1..Len(q)) /\ Max(s) \in DOMAIN q
       /\ g[s] = F[<<g[s \ {Max(s)}], q[Max(s)]>>]
  /\ g[1..0] = base
  /\ \A i \in 1..Len(q) : g[1..i] = F[<<g[1..(i - 1)], q[i]>>]

LEMMA FoldSteps ==
  ASSUME NEW A, NEW D, NEW F \in [A \X D -> A], NEW base \in A, NEW q \in Seq(D)
  PROVE  \E g \in [SUBSET (1..Len(q)) -> A] : Traces(g, F, base, q)
  <1> DEFINE n == Len(q)
  <1>1. n \in Nat /\ q \in [1..n -> D]
    OBVIOUS
  <1> HIDE DEF n
  <1>2. PICK g \in [SUBSET (1..n) -> A] : Folds(g, F, base, q, 1..n)
    BY <1>1, FoldExists
  <1>3. g[{}] = base
    BY <1>2 DEF Folds
  <1>4. ASSUME NEW s \in SUBSET (1..n), s # {}
        PROVE  /\ s \ {Max(s)} \in SUBSET (1..n) /\ Max(s) \in DOMAIN q
               /\ g[s] = F[<<g[s \ {Max(s)}], q[Max(s)]>>]
    <2>1. Max(s) \in 1..n /\ s \ {Max(s)} \in SUBSET (1..n)
      BY <1>1, <1>4, MaxOf
    <2>2. g[s] = F[<<g[s \ {Max(s)}], q[Max(s)]>>]
      BY <1>2, <1>4 DEF Folds
    <2> QED BY <1>1, <2>1, <2>2
  <1>5. g[1..0] = base
    <2>1. 1..0 = {}
      OBVIOUS
    <2> QED BY <1>3, <2>1
  <1>6. ASSUME NEW i \in 1..n PROVE g[1..i] = F[<<g[1..(i - 1)], q[i]>>]
    <2>1. 1..i # {} /\ 1..i \in SUBSET (1..n) /\ Max(1..i) = i /\ (1..i) \ {Max(1..i)} = 1..(i - 1)
      BY <1>1, FoldPrefix
    <2>2. g[1..i] = F[<<g[(1..i) \ {Max(1..i)}], q[Max(1..i)]>>]
      BY <1>4, <2>1
    <2> QED BY <2>1, <2>2
  <1> QED BY <1>2, <1>3, <1>4, <1>5, <1>6 DEF Traces, n

\* Whatever is made step by step as g is, is g.
LEMMA FoldSame ==
  ASSUME NEW n \in Nat, NEW g, NEW made, made[{}] = g[{}],
         \A s \in SUBSET (1..n) : s # {} /\ made[s \ {Max(s)}] = g[s \ {Max(s)}] => made[s] = g[s]
  PROVE  made[1..n] = g[1..n]
  <1> DEFINE G == {s \in SUBSET (1..n) : made[s] = g[s]}
  <1>1. {} \in G
    OBVIOUS
  <1>2. \A s \in SUBSET (1..n) : s # {} /\ s \ {Max(s)} \in G => s \in G
    OBVIOUS
  <1>3. 1..n \in SUBSET (1..n) /\ (1..n \in G => made[1..n] = g[1..n])
    OBVIOUS
  <1> HIDE DEF G
  <1> QED BY <1>1, <1>2, <1>3, FoldReaches

\* One element more is one step more.
Longer(r, q, d) == r = Append(q, d)
Folded(g, q) == g[1..Len(q)]
Applied(F, a, d) == F[<<a, d>>]

LEMMA FoldAppend ==
  ASSUME NEW D, NEW q \in Seq(D), NEW d \in D, NEW r, Longer(r, q, d),
         NEW F, NEW base, NEW g, NEW h, Traces(g, F, base, q), Traces(h, F, base, r)
  PROVE  Folded(h, r) = Applied(F, Folded(g, q), d)
  <1> DEFINE n == Len(q)
             G == {i \in 0..n : h[1..i] = g[1..i]}
  <1>1. n \in Nat /\ Len(r) = n + 1 /\ r[n + 1] = d /\ \A i \in 1..n : r[i] = q[i]
    BY AppendProperties DEF Longer
  <1> HIDE DEF n
  <1>2. 0 \in G
    <2>1. 0 \in 0..n
      BY <1>1
    <2> QED BY <2>1 DEF Traces
  <1>3. ASSUME NEW i \in 1..n, i - 1 \in G PROVE i \in G
    <2>1. i \in 1..Len(r) /\ r[i] = q[i] /\ i \in 0..n
      BY <1>1
    <2>2. h[1..i] = F[<<h[1..(i - 1)], r[i]>>] /\ g[1..i] = F[<<g[1..(i - 1)], q[i]>>]
      BY <2>1 DEF Traces, n
    <2> QED BY <1>3, <2>1, <2>2
  <1>4. h[1..n] = g[1..n]
    <2>1. n \in 0..n
      BY <1>1
    <2> HIDE DEF G
    <2>2. \A i \in 0..n : i \in G
      BY <1>1, <1>2, <1>3, UpTo
    <2> QED BY <2>1, <2>2 DEF G
  <1>5. n + 1 \in 1..Len(r) /\ (n + 1) - 1 = n
    BY <1>1
  <1>6. h[1..(n + 1)] = F[<<h[1..((n + 1) - 1)], r[n + 1]>>]
    BY <1>5 DEF Traces
  <1> QED BY <1>1, <1>4, <1>5, <1>6 DEF n, Folded, Applied

============================================================================
