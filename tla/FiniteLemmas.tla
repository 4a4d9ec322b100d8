------------------------------ MODULE FiniteLemmas ------------------------------
(***************************************************************************)
(* Finite sets of numbers have a greatest and a least element, recursion   *)
(* over 1..n a solution, and a sum over a finite set does not depend on    *)
(* the order.  The models choose positions, define functions and add up    *)
(* with these; the proofs have to know that they may.                      *)
(***************************************************************************)
EXTENDS Integers, FiniteSetsExt, FiniteSetTheorems, TLAPS

\* A finite set of numbers has a greatest element: one with the fewest above it.
LEMMA GreatestExists ==
    ASSUME NEW S \in SUBSET Nat, IsFiniteSet(S), S # {}
    PROVE  \E f \in S : \A g \in S : g <= f
<1> DEFINE above(f) == {g \in S : g > f}
           T == {above(f) : f \in S}
<1>1. FiniteSubsetsOf(S) = SUBSET S
  BY FS_FiniteSubsetsOfFinite
<1>2. T \subseteq FiniteSubsetsOf(S) /\ T # {} /\ \A f \in S : above(f) \in T
  <2>1. \A f \in S : above(f) \in SUBSET S
    OBVIOUS
  <2> HIDE DEF above
  <2> QED BY <1>1, <2>1
<1> HIDE DEF T
<1>3. PICK U \in T : \A V \in T : ~ (<<V, U>> \in StrictSubsetOrdering(S))
  <2>1. IsWellFoundedOn(StrictSubsetOrdering(S), FiniteSubsetsOf(S))
    BY FS_StrictSubsetOrderingWellFounded
  <2> QED BY <1>2, <2>1, WFMin
<1>4. PICK f \in S : U = above(f)
  BY DEF T
<1>5. ASSUME NEW g \in S, g > f PROVE FALSE
  <2>1. g \in above(f) /\ g \notin above(g) /\ \A h \in S : h > g => h > f
    <3>1. f \in Nat /\ g \in Nat /\ \A h \in S : h \in Nat
      OBVIOUS
    <3> QED BY <1>5, <3>1
  <2>2. above(g) \in SUBSET S /\ above(f) \in SUBSET S /\ above(g) \in T /\ above(g) \subseteq above(f)
    BY <1>1, <1>2, <1>5, <2>1
  <2> HIDE DEF above
  <2>3. <<above(g), above(f)>> \in StrictSubsetOrdering(S)
    BY <2>1, <2>2 DEF StrictSubsetOrdering
  <2> QED BY <2>2, <2>3, <1>3, <1>4
<1> QED BY <1>5

\* It has a least element as well.
LEMMA LeastExists ==
    ASSUME NEW S \in SUBSET Nat, IsFiniteSet(S), S # {}
    PROVE  \E f \in S : \A g \in S : g >= f
<1> DEFINE below(f) == {g \in S : g < f}
           T == {below(f) : f \in S}
<1>1. FiniteSubsetsOf(S) = SUBSET S
  BY FS_FiniteSubsetsOfFinite
<1>2. T \subseteq FiniteSubsetsOf(S) /\ T # {} /\ \A f \in S : below(f) \in T
  <2>1. \A f \in S : below(f) \in SUBSET S
    OBVIOUS
  <2> HIDE DEF below
  <2> QED BY <1>1, <2>1
<1> HIDE DEF T
<1>3. PICK U \in T : \A V \in T : ~ (<<V, U>> \in StrictSubsetOrdering(S))
  <2>1. IsWellFoundedOn(StrictSubsetOrdering(S), FiniteSubsetsOf(S))
    BY FS_StrictSubsetOrderingWellFounded
  <2> QED BY <1>2, <2>1, WFMin
<1>4. PICK f \in S : U = below(f)
  BY DEF T
<1>5. ASSUME NEW g \in S, g < f PROVE FALSE
  <2>1. g \in below(f) /\ g \notin below(g) /\ \A h \in S : h < g => h < f
    <3>1. f \in Nat /\ g \in Nat /\ \A h \in S : h \in Nat
      OBVIOUS
    <3> QED BY <1>5, <3>1
  <2>2. below(g) \in SUBSET S /\ below(f) \in SUBSET S /\ below(g) \in T /\ below(g) \subseteq below(f)
    BY <1>1, <1>2, <1>5, <2>1
  <2> HIDE DEF below
  <2>3. <<below(g), below(f)>> \in StrictSubsetOrdering(S)
    BY <2>1, <2>2 DEF StrictSubsetOrdering
  <2> QED BY <2>2, <2>3, <1>3, <1>4
<1> QED BY <1>5

\* f is defined by recursion over 1..n from a.
IsRecursive(f, n, a, step) == f[0] = a /\ \A k \in 1..n : f[k] = step[k][f[k-1]]

\* A definition by recursion has a solution.
LEMMA RecursionExists ==
    ASSUME NEW n \in Nat, NEW A, NEW a \in A, NEW step \in [1..n -> [A -> A]]
    PROVE  \E f \in [0..n -> A] : IsRecursive(f, n, a, step)
<1> DEFINE Solved(m) ==
             \E f \in [0..m -> A] : f[0] = a /\ \A k \in 1..m : f[k] = step[k][f[k-1]]
           open == {m \in 0..n : ~Solved(m)}
<1>1. open \in SUBSET Nat /\ IsFiniteSet(open)
  <2>1. IsFiniteSet(0..n)
    BY FS_Interval
  <2>2. open \in SUBSET (0..n) /\ 0..n \in SUBSET Nat
    <3> HIDE DEF Solved
    <3> QED OBVIOUS
  <2> HIDE DEF open
  <2> QED BY <2>1, <2>2, FS_Subset
<1>2. Solved(0)
  <2>1. [k \in 0..0 |-> a] \in [0..0 -> A] /\ [k \in 0..0 |-> a][0] = a /\ 1..0 = {}
    OBVIOUS
  <2> QED BY <2>1
<1>3. ASSUME NEW m \in 1..n, Solved(m - 1) PROVE Solved(m)
  <2>1. m \in Nat /\ m - 1 \in 0..(m - 1) /\ 0 \in 0..(m - 1) /\ m \in 0..m /\ m # 0
    OBVIOUS
  <2>2. PICK f \in [0..(m - 1) -> A] :
            f[0] = a /\ \A k \in 1..(m - 1) : f[k] = step[k][f[k-1]]
    BY <1>3
  <2>3. PICK x \in A : x = step[m][f[m-1]]
    BY <2>1
  <2> DEFINE h == [k \in 0..m |-> IF k = m THEN x ELSE f[k]]
  <2>4. /\ h \in [0..m -> A] /\ h[m] = x
        /\ \A k \in 0..(m - 1) : h[k] = f[k]
    BY <2>1
  <2> HIDE DEF h, Solved
  <2>5. ASSUME NEW k \in 1..m PROVE h[k] = step[k][h[k-1]]
    <3>1. CASE k = m
      BY <2>1, <2>3, <2>4, <3>1
    <3>2. CASE k # m
      <4>1. k \in 1..(m - 1) /\ k \in 0..(m - 1) /\ k - 1 \in 0..(m - 1)
        BY <2>1, <3>2
      <4> QED BY <2>2, <2>4, <4>1
    <3> QED BY <3>1, <3>2
  <2>6. h[0] = a
    BY <2>1, <2>2, <2>4
  <2> QED BY <2>4, <2>5, <2>6 DEF Solved
<1> HIDE DEF Solved
<1>4. ASSUME open # {} PROVE FALSE
  <2>1. PICK m \in open : \A g \in open : g >= m
    <3> HIDE DEF open
    <3> QED BY <1>1, <1>4, LeastExists
  <2>2. m \in 1..n /\ m - 1 \in 0..n /\ ~(m - 1 >= m)
    BY <1>2, <2>1
  <2>3. Solved(m - 1)
    BY <2>1, <2>2
  <2> QED BY <1>3, <2>1, <2>2, <2>3
<1>5. Solved(n)
  <2>1. n \in 0..n
    OBVIOUS
  <2> QED BY <1>4, <2>1
<1> QED BY <1>5 DEF Solved, IsRecursive

\* Numbers up to n with which every smaller one is counted are the first ones.
LEMMA PrefixIsInterval ==
    ASSUME NEW n \in Nat, NEW S \in SUBSET (1..n), \A k \in S : \A j \in 1..n : j < k => j \in S
    PROVE  Cardinality(S) \in 0..n /\ S = 1..Cardinality(S)
<1>1. CASE S = {}
  <2>1. Cardinality(S) = 0 /\ 1..0 = {}
    BY <1>1, FS_EmptySet
  <2> QED BY <1>1, <2>1
<1>2. CASE S # {}
  <2>1. S \in SUBSET Nat /\ IsFiniteSet(S)
    <3>1. IsFiniteSet(1..n)
      BY FS_Interval
    <3>2. 1..n \in SUBSET Nat
      OBVIOUS
    <3> QED BY <3>1, <3>2, FS_Subset
  <2>2. PICK m \in S : \A g \in S : g <= m
    BY <1>2, <2>1, GreatestExists
  <2>3. m \in 1..n /\ m \in Nat
    OBVIOUS
  <2>5. S = 1..m
    <3>1. ASSUME NEW g \in S PROVE g \in 1..m
      <4>1. g \in 1..n /\ g <= m
        BY <2>2
      <4> QED BY <2>3, <4>1
    <3>2. ASSUME NEW g \in 1..m PROVE g \in S
      <4>1. g \in 1..n /\ (g < m \/ g = m)
        BY <2>3, <3>2
      <4> QED BY <4>1
    <3> QED BY <3>1, <3>2
  <2>4. Cardinality(1..m) = m
    BY <2>3, FS_Interval
  <2> QED BY <2>3, <2>4, <2>5
<1> QED BY <1>1, <1>2

----------------------------------------------------------------------------
\* Sums.

\* The sum of the values of f over S.
Total(f, S) == MapThenSumSet(LAMBDA x : f[x], S)

Pick(s) == CHOOSE x \in s : TRUE

\* g sums f over the subsets of S.
Sums(g, f, S) ==
    \A s \in SUBSET S : g[s] = IF s = {} THEN 0 ELSE f[Pick(s)] + g[s \ {Pick(s)}]

\* A finite set has fewer elements without one of them.
LEMMA SmallerWithout ==
    ASSUME NEW s, IsFiniteSet(s), NEW x \in s
    PROVE  /\ IsFiniteSet(s \ {x}) /\ Cardinality(s) \in Nat /\ Cardinality(s \ {x}) \in Nat
           /\ Cardinality(s \ {x}) = Cardinality(s) - 1 /\ Cardinality(s) > 0
<1>1. IsFiniteSet(s \ {x}) /\ Cardinality(s \ {x}) = Cardinality(s) - 1
  BY FS_RemoveElement
<1>2. Cardinality(s) \in Nat /\ Cardinality(s \ {x}) \in Nat
  BY <1>1, FS_CardinalityType
<1> QED BY <1>1, <1>2

\* Sums are defined by recursion over the subsets of a finite set.
LEMMA SumsExist ==
    ASSUME NEW S, IsFiniteSet(S), NEW f, \A x \in S : f[x] \in Int
    PROVE  \E g \in [SUBSET S -> Int] : Sums(g, f, S)
<1> DEFINE upTo(m) == {s \in SUBSET S : Cardinality(s) <= m}
           Solved(m) == \E g \in [upTo(m) -> Int] :
               \A s \in upTo(m) : g[s] = IF s = {} THEN 0 ELSE f[Pick(s)] + g[s \ {Pick(s)}]
           open == {m \in 0..Cardinality(S) : ~Solved(m)}
<1>1. Cardinality(S) \in Nat
  BY FS_CardinalityType
<1>2. \A s \in SUBSET S : /\ IsFiniteSet(s) /\ Cardinality(s) \in 0..Cardinality(S)
                          /\ Cardinality(s) = 0 <=> s = {}
  <2>1. ASSUME NEW s \in SUBSET S
        PROVE  /\ IsFiniteSet(s) /\ Cardinality(s) \in 0..Cardinality(S)
               /\ Cardinality(s) = 0 <=> s = {}
    <3>1. IsFiniteSet(s) /\ Cardinality(s) <= Cardinality(S)
      BY FS_Subset
    <3>2. Cardinality(s) \in Nat /\ (Cardinality(s) = 0 <=> s = {})
      BY <3>1, FS_CardinalityType, FS_EmptySet
    <3> QED BY <1>1, <3>1, <3>2
  <2> QED BY <2>1
<1>3. \A s \in SUBSET S : s # {} =>
          /\ Pick(s) \in s /\ s \ {Pick(s)} \in SUBSET S
          /\ Cardinality(s \ {Pick(s)}) = Cardinality(s) - 1
  <2>1. ASSUME NEW s \in SUBSET S, s # {}
        PROVE  /\ Pick(s) \in s /\ s \ {Pick(s)} \in SUBSET S
               /\ Cardinality(s \ {Pick(s)}) = Cardinality(s) - 1
    <3>1. Pick(s) \in s
      BY <2>1 DEF Pick
    <3> QED BY <1>2, <3>1, SmallerWithout
  <2> QED BY <2>1
<1>4. Solved(0)
  <2>1. upTo(0) = {{}}
    <3>1. \A s \in SUBSET S : Cardinality(s) <= 0 <=> s = {}
      BY <1>2
    <3> QED BY <3>1
  <2> DEFINE g == [s \in upTo(0) |-> 0]
  <2>2. g \in [upTo(0) -> Int] /\ \A s \in upTo(0) : s = {} /\ g[s] = 0
    BY <2>1
  <2> HIDE DEF g, upTo
  <2> QED BY <2>2
<1>5. ASSUME NEW m \in Nat, Solved(m) PROVE Solved(m + 1)
  <2>1. PICK g \in [upTo(m) -> Int] :
            \A s \in upTo(m) : g[s] = IF s = {} THEN 0 ELSE f[Pick(s)] + g[s \ {Pick(s)}]
    BY <1>5
  <2> DEFINE h == [s \in upTo(m + 1) |-> IF s \in upTo(m) THEN g[s]
                                         ELSE f[Pick(s)] + g[s \ {Pick(s)}]]
  <2>2. \A s \in upTo(m + 1) : s # {} => s \ {Pick(s)} \in upTo(m) /\ f[Pick(s)] \in Int
    <3>1. ASSUME NEW s \in upTo(m + 1), s # {}
          PROVE  s \ {Pick(s)} \in upTo(m) /\ f[Pick(s)] \in Int
      <4>1. Pick(s) \in s /\ s \ {Pick(s)} \in SUBSET S /\ Cardinality(s \ {Pick(s)}) = Cardinality(s) - 1
        BY <1>3, <3>1
      <4>2. Cardinality(s) \in Nat /\ Cardinality(s) <= m + 1
        BY <1>1, <1>2
      <4> QED BY <4>1, <4>2
    <3> QED BY <3>1
  <2>3. {} \in upTo(m) /\ upTo(m) \subseteq upTo(m + 1)
    <3>1. \A s \in SUBSET S : Cardinality(s) \in Nat
      BY <1>1, <1>2
    <3>2. Cardinality({}) = 0
      BY FS_EmptySet
    <3> QED BY <3>1, <3>2
  <2> HIDE DEF upTo
  <2>4. h \in [upTo(m + 1) -> Int]
    <3>1. ASSUME NEW s \in upTo(m + 1)
          PROVE  (IF s \in upTo(m) THEN g[s] ELSE f[Pick(s)] + g[s \ {Pick(s)}]) \in Int
      <4>1. CASE s \in upTo(m)
        BY <2>1, <4>1
      <4>2. CASE s \notin upTo(m)
        <5>1. s # {} /\ g[s \ {Pick(s)}] \in Int /\ f[Pick(s)] \in Int
          BY <2>1, <2>2, <2>3, <4>2
        <5> QED BY <4>2, <5>1
      <4> QED BY <4>1, <4>2
    <3> QED BY <3>1
  <2>5. ASSUME NEW s \in upTo(m + 1)
        PROVE  h[s] = IF s = {} THEN 0 ELSE f[Pick(s)] + h[s \ {Pick(s)}]
    <3>1. CASE s = {}
      BY <2>1, <2>3, <3>1
    <3>2. CASE s # {}
      <4>1. s \ {Pick(s)} \in upTo(m) /\ h[s \ {Pick(s)}] = g[s \ {Pick(s)}]
        BY <2>2, <2>3, <3>2
      <4>2. h[s] = f[Pick(s)] + g[s \ {Pick(s)}]
        BY <2>1, <3>2
      <4> QED BY <3>2, <4>1, <4>2
    <3> QED BY <3>1, <3>2
  <2> HIDE DEF h
  <2> QED BY <2>4, <2>5
<1>6. ASSUME open # {} PROVE FALSE
  <2> HIDE DEF Solved
  <2>1. open \in SUBSET Nat /\ IsFiniteSet(open)
    <3>1. IsFiniteSet(0..Cardinality(S))
      BY <1>1, FS_Interval
    <3>2. open \in SUBSET (0..Cardinality(S))
      OBVIOUS
    <3>3. 0..Cardinality(S) \in SUBSET Nat
      BY <1>1
    <3> HIDE DEF open
    <3> QED BY <3>1, <3>2, <3>3, FS_Subset
  <2>2. PICK m \in open : \A k \in open : k >= m
    <3> HIDE DEF open
    <3> QED BY <1>6, <2>1, LeastExists
  <2>3. m # 0
    BY <1>4, <2>2
  <2>4. m - 1 \in 0..Cardinality(S) /\ m - 1 \in Nat /\ (m - 1) + 1 = m /\ ~(m - 1 >= m)
    BY <1>1, <2>2, <2>3
  <2>5. Solved(m - 1)
    BY <2>2, <2>4
  <2>6. Solved((m - 1) + 1)
    BY <1>5, <2>4, <2>5
  <2> QED BY <2>2, <2>4, <2>6
<1>7. Solved(Cardinality(S))
  <2> HIDE DEF Solved
  <2> QED BY <1>1, <1>6
<1>8. upTo(Cardinality(S)) = SUBSET S
  BY <1>1, <1>2
<1> HIDE DEF upTo
<1> QED BY <1>7, <1>8 DEF Sums
\* Of finite sets one is smallest.
LEMMA SmallestExists ==
    ASSUME NEW W, \A s \in W : IsFiniteSet(s), W # {}
    PROVE  \E s \in W : \A t \in W : Cardinality(t) >= Cardinality(s)
<1> DEFINE sizes(n) == {k \in 0..n : \E s \in W : Cardinality(s) = k}
<1>1. \A s \in W : Cardinality(s) \in Nat
  BY FS_CardinalityType
<1>2. PICK s \in W, n \in Nat : Cardinality(s) = n
  BY <1>1
<1>3. sizes(n) \in SUBSET Nat /\ IsFiniteSet(sizes(n)) /\ sizes(n) # {}
  <2>1. IsFiniteSet(0..n) /\ sizes(n) \in SUBSET (0..n)
    BY FS_Interval
  <2>2. n \in sizes(n) /\ 0..n \in SUBSET Nat
    BY <1>2
  <2> HIDE DEF sizes
  <2> QED BY <2>1, <2>2, FS_Subset
<1>4. PICK m \in sizes(n) : \A k \in sizes(n) : k >= m
  <2> HIDE DEF sizes
  <2> QED BY <1>3, LeastExists
<1>5. PICK t \in W : Cardinality(t) = m
  OBVIOUS
<1>6. ASSUME NEW u \in W PROVE Cardinality(u) >= Cardinality(t)
  <2>1. Cardinality(u) \in Nat /\ m \in 0..n
    BY <1>1
  <2>2. CASE Cardinality(u) <= n
    BY <1>4, <1>5, <2>1, <2>2
  <2>3. CASE ~ (Cardinality(u) <= n)
    BY <1>5, <2>1, <2>3
  <2> QED BY <2>2, <2>3
<1> QED BY <1>6

\* Two ways of summing agree on sets over which the values do.
LEMMA SumsAgree ==
    ASSUME NEW S, NEW T, IsFiniteSet(S), IsFiniteSet(T), NEW f, NEW e, NEW g, NEW h,
           Sums(g, f, S), Sums(h, e, T), NEW R, R \subseteq S, R \subseteq T,
           \A x \in R : f[x] = e[x]
    PROVE  g[R] = h[R]
<1> DEFINE wrong == {s \in SUBSET R : g[s] # h[s]}
<1>1. ASSUME wrong # {} PROVE FALSE
  <2>1. \A s \in wrong : IsFiniteSet(s)
    BY FS_Subset
  <2>2. PICK s \in wrong : \A t \in wrong : Cardinality(t) >= Cardinality(s)
    <3> HIDE DEF wrong
    <3> QED BY <1>1, <2>1, SmallestExists
  <2>3. s \in SUBSET S /\ s \in SUBSET T /\ s \in SUBSET R
    OBVIOUS
  <2>4. s # {}
    BY <2>2, <2>3 DEF Sums
  <2>5. Pick(s) \in s
    BY <2>4 DEF Pick
  <2>6. g[s \ {Pick(s)}] = h[s \ {Pick(s)}]
    <3>1. Cardinality(s) \in Nat /\ Cardinality(s \ {Pick(s)}) = Cardinality(s) - 1
      BY <2>1, <2>5, SmallerWithout
    <3>2. ~ (Cardinality(s \ {Pick(s)}) >= Cardinality(s))
      BY <3>1
    <3> QED BY <2>2, <2>3, <3>2
  <2>7. f[Pick(s)] = e[Pick(s)]
    BY <2>3, <2>5
  <2>8. g[s] = f[Pick(s)] + g[s \ {Pick(s)}] /\ h[s] = e[Pick(s)] + h[s \ {Pick(s)}]
    BY <2>3, <2>4 DEF Sums
  <2> QED BY <2>2, <2>6, <2>7, <2>8
<1> QED BY <1>1

LEMMA TotalIs ==
    ASSUME NEW S, IsFiniteSet(S), NEW f, \A x \in S : f[x] \in Int
    PROVE  \E g \in [SUBSET S -> Int] : Sums(g, f, S) /\ Total(f, S) = g[S]
<1> DEFINE Solves(g) == g = [s \in SUBSET S |->
                                IF s = {} THEN 0 ELSE f[Pick(s)] + g[s \ {Pick(s)}]]
<1>1. PICK g \in [SUBSET S -> Int] : Sums(g, f, S)
  BY SumsExist
<1>2. Solves(g)
  BY <1>1 DEF Sums
<1>3. Total(f, S) = (CHOOSE h : Solves(h))[S]
  BY DEF Total, MapThenSumSet, MapThenFoldSet, Pick
<1>4. PICK h : h = (CHOOSE k : Solves(k)) /\ Solves(h)
  <2> HIDE DEF Solves
  <2> QED BY <1>2
<1>5. Sums(h, f, S)
  BY <1>4 DEF Sums
<1>6. h[S] = g[S]
  BY <1>1, <1>5, SumsAgree
<1> QED BY <1>1, <1>3, <1>4, <1>6

\* However a sum is come by, it is the total.
LEMMA SumIsTotal ==
    ASSUME NEW S, IsFiniteSet(S), NEW f, \A x \in S : f[x] \in Int, NEW h, Sums(h, f, S)
    PROVE  h[S] = Total(f, S)
<1>1. PICK g \in [SUBSET S -> Int] : Sums(g, f, S) /\ Total(f, S) = g[S]
  BY TotalIs
<1> QED BY <1>1, SumsAgree

LEMMA TotalSame ==
    ASSUME NEW S, IsFiniteSet(S), NEW f, NEW e, \A x \in S : f[x] \in Int /\ f[x] = e[x]
    PROVE  Total(f, S) = Total(e, S) /\ Total(f, S) \in Int
<1>1. PICK g \in [SUBSET S -> Int] : Sums(g, f, S) /\ Total(f, S) = g[S]
  BY TotalIs
<1>2. PICK h \in [SUBSET S -> Int] : Sums(h, e, S) /\ Total(e, S) = h[S]
  <2>1. \A x \in S : e[x] \in Int
    OBVIOUS
  <2> QED BY <2>1, TotalIs
<1>3. g[S] = h[S]
  BY <1>1, <1>2, SumsAgree
<1> QED BY <1>1, <1>2, <1>3

LEMMA TotalEmpty == \A f : Total(f, {}) = 0
<1> SUFFICES ASSUME NEW f PROVE Total(f, {}) = 0
  OBVIOUS
<1>1. PICK g \in [SUBSET {} -> Int] : Sums(g, f, {}) /\ Total(f, {}) = g[{}]
  BY FS_EmptySet, TotalIs
<1> QED BY <1>1 DEF Sums

\* Whichever element is taken first, the sum is the same.
LEMMA TotalWithout ==
    ASSUME NEW S, IsFiniteSet(S), NEW f, \A x \in S : f[x] \in Int, NEW y \in S
    PROVE  Total(f, S) = f[y] + Total(f, S \ {y}) /\ Total(f, S \ {y}) \in Int
<1>1. PICK g \in [SUBSET S -> Int] : Sums(g, f, S) /\ Total(f, S) = g[S]
  BY TotalIs
<1>2. IsFiniteSet(S \ {y}) /\ \A x \in S \ {y} : f[x] \in Int
  BY FS_Subset
<1>3. PICK h \in [SUBSET (S \ {y}) -> Int] :
          Sums(h, f, S \ {y}) /\ Total(f, S \ {y}) = h[S \ {y}]
  BY <1>2, TotalIs
<1>4. h[S \ {y}] = g[S \ {y}]
  BY <1>1, <1>2, <1>3, SumsAgree
<1> DEFINE wrong == {s \in SUBSET S : \E x \in s : g[s] # f[x] + g[s \ {x}]}
<1>5. ASSUME wrong # {} PROVE FALSE
  <2>1. \A s \in wrong : IsFiniteSet(s)
    BY FS_Subset
  <2>2. PICK s \in wrong : \A t \in wrong : Cardinality(t) >= Cardinality(s)
    <3> HIDE DEF wrong
    <3> QED BY <1>5, <2>1, SmallestExists
  <2>3. PICK x \in s : g[s] # f[x] + g[s \ {x}]
    BY <2>2
  <2>4. PICK z \in s : z = Pick(s)
    BY <2>3 DEF Pick
  <2>5. s \in SUBSET S /\ g[s] = f[z] + g[s \ {z}]
    BY <1>1, <2>3, <2>4 DEF Sums
  <2>6. x # z
    BY <2>3, <2>5
  <2> DEFINE without == (s \ {x}) \ {z}
  <2>7. /\ g[s \ {x}] = f[z] + g[without]
        /\ g[s \ {z}] = f[x] + g[without]
    <3>1. Cardinality(s) \in Nat /\ Cardinality(s \ {x}) = Cardinality(s) - 1
          /\ Cardinality(s \ {z}) = Cardinality(s) - 1
      BY <2>1, SmallerWithout
    <3>2. ~ (Cardinality(s \ {x}) >= Cardinality(s)) /\ ~ (Cardinality(s \ {z}) >= Cardinality(s))
      BY <3>1
    <3>3. s \ {x} \notin wrong /\ s \ {z} \notin wrong
      <4> HIDE DEF wrong
      <4> QED BY <2>2, <3>2
    <3>4. (s \ {x}) \ {z} = (s \ {z}) \ {x} /\ z \in s \ {x} /\ x \in s \ {z}
      BY <2>6
    <3> QED BY <2>5, <3>3, <3>4
  <2>8. g[without] \in Int /\ f[x] \in Int /\ f[z] \in Int
    BY <2>5
  <2> HIDE DEF without
  <2> QED BY <2>3, <2>5, <2>7, <2>8
<1>6. g[S] = f[y] + g[S \ {y}] /\ S \ {y} \in SUBSET S
  BY <1>5
<1>7. h[S \ {y}] \in Int
  BY <1>1, <1>4, <1>6
<1> QED BY <1>1, <1>3, <1>4, <1>6, <1>7

\* What one element loses another may gain.
LEMMA TotalMoved ==
    ASSUME NEW S, IsFiniteSet(S), NEW f, NEW e, \A x \in S : f[x] \in Int /\ e[x] \in Int,
           NEW p \in S, NEW r \in S, p # r, f[p] + f[r] = e[p] + e[r],
           \A x \in S : x # p /\ x # r => f[x] = e[x]
    PROVE  Total(f, S) = Total(e, S)
<1> DEFINE P == S \ {p}
           R == P \ {r}
<1>1. IsFiniteSet(P) /\ IsFiniteSet(R) /\ r \in P
      /\ (\A x \in P : f[x] \in Int /\ e[x] \in Int) /\ (\A x \in R : f[x] \in Int /\ f[x] = e[x])
  BY FS_Subset
<1>2. Total(f, S) = f[p] + Total(f, P) /\ Total(e, S) = e[p] + Total(e, P)
  BY TotalWithout
<1> HIDE DEF P
<1>3. Total(f, P) = f[r] + Total(f, R) /\ Total(e, P) = e[r] + Total(e, R)
  BY <1>1, TotalWithout
<1> HIDE DEF R
<1>4. Total(f, R) = Total(e, R) /\ Total(f, R) \in Int
  BY <1>1, TotalSame
<1> QED BY <1>2, <1>3, <1>4

\* The same for every element of T.
LEMMA TotalConstant ==
    ASSUME NEW S, IsFiniteSet(S), NEW T \in SUBSET S, NEW k \in Int, NEW f,
           \A x \in S : f[x] = IF x \in T THEN k ELSE 0
    PROVE  Total(f, S) = Cardinality(T) * k
<1> DEFINE wrong == {s \in SUBSET S : Total(f, s) # Cardinality(T \cap s) * k}
<1>1. ASSUME wrong # {} PROVE FALSE
  <2>1. \A s \in wrong : IsFiniteSet(s)
    BY FS_Subset
  <2>2. PICK s \in wrong : \A t \in wrong : Cardinality(t) >= Cardinality(s)
    <3> HIDE DEF wrong
    <3> QED BY <1>1, <2>1, SmallestExists
  <2>3. s # {}
    <3>1. T \cap {} = {} /\ Cardinality({}) = 0 /\ 0 * k = 0
      BY FS_EmptySet
    <3> QED BY <2>2, <3>1, TotalEmpty
  <2>4. PICK x \in s : TRUE
    BY <2>3
  <2> DEFINE rest == s \ {x}
  <2>5. rest \notin wrong
    <3>1. Cardinality(s) \in Nat /\ Cardinality(rest) = Cardinality(s) - 1
      BY <2>1, SmallerWithout
    <3>2. ~ (Cardinality(rest) >= Cardinality(s))
      BY <3>1
    <3> HIDE DEF wrong, rest
    <3> QED BY <2>2, <3>2
  <2>6. Total(f, rest) = Cardinality(T \cap rest) * k
    BY <2>5
  <2>7. Total(f, s) = f[x] + Total(f, rest)
    <3>1. \A y \in s : f[y] \in Int
      OBVIOUS
    <3> QED BY <2>1, <3>1, TotalWithout
  <2>8. IsFiniteSet(T \cap s)
    BY <2>1, FS_Subset
  <2>9. CASE x \in T
    <3>1. T \cap rest = (T \cap s) \ {x} /\ x \in T \cap s
      BY <2>9
    <3>2. PICK n \in Nat : n = Cardinality(T \cap s) /\ Cardinality(T \cap rest) = n - 1
      BY <2>8, <3>1, SmallerWithout
    <3>3. f[x] = k
      BY <2>9
    <3>4. k + (n - 1) * k = n * k
      OBVIOUS
    <3> HIDE DEF rest
    <3>5. Total(f, s) = Cardinality(T \cap s) * k
      BY <2>6, <2>7, <3>2, <3>3, <3>4
    <3> QED BY <3>5
  <2>10. CASE x \notin T
    <3>1. T \cap rest = T \cap s /\ f[x] = 0
      BY <2>10
    <3>2. PICK n \in Nat : n = Cardinality(T \cap s)
      BY <2>8, FS_CardinalityType
    <3>3. 0 + n * k = n * k
      OBVIOUS
    <3> HIDE DEF rest
    <3>4. Total(f, s) = Cardinality(T \cap s) * k
      BY <2>6, <2>7, <3>1, <3>2, <3>3
    <3> QED BY <3>4
  <2> QED BY <2>9, <2>10
<1>2. T \cap S = T
  OBVIOUS
<1> QED BY <1>1, <1>2

=================================================================================
