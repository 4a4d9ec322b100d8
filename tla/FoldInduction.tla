----------------------------- MODULE FoldInduction -----------------------------
(***************************************************************************)
(* A fold over a sequence, one element after the other: what holds of the  *)
(* base and goes on to hold with every element holds of the result.  The   *)
(* step and what holds are parameters, so that a proof takes an instance   *)
(* of this module for every fold of a model; `c` stands for what the step  *)
(* looks at besides.                                                       *)
(***************************************************************************)
EXTENDS Integers
LOCAL INSTANCE FiniteLemmas

CONSTANTS Step(_, _, _),    \* what is folded so far, with one element more
          Holds(_, _, _)    \* of what the first k elements were folded into

\* FoldLeft of SequencesExt with this step, its definitions expanded.
Last(s) == CHOOSE k \in s : \A j \in s : k >= j
Fold(c, base, seq) ==
    LET all[s \in SUBSET DOMAIN seq] ==
            IF s = {} THEN base ELSE LET k == Last(s) IN Step(c, all[s \ {k}], seq[k])
    IN  all[DOMAIN seq]

\* g folds the elements whose places are in s, for every s.
Folds(g, c, base, seq, n) ==
    g = [s \in SUBSET (1..n) |-> IF s = {} THEN base
                                 ELSE Step(c, g[s \ {Last(s)}], seq[Last(s)])]

\* Some place is the last of those in s.
LEMMA LastPlace ==
    ASSUME NEW n \in Nat, NEW s \in SUBSET (1..n), s # {}
    PROVE  Last(s) \in s /\ \A k \in s : k <= Last(s)
<1>1. IsFiniteSet(s) /\ s \in SUBSET Nat
  <2>1. IsFiniteSet(1..n) /\ 1..n \in SUBSET Nat
    BY FS_Interval
  <2> QED BY <2>1, FS_Subset
<1>2. \E m \in s : \A k \in s : m >= k
  <2>1. PICK m \in s : \A k \in s : k <= m
    BY <1>1, GreatestExists
  <2>2. \A k \in s : m >= k
    BY <2>1, <1>1
  <2> QED BY <2>2
<1>3. Last(s) \in s /\ \A k \in s : Last(s) >= k
  BY <1>2 DEF Last
<1> QED BY <1>1, <1>3

\* The recursion that defines a fold has a solution.
LEMMA FoldsExist ==
    ASSUME NEW c, NEW base, NEW seq, NEW n \in Nat
    PROVE  \E g : Folds(g, c, base, seq, n)
<1> DEFINE Solved(m) == \E g : Folds(g, c, base, seq, m)
           open == {m \in 0..n : ~Solved(m)}
<1>1. Solved(0)
  <2> DEFINE g == [s \in SUBSET (1..0) |-> base]
  <2>1. \A s \in SUBSET (1..0) : s = {}
    OBVIOUS
  <2>2. Folds(g, c, base, seq, 0)
    BY <2>1 DEF Folds
  <2> HIDE DEF g
  <2> QED BY <2>2
<1>2. ASSUME NEW m \in Nat, Solved(m) PROVE Solved(m + 1)
  <2>1. PICK g : Folds(g, c, base, seq, m)
    BY <1>2
  <2> DEFINE h == [s \in SUBSET (1..(m + 1)) |->
                     IF m + 1 \in s THEN Step(c, g[s \ {m + 1}], seq[m + 1]) ELSE g[s]]
  <2>2. \A s \in SUBSET (1..m) : s \in SUBSET (1..(m + 1)) /\ m + 1 \notin s /\ h[s] = g[s]
    OBVIOUS
  <2>3. ASSUME NEW s \in SUBSET (1..(m + 1))
        PROVE  h[s] = IF s = {} THEN base ELSE Step(c, h[s \ {Last(s)}], seq[Last(s)])
    <3>1. CASE m + 1 \in s
      <4>1. Last(s) \in s /\ m + 1 <= Last(s)
        <5>1. m + 1 \in Nat /\ s # {}
          BY <3>1
        <5> HIDE DEF h
        <5> QED BY <3>1, <5>1, LastPlace
      <4>2. Last(s) = m + 1
        <5>1. Last(s) \in 1..(m + 1)
          BY <4>1
        <5> QED BY <4>1, <5>1
      <4>3. s \ {m + 1} \in SUBSET (1..m)
        OBVIOUS
      <4>4. h[s \ {m + 1}] = g[s \ {m + 1}] /\ h[s] = Step(c, g[s \ {m + 1}], seq[m + 1])
        BY <2>2, <3>1, <4>3
      <4> HIDE DEF h
      <4> QED BY <3>1, <4>2, <4>4
    <3>2. CASE m + 1 \notin s
      <4>1. s \in SUBSET (1..m) /\ s \ {Last(s)} \in SUBSET (1..m)
        <5>1. \A k \in s : k \in 1..m
          BY <3>2
        <5> QED BY <5>1
      <4>2. h[s] = g[s] /\ h[s \ {Last(s)}] = g[s \ {Last(s)}]
        BY <2>2, <4>1
      <4> HIDE DEF h
      <4>3. g[s] = IF s = {} THEN base ELSE Step(c, g[s \ {Last(s)}], seq[Last(s)])
        BY <2>1, <4>1 DEF Folds
      <4> QED BY <4>2, <4>3
    <3> QED BY <3>1, <3>2
  <2>4. h = [s \in SUBSET (1..(m + 1)) |-> h[s]]
    OBVIOUS
  <2> HIDE DEF h
  <2>5. Folds(h, c, base, seq, m + 1)
    BY <2>3, <2>4 DEF Folds
  <2> QED BY <2>5
<1> HIDE DEF Solved
<1>3. ASSUME open # {} PROVE FALSE
  <2>1. open \in SUBSET Nat /\ IsFiniteSet(open)
    <3>1. IsFiniteSet(0..n) /\ open \in SUBSET (0..n)
      BY FS_Interval
    <3> QED BY <3>1, FS_Subset
  <2>2. PICK m \in open : \A k \in open : k >= m
    <3> HIDE DEF open
    <3> QED BY <1>3, <2>1, LeastExists
  <2>3. m - 1 \in 0..n /\ m - 1 \in Nat /\ (m - 1) + 1 = m /\ ~(m - 1 >= m)
    BY <1>1, <2>2
  <2>4. Solved(m - 1)
    BY <2>2, <2>3
  <2> QED BY <1>2, <2>2, <2>3, <2>4
<1> QED BY <1>3 DEF Solved

\* The fold is that solution.
LEMMA FoldIs ==
    ASSUME NEW c, NEW base, NEW seq, NEW n \in Nat, DOMAIN seq = 1..n
    PROVE  \E g : Folds(g, c, base, seq, n) /\ Fold(c, base, seq) = g[1..n]
<1> DEFINE Is(g) == Folds(g, c, base, seq, n)
<1>1. Fold(c, base, seq) = (CHOOSE g : Is(g))[1..n]
  BY DEF Fold, Folds
<1>2. \E g : Is(g)
  BY FoldsExist
<1>3. Is(CHOOSE g : Is(g))
  <2> HIDE DEF Is
  <2> QED BY <1>2
<1> QED BY <1>1, <1>3

\* What holds of the base, and with k elements when it did with k - 1, holds of
\* the whole sequence.
LEMMA FoldHolds ==
    ASSUME NEW c, NEW base, NEW seq, NEW n \in Nat, DOMAIN seq = 1..n, Holds(c, 0, base),
           ASSUME NEW k \in 1..n, NEW l, Holds(c, k - 1, l)
           PROVE  Holds(c, k, Step(c, l, seq[k]))
    PROVE  Holds(c, n, Fold(c, base, seq))
<1>1. PICK g : Folds(g, c, base, seq, n) /\ Fold(c, base, seq) = g[1..n]
  BY FoldIs
<1> DEFINE open == {k \in 0..n : ~Holds(c, k, g[1..k])}
<1>2. Holds(c, 0, g[1..0])
  <2>1. 1..0 = {} /\ {} \in SUBSET (1..n)
    OBVIOUS
  <2>2. g[{}] = base
    BY <2>1, <1>1 DEF Folds
  <2> QED BY <2>1, <2>2
<1>3. ASSUME NEW k \in 1..n, Holds(c, k - 1, g[1..(k - 1)]) PROVE Holds(c, k, g[1..k])
  <2>1. 1..k \in SUBSET (1..n) /\ k \in 1..k /\ k \in Nat /\ k - 1 \in Nat
    OBVIOUS
  <2>2. Last(1..k) = k
    <3>1. Last(1..k) \in 1..k /\ k <= Last(1..k)
      BY <2>1, LastPlace
    <3> QED BY <3>1
  <2>3. (1..k) \ {k} = 1..(k - 1) /\ 1..k # {}
    <3>1. k \in Nat /\ \A j : j \in 1..k /\ j # k <=> j \in 1..(k - 1)
      BY <2>1
    <3> QED BY <2>1, <3>1
  <2>4. g[1..k] = Step(c, g[1..(k - 1)], seq[k])
    BY <1>1, <2>1, <2>2, <2>3 DEF Folds
  <2> QED BY <1>3, <2>4
<1>4. ASSUME open # {} PROVE FALSE
  <2>1. open \in SUBSET Nat /\ IsFiniteSet(open)
    <3>1. IsFiniteSet(0..n) /\ open \in SUBSET (0..n)
      BY FS_Interval
    <3> QED BY <3>1, FS_Subset
  <2>2. PICK m \in open : \A k \in open : k >= m
    <3> HIDE DEF open
    <3> QED BY <1>4, <2>1, LeastExists
  <2>3. m \in 1..n /\ m - 1 \in 0..n /\ ~(m - 1 >= m)
    BY <1>2, <2>2
  <2>4. Holds(c, m - 1, g[1..(m - 1)])
    BY <2>2, <2>3
  <2> QED BY <1>3, <2>2, <2>3, <2>4
<1>5. Holds(c, n, g[1..n])
  BY <1>4
<1> QED BY <1>1, <1>5
=================================================================================
