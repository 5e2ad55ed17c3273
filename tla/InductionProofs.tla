--------------------------- MODULE InductionProofs ----------------------------
(***************************************************************************)
(* Facts that need induction, with the hypothesis as a set of numbers: the *)
(* library's induction theorems take it as an operator.  Numbers up to a   *)
(* bound, and the sum of a function over its domain.                       *)
(***************************************************************************)
EXTENDS Integers, FiniteSets, Functions, WellFoundedInduction, FiniteSetTheorems, TLAPS

-----------------------------------------------------------------------------
(* Induction, as the least element of a set of numbers. *)

LEMMA LeastNat ==
  ASSUME NEW S \in SUBSET Nat, S # {}
  PROVE  \E m \in S : \A n \in S : m <= n
<1> DEFINE R == {p \in Nat \X Nat : p[1] < p[2]}
<1>1. R = OpToRel(<, Nat)
  BY DEF OpToRel
<1>2. IsWellFoundedOn(R, Nat)
  BY <1>1, NatLessThanWellFounded
<1>3. \E m \in S : \A n \in S : <<n, m>> \notin R
  <2> HIDE DEF R
  <2> QED  BY <1>2, WFMin
<1>4. PICK m \in S : \A n \in S : <<n, m>> \notin R
  BY <1>3
<1>5. \A n \in S : m <= n
  <2> TAKE n \in S
  <2>1. m \in Nat /\ n \in Nat /\ ~(n < m)
    BY <1>4
  <2> QED  BY <2>1
<1> QED  BY <1>5

\* A set of numbers that holds 0 and the successor of each of its elements
\* below a bound holds all the numbers up to the bound.
LEMMA UpTo ==
  ASSUME NEW bound \in Nat, NEW S, 0 \in S,
         \A k \in 0 .. bound - 1 : k \in S => k + 1 \in S
  PROVE  \A k \in 0 .. bound : k \in S
<1> DEFINE T == {k \in 0 .. bound : k \notin S}
<1> SUFFICES ASSUME T # {} PROVE FALSE
  OBVIOUS
<1>1. T \in SUBSET Nat
  OBVIOUS
<1>2. PICK m \in T : \A n \in T : m <= n
  <2> HIDE DEF T
  <2> QED  BY <1>1, LeastNat
<1>3. m \in 0 .. bound /\ m \notin S /\ m # 0
  BY <1>2
<1>4. m - 1 \in 0 .. bound - 1 /\ ~(m <= m - 1) /\ (m - 1) + 1 = m
  BY <1>3
<1>5. m - 1 \in S
  BY <1>2, <1>4
<1> QED  BY <1>3, <1>4, <1>5

-----------------------------------------------------------------------------
(* The sum of a function, as the fold of SumFunction computes it. *)

\* The element that the fold takes from a set first.
First(s) == CHOOSE x \in s : TRUE

\* What the fold computes for a set, from what it computes for a smaller one.
Plus(f, g, s) == IF s = {} THEN 0 ELSE f[First(s)] + g[s \ {First(s)}]

\* One element less in a set.
LEMMA OneLess ==
  ASSUME NEW S, IsFiniteSet(S), NEW s \in SUBSET S
  PROVE  /\ IsFiniteSet(s) /\ Cardinality(s) \in Nat
         /\ Cardinality(s) = 0 <=> s = {}
         /\ s # {} => /\ First(s) \in s /\ s \ {First(s)} \in SUBSET S
                      /\ First(s) \notin s \ {First(s)}
                      /\ Cardinality(s \ {First(s)}) = Cardinality(s) - 1
<1>1. IsFiniteSet(s)
  BY FS_Subset
<1>2. Cardinality(s) \in Nat /\ (Cardinality(s) = 0 <=> s = {})
  BY <1>1, FS_CardinalityType, FS_EmptySet
<1>3. s # {} => First(s) \in s
  BY DEF First
<1>4. s # {} => Cardinality(s \ {First(s)}) = Cardinality(s) - 1
  BY <1>1, <1>3, FS_RemoveElement
<1> QED  BY <1>1, <1>2, <1>3, <1>4

\* The recursive function of the fold exists.
LEMMA PlusExists ==
  ASSUME NEW S, IsFiniteSet(S), NEW f
  PROVE  \E g : g = [s \in SUBSET S |-> Plus(f, g, s)]
<1> DEFINE N == Cardinality(S)
           Upto(n) == {s \in SUBSET S : Cardinality(s) <= n}
           A == {n \in 0 .. N : \E g : g = [s \in Upto(n) |-> Plus(f, g, s)]}
<1>0. N \in Nat
  BY FS_CardinalityType
<1>1. 0 \in A
  <2> DEFINE g == [s \in Upto(0) |-> 0]
  <2>1. \A s \in Upto(0) : Plus(f, g, s) = 0
    BY OneLess DEF Plus
  <2>2. g = [s \in Upto(0) |-> Plus(f, g, s)]
    <3> HIDE DEF Upto
    <3> QED  BY <2>1
  <2>3. 0 \in 0 .. N
    BY <1>0
  <2> HIDE DEF g, Upto
  <2> QED  BY <2>2, <2>3
<1>2. ASSUME NEW n \in 0 .. N - 1, n \in A
      PROVE  n + 1 \in A
  <2>1. PICK g : g = [s \in Upto(n) |-> Plus(f, g, s)]
    BY <1>2
  <2> DEFINE h == [s \in Upto(n + 1) |-> IF s \in Upto(n) THEN g[s] ELSE Plus(f, g, s)]
  <2>0. n \in Nat
    BY <1>0
  <2>2. \A s \in Upto(n) : s \in Upto(n + 1) /\ h[s] = g[s]
    <3> TAKE s \in Upto(n)
    <3>1. Cardinality(s) \in Nat
      BY OneLess
    <3> QED  BY <2>0, <3>1
  <2>3. ASSUME NEW s \in Upto(n + 1)
        PROVE  Plus(f, g, s) = Plus(f, h, s)
    <3>1. s # {} => s \ {First(s)} \in Upto(n)
      BY <2>0, OneLess
    <3>2. s # {} => h[s \ {First(s)}] = g[s \ {First(s)}]
      BY <2>2, <3>1
    <3> HIDE DEF h, Upto
    <3> QED  BY <3>2 DEF Plus
  <2>4. ASSUME NEW s \in Upto(n + 1)
        PROVE  h[s] = Plus(f, h, s)
    <3>1. CASE s \in Upto(n)
      <4>1. g[s] = Plus(f, g, s) /\ h[s] = g[s]
        BY <2>1, <2>2, <3>1
      <4> HIDE DEF h, Upto
      <4> QED  BY <4>1, <2>3
    <3>2. CASE s \notin Upto(n)
      <4>1. h[s] = Plus(f, g, s)
        BY <3>2
      <4> HIDE DEF h, Upto
      <4> QED  BY <4>1, <2>3
    <3> QED  BY <3>1, <3>2
  <2>5. h = [s \in Upto(n + 1) |-> h[s]]
    OBVIOUS
  <2>6. h = [s \in Upto(n + 1) |-> Plus(f, h, s)]
    <3> HIDE DEF h, Upto
    <3> QED  BY <2>4, <2>5
  <2>7. n + 1 \in 0 .. N
    BY <1>0
  <2> HIDE DEF h, Upto, N
  <2> QED  BY <2>6, <2>7
<1>3. N \in A
  <2> HIDE DEF A, N
  <2>1. \A n \in 0 .. N : n \in A
    BY <1>0, <1>1, <1>2, UpTo
  <2> QED  BY <2>1, <1>0
<1>4. Upto(N) = SUBSET S
  BY FS_Subset
<1> QED  BY <1>3, <1>4

LEMMA SumIs ==
  ASSUME NEW S, IsFiniteSet(S), NEW f, DOMAIN f = S
  PROVE  \E g : g = [s \in SUBSET S |-> Plus(f, g, s)] /\ SumFunction(f) = g[S]
<1> DEFINE g == CHOOSE h : h = [s \in SUBSET S |-> Plus(f, h, s)]
<1>1. g = [s \in SUBSET S |-> Plus(f, g, s)]
  BY PlusExists
<1>2. SumFunction(f) = g[S]
  BY DEF SumFunction, SumFunctionOnSet, FoldFunctionOnSet, MapThenFoldSet, Plus, First
<1> QED  BY <1>1, <1>2

\* The sum of zeros.
LEMMA SumOfZeros ==
  ASSUME NEW S, IsFiniteSet(S), NEW f \in [S -> {0}]
  PROVE  SumFunction(f) = 0
<1>1. PICK g : g = [s \in SUBSET S |-> Plus(f, g, s)] /\ SumFunction(f) = g[S]
  BY SumIs
<1> DEFINE N == Cardinality(S)
           A == {n \in 0 .. N : \A s \in SUBSET S : Cardinality(s) = n => g[s] = 0}
<1>0. N \in Nat
  BY FS_CardinalityType
<1>2. 0 \in A
  <2>1. ASSUME NEW s \in SUBSET S, Cardinality(s) = 0
        PROVE  g[s] = 0
    <3>1. s = {}
      BY <2>1, OneLess
    <3> QED  BY <1>1, <3>1 DEF Plus
  <2> QED  BY <1>0, <2>1
<1>3. ASSUME NEW n \in 0 .. N - 1, n \in A
      PROVE  n + 1 \in A
  <2>1. ASSUME NEW s \in SUBSET S, Cardinality(s) = n + 1
        PROVE  g[s] = 0
    <3>1. /\ s # {} /\ First(s) \in S
          /\ s \ {First(s)} \in SUBSET S /\ Cardinality(s \ {First(s)}) = n
      BY <1>0, <2>1, OneLess
    <3>2. g[s] = f[First(s)] + g[s \ {First(s)}]
      BY <1>1, <3>1 DEF Plus
    <3>3. g[s \ {First(s)}] = 0 /\ f[First(s)] = 0
      BY <1>3, <3>1
    <3> QED  BY <3>2, <3>3
  <2> QED  BY <1>0, <2>1
<1>4. N \in A
  <2> HIDE DEF A, N
  <2>1. \A n \in 0 .. N : n \in A
    BY <1>0, <1>2, <1>3, UpTo
  <2> QED  BY <2>1, <1>0
<1> QED  BY <1>1, <1>4

\* A sum changes by what one of its terms changes by.
LEMMA SumChange ==
  ASSUME NEW S, IsFiniteSet(S), NEW f \in [S -> Nat], NEW h \in [S -> Nat],
         NEW w \in S, \A x \in S : x # w => h[x] = f[x]
  PROVE  /\ SumFunction(f) \in Nat /\ SumFunction(h) \in Nat
         /\ SumFunction(h) + f[w] = SumFunction(f) + h[w]
<1>1. PICK p : p = [s \in SUBSET S |-> Plus(f, p, s)] /\ SumFunction(f) = p[S]
  BY SumIs
<1>2. PICK q : q = [s \in SUBSET S |-> Plus(h, q, s)] /\ SumFunction(h) = q[S]
  BY SumIs
<1> DEFINE N == Cardinality(S)
           Differ(s) == /\ p[s] \in Nat /\ q[s] \in Nat
                        /\ w \in s => q[s] + f[w] = p[s] + h[w]
                        /\ w \notin s => q[s] = p[s]
           A == {n \in 0 .. N : \A s \in SUBSET S : Cardinality(s) = n => Differ(s)}
<1>0. N \in Nat
  BY FS_CardinalityType
<1>3. 0 \in A
  <2>1. ASSUME NEW s \in SUBSET S, Cardinality(s) = 0
        PROVE  Differ(s)
    <3>1. s = {}
      BY <2>1, OneLess
    <3> QED  BY <1>1, <1>2, <3>1 DEF Plus
  <2> QED  BY <1>0, <2>1
<1>4. ASSUME NEW n \in 0 .. N - 1, n \in A
      PROVE  n + 1 \in A
  <2>1. ASSUME NEW s \in SUBSET S, Cardinality(s) = n + 1
        PROVE  Differ(s)
    <3> DEFINE e == First(s)
               r == s \ {e}
    <3>1. /\ s # {} /\ e \in s /\ e \in S
          /\ r \in SUBSET S /\ Cardinality(r) = n /\ e \notin r
      BY <1>0, <2>1, OneLess
    <3>2. p[s] = f[e] + p[r] /\ q[s] = h[e] + q[r]
      BY <1>1, <1>2, <3>1 DEF Plus
    <3>3. Differ(r)
      BY <1>4, <3>1
    <3>4. f[e] \in Nat /\ h[e] \in Nat /\ f[w] \in Nat /\ h[w] \in Nat
      BY <3>1
    <3>5. CASE e = w
      <4>1. q[r] = p[r]
        BY <3>1, <3>3, <3>5
      <4> HIDE DEF r, e
      <4> QED  BY <3>1, <3>2, <3>3, <3>4, <3>5, <4>1
    <3>6. CASE e # w
      <4>1. h[e] = f[e] /\ (w \in s <=> w \in r)
        BY <3>1, <3>6
      <4> HIDE DEF r, e
      <4> QED  BY <3>2, <3>3, <3>4, <4>1
    <3> QED  BY <3>5, <3>6
  <2> QED  BY <1>0, <2>1
<1>5. N \in A
  <2> HIDE DEF A, N
  <2>1. \A n \in 0 .. N : n \in A
    BY <1>0, <1>3, <1>4, UpTo
  <2> QED  BY <2>1, <1>0
<1>6. Differ(S)
  BY <1>5
<1> QED  BY <1>1, <1>2, <1>6

-----------------------------------------------------------------------------
(* Folds: a set is emptied one element at a time, and each element makes a *)
(* step from the value of what is left.                                    *)

\* A choice of an element from each set, and the function a fold recurs by.
Picks(pick, D) == \A s \in SUBSET D : s # {} => pick[s] \in s

IsFold(g, D, V, base, step, pick) ==
  /\ g \in [SUBSET D -> V]
  /\ \A s \in SUBSET D :
       g[s] = IF s = {} THEN base ELSE step[pick[s]][g[s \ {pick[s]}]]

LEMMA FoldExists ==
  ASSUME NEW D, IsFiniteSet(D), NEW V, NEW base \in V,
         NEW step \in [D -> [V -> V]], NEW pick, Picks(pick, D)
  PROVE  \E g : IsFold(g, D, V, base, step, pick)
<1> DEFINE N == Cardinality(D)
           Upto(n) == {s \in SUBSET D : Cardinality(s) <= n}
           Folds(g, n) ==
             \A s \in Upto(n) :
               g[s] = IF s = {} THEN base ELSE step[pick[s]][g[s \ {pick[s]}]]
           A == {n \in 0 .. N : \E g \in [SUBSET D -> V] : Folds(g, n)}
<1>0. N \in Nat
  BY FS_CardinalityType
<1>1. \A s \in SUBSET D : /\ IsFiniteSet(s) /\ Cardinality(s) \in Nat
                          /\ Cardinality(s) = 0 <=> s = {}
  BY FS_Subset, FS_CardinalityType, FS_EmptySet
<1>2. \A s \in SUBSET D :
        s # {} => /\ pick[s] \in D /\ s \ {pick[s]} \in SUBSET D
                  /\ Cardinality(s \ {pick[s]}) = Cardinality(s) - 1
  BY <1>1, FS_RemoveElement DEF Picks
<1>3. 0 \in A
  <2> DEFINE g == [s \in SUBSET D |-> base]
  <2>1. g \in [SUBSET D -> V]
    OBVIOUS
  <2>2. Folds(g, 0)
    BY <1>1
  <2>3. 0 \in 0 .. N
    BY <1>0
  <2> HIDE DEF g, Folds
  <2> QED  BY <2>1, <2>2, <2>3
<1>4. ASSUME NEW n \in 0 .. N - 1, n \in A
      PROVE  n + 1 \in A
  <2>0. n \in Nat /\ n + 1 \in 0 .. N
    BY <1>0
  <2>1. PICK g \in [SUBSET D -> V] : Folds(g, n)
    BY <1>4
  <2> DEFINE Made(s) == IF s = {} THEN base ELSE step[pick[s]][g[s \ {pick[s]}]]
             h == [s \in SUBSET D |-> IF Cardinality(s) <= n THEN g[s] ELSE Made(s)]
  <2>2. \A s \in SUBSET D : Made(s) \in V
    <3> TAKE s \in SUBSET D
    <3>1. CASE s = {}
      BY <3>1
    <3>2. CASE s # {}
      <4>1. pick[s] \in D /\ g[s \ {pick[s]}] \in V
        BY <1>2, <3>2
      <4> QED  BY <3>2, <4>1
    <3> QED  BY <3>1, <3>2
  <2>3. h \in [SUBSET D -> V]
    <3> HIDE DEF Made
    <3> QED  BY <2>2
  <2>4. \A s \in SUBSET D : Cardinality(s) <= n => h[s] = g[s]
    OBVIOUS
  <2>5. ASSUME NEW s \in Upto(n + 1)
        PROVE  h[s] = IF s = {} THEN base ELSE step[pick[s]][h[s \ {pick[s]}]]
    <3>1. h[s] = Made(s)
      <4>1. CASE Cardinality(s) <= n
        BY <2>1, <2>4, <4>1
      <4>2. CASE ~(Cardinality(s) <= n)
        BY <4>2
      <4> QED  BY <4>1, <4>2
    <3>2. s # {} => Cardinality(s \ {pick[s]}) <= n
      BY <1>1, <1>2, <2>0
    <3>3. s # {} => h[s \ {pick[s]}] = g[s \ {pick[s]}]
      BY <1>2, <2>4, <3>2
    <3> HIDE DEF h
    <3> QED  BY <3>1, <3>3
  <2>6. Folds(h, n + 1)
    <3> HIDE DEF h
    <3> QED  BY <2>5
  <2> HIDE DEF h, Folds
  <2> QED  BY <2>0, <2>3, <2>6
<1>5. N \in A
  <2> HIDE DEF A, N
  <2>1. \A n \in 0 .. N : n \in A
    BY <1>0, <1>3, <1>4, UpTo
  <2> QED  BY <2>1, <1>0
<1>6. \A s \in SUBSET D : s \in Upto(N)
  BY FS_Subset
<1> QED  BY <1>5, <1>6 DEF IsFold
=============================================================================
