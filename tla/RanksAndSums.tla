---------------------------- MODULE RanksAndSums ----------------------------
(***************************************************************************)
(* Facts about finite sets of rows: the positions of the rows in a strict  *)
(* total order, which is what ORDER BY makes of the rows a query finds,    *)
(* and the sum of a column over them, which is what SUM() or a loop makes. *)
(***************************************************************************)
EXTENDS Integers, Functions, FiniteSets, FunctionTheorems, FiniteSetTheorems, TLAPS

\* R orders the elements of S.
OrdersStrictly(R, S) ==
  /\ \A x \in S : <<x, x>> \notin R
  /\ \A x, y, z \in S : <<x, y>> \in R /\ <<y, z>> \in R => <<x, z>> \in R
  /\ \A x, y \in S : x = y \/ <<x, y>> \in R \/ <<y, x>> \in R

Ahead(R, S, x) == {y \in S : <<y, x>> \in R}

LEMMA RankGrows ==
  ASSUME NEW S, IsFiniteSet(S), NEW R, OrdersStrictly(R, S), NEW x \in S, NEW y \in S, <<x, y>> \in R
  PROVE  Cardinality(Ahead(R, S, x)) < Cardinality(Ahead(R, S, y))
<1>1. Ahead(R, S, x) \subseteq Ahead(R, S, y) /\ x \in Ahead(R, S, y) /\ x \notin Ahead(R, S, x)
  BY DEF OrdersStrictly, Ahead
<1>2. IsFiniteSet(Ahead(R, S, y))
  BY FS_Subset DEF Ahead
<1>3. IsFiniteSet(Ahead(R, S, x))
  BY <1>1, <1>2, FS_Subset
<1>. QED  BY <1>1, <1>2, <1>3, FS_Subset, FS_CardinalityType

\* Every position below the number of elements is taken by exactly one of them.
THEOREM RanksAreDense ==
  ASSUME NEW S, IsFiniteSet(S), NEW R, OrdersStrictly(R, S)
  PROVE  /\ Cardinality(S) \in Nat
         /\ \A k \in 0..Cardinality(S)-1 : \E x \in S : Cardinality(Ahead(R, S, x)) = k
         /\ \A x, y \in S : Cardinality(Ahead(R, S, x)) = Cardinality(Ahead(R, S, y)) => x = y
<1> DEFINE n == Cardinality(S)
           f == [x \in S |-> Cardinality(Ahead(R, S, x))]
<1>1. n \in Nat
  BY FS_CardinalityType
<1>2. ASSUME NEW x \in S PROVE f[x] \in 0..n-1
  <2>1. Ahead(R, S, x) \subseteq S /\ x \notin Ahead(R, S, x)
    BY DEF OrdersStrictly, Ahead
  <2>2. IsFiniteSet(Ahead(R, S, x)) /\ Cardinality(Ahead(R, S, x)) < n
    BY <2>1, FS_Subset, FS_CardinalityType
  <2>. QED  BY <2>2, <1>1, FS_CardinalityType
<1>3. ASSUME NEW x \in S, NEW y \in S, f[x] = f[y] PROVE x = y
  <2>1. ASSUME NEW v \in S, NEW w \in S, <<v, w>> \in R PROVE f[v] # f[w]
    <3>1. f[v] < f[w]
      BY <2>1, RankGrows
    <3>. QED  BY <3>1, <1>2
  <2>. QED  BY <2>1, <1>3 DEF OrdersStrictly
<1>4. f \in Injection(S, 0..n-1)
  BY <1>2, <1>3, Fun_IsInj
<1>5. IsFiniteSet(0..n-1) /\ Cardinality(0..n-1) = n
  BY <1>1, FS_Interval
<1>6. f \in Surjection(S, 0..n-1)
  BY <1>4, <1>5, FS_Injection
<1>7. \A k \in 0..n-1 : \E x \in S : f[x] = k
  BY <1>6 DEF Surjection
<1>. QED  BY <1>1, <1>3, <1>7

LEMMA RankTaken ==
  ASSUME NEW S, IsFiniteSet(S), NEW R, OrdersStrictly(R, S), NEW k \in 0..Cardinality(S)-1
  PROVE  \E x \in S : Cardinality(Ahead(R, S, x)) = k
BY RanksAreDense

\* A set of numbers has a maximum, the element that none is ahead of.
THEOREM MaximumExists ==
  ASSUME NEW S \in SUBSET Int, IsFiniteSet(S), S # {}
  PROVE  \E x \in S : \A y \in S : x >= y
<1> DEFINE R == {p \in Int \X Int : p[1] > p[2]}
<1>1. OrdersStrictly(R, S)
  BY DEF OrdersStrictly
<1>2. 0 \in 0..Cardinality(S)-1
  BY FS_CardinalityType, FS_EmptySet
<1> HIDE DEF R
<1>3. PICK x \in S : Cardinality(Ahead(R, S, x)) = 0
  BY <1>1, <1>2, RanksAreDense
<1>4. Ahead(R, S, x) = {}
  <2>1. Ahead(R, S, x) \subseteq S
    BY DEF Ahead
  <2>. QED  BY <1>3, <2>1, FS_Subset, FS_EmptySet
<1>5. ASSUME NEW y \in S PROVE x >= y
  <2>1. <<y, x>> \notin R
    BY <1>4 DEF Ahead
  <2>2. x \in Int /\ y \in Int
    OBVIOUS
  <2>. QED  BY <2>1, <2>2 DEF R
<1>. QED  BY <1>5

-----------------------------------------------------------------------------
(* Sums over finite sets, as SumFunctionOnSet gives them. *)


\* One turn of a sum over s, the rest of it given by g.
Turn(f, g, s) == IF s = {} THEN 0
                 ELSE f[CHOOSE x \in s : TRUE] + g[s \ {CHOOSE x \in s : TRUE}]

\* g adds up f over every subset of S.
AddsUp(g, f, S) == g = [s \in SUBSET S |-> Turn(f, g, s)]

AddsUpInt(g, f, S) == g \in [SUBSET S -> Int] /\ AddsUp(g, f, S)

Summable(f, S) == IsFiniteSet(S) /\ \A x \in S : f[x] \in Int

LEMMA SumUnfolds ==
  ASSUME NEW f, NEW S
  PROVE  SumFunctionOnSet(f, S) = (CHOOSE g : AddsUp(g, f, S))[S]
BY DEF SumFunctionOnSet, FoldFunctionOnSet, MapThenFoldSet, AddsUp, Turn

\* What holds of 0 and goes from a number to the next holds of all.
LEMMA Induction ==
  ASSUME NEW P \in SUBSET Nat, 0 \in P, \A n \in P : n + 1 \in P
  PROVE  P = Nat
<1>. SUFFICES ASSUME NEW m \in Nat, m \notin P  PROVE FALSE
  OBVIOUS
<1> DEFINE K == {k \in 0..m : k \in P}
<1>1. IsFiniteSet(K) /\ K \in SUBSET Int /\ 0 \in K
  <2>1. IsFiniteSet(0..m)
    BY FS_Interval
  <2>. QED  BY <2>1, FS_Subset
<1>2. PICK x \in K : \A y \in K : x >= y
  BY <1>1, MaximumExists
<1>3. x + 1 \in K
  OBVIOUS
<1>. QED  BY <1>2, <1>3

\* Subsets of a finite set, one element less.
LEMMA OneLess ==
  ASSUME NEW S, IsFiniteSet(S), NEW s \in SUBSET S
  PROVE  /\ IsFiniteSet(s) /\ Cardinality(s) \in Nat /\ (Cardinality(s) = 0 <=> s = {})
         /\ \A x \in s : Cardinality(s \ {x}) = Cardinality(s) - 1
<1>1. IsFiniteSet(s)
  BY FS_Subset
<1>. QED  BY <1>1, FS_CardinalityType, FS_EmptySet, FS_RemoveElement

\* There is a function that adds up.
LEMMA SumExists ==
  ASSUME NEW f, NEW S, Summable(f, S)
  PROVE  \E g \in [SUBSET S -> Int] : AddsUp(g, f, S)
<1> DEFINE Upto(g, n) == \A s \in SUBSET S : Cardinality(s) <= n => g[s] = Turn(f, g, s)
           P == {n \in Nat : \E g \in [SUBSET S -> Int] : Upto(g, n)}
<1>0. IsFiniteSet(S) /\ \A x \in S : f[x] \in Int
  BY DEF Summable
<1>1. 0 \in P
  <2> DEFINE g == [s \in SUBSET S |-> 0]
  <2>1. g \in [SUBSET S -> Int]
    OBVIOUS
  <2>2. ASSUME NEW s \in SUBSET S, Cardinality(s) <= 0 PROVE g[s] = Turn(f, g, s)
    <3>1. s = {}
      BY <1>0, <2>2, OneLess
    <3>. QED  BY <3>1 DEF Turn
  <2>. QED  BY <2>1, <2>2
<1>2. ASSUME NEW n \in P PROVE n + 1 \in P
  <2>1. PICK g \in [SUBSET S -> Int] : Upto(g, n)
    OBVIOUS
  <2>2. ASSUME NEW s \in SUBSET S PROVE Turn(f, g, s) \in Int
    <3>1. CASE s = {}
      BY <3>1 DEF Turn
    <3>2. CASE s # {}
      <4>1. PICK c \in s : c = CHOOSE x \in s : TRUE
        BY <3>2
      <4>2. f[c] \in Int /\ g[s \ {c}] \in Int
        BY <1>0
      <4>. QED  BY <3>2, <4>1, <4>2 DEF Turn
    <3>. QED  BY <3>1, <3>2
  <2> DEFINE h == [s \in SUBSET S |-> IF Cardinality(s) = n + 1 THEN Turn(f, g, s) ELSE g[s]]
  <2>3. h \in [SUBSET S -> Int]
    BY <2>2
  <2>4. ASSUME NEW s \in SUBSET S, Cardinality(s) <= n + 1 PROVE h[s] = Turn(f, h, s)
    <3>1. n \in Nat /\ Cardinality(s) \in Nat
      BY <1>0, OneLess
    <3>2. Turn(f, h, s) = Turn(f, g, s)
      <4>1. CASE s = {}
        BY <4>1 DEF Turn
      <4>2. CASE s # {}
        <5>1. PICK c \in s : c = CHOOSE x \in s : TRUE
          BY <4>2
        <5>2. Cardinality(s \ {c}) = Cardinality(s) - 1
          BY <1>0, OneLess
        <5>3. h[s \ {c}] = g[s \ {c}]
          BY <2>4, <3>1, <5>2
        <5>. QED  BY <5>1, <5>3 DEF Turn
      <4>. QED  BY <4>1, <4>2
    <3>3. h[s] = Turn(f, g, s)
      BY <2>1, <2>4, <3>1
    <3>. QED  BY <3>2, <3>3
  <2>5. n + 1 \in Nat
    OBVIOUS
  <2> HIDE DEF h
  <2>. QED  BY <2>3, <2>4, <2>5
<1>3. P = Nat
  <2> HIDE DEF P
  <2>1. P \in SUBSET Nat
    BY DEF P
  <2>. QED  BY <1>1, <1>2, <2>1, Induction
<1>4. Cardinality(S) \in P
  <2>1. Cardinality(S) \in Nat
    BY <1>0, FS_CardinalityType
  <2>. QED  BY <1>3, <2>1
<1>5. PICK g \in [SUBSET S -> Int] : Upto(g, Cardinality(S))
  BY <1>4
<1>6. ASSUME NEW s \in SUBSET S PROVE g[s] = Turn(f, g, s)
  <2>1. Cardinality(s) <= Cardinality(S)
    BY <1>0, FS_Subset
  <2>. QED  BY <1>5, <2>1
<1>. QED  BY <1>6 DEF AddsUp

\* The order in which it takes the elements does not matter.
LEMMA AnyOrder ==
  ASSUME NEW f, NEW S, NEW g, Summable(f, S), AddsUpInt(g, f, S)
  PROVE  \A s \in SUBSET S : \A x \in s : g[s] = f[x] + g[s \ {x}]
<1> DEFINE Any(s) == \A x \in s : g[s] = f[x] + g[s \ {x}]
           P == {n \in Nat : \A s \in SUBSET S : Cardinality(s) <= n => Any(s)}
<1>0. /\ IsFiniteSet(S) /\ \A x \in S : f[x] \in Int
      /\ g \in [SUBSET S -> Int] /\ AddsUp(g, f, S)
  BY DEF Summable, AddsUpInt
<1>1. 0 \in P
  <2>1. ASSUME NEW s \in SUBSET S, Cardinality(s) <= 0 PROVE Any(s)
    <3>1. s = {}
      BY <1>0, <2>1, OneLess
    <3>. QED  BY <3>1
  <2>. QED  BY <2>1
<1>2. ASSUME NEW n \in P PROVE n + 1 \in P
  <2>1. ASSUME NEW s \in SUBSET S, Cardinality(s) <= n + 1, NEW x \in s
        PROVE  g[s] = f[x] + g[s \ {x}]
    <3>1. PICK c \in s : c = CHOOSE y \in s : TRUE
      BY <2>1
    <3>2. g[s] = f[c] + g[s \ {c}]
      BY <1>0, <3>1 DEF AddsUp, Turn
    <3>3. CASE c = x
      BY <3>2, <3>3
    <3>4. CASE c # x
      <4>1. Cardinality(s \ {c}) <= n /\ Cardinality(s \ {x}) <= n
        <5>1. Cardinality(s) \in Nat /\ n \in Nat
          BY <1>0, OneLess
        <5>2. Cardinality(s \ {c}) = Cardinality(s) - 1 /\ Cardinality(s \ {x}) = Cardinality(s) - 1
          BY <1>0, <2>1, OneLess
        <5>. QED  BY <2>1, <5>1, <5>2
      <4>2. Any(s \ {c}) /\ Any(s \ {x})
        BY <4>1
      <4>3. g[s \ {c}] = f[x] + g[(s \ {c}) \ {x}] /\ g[s \ {x}] = f[c] + g[(s \ {x}) \ {c}]
        BY <2>1, <3>4, <4>2
      <4>4. PICK r \in SUBSET S : r = (s \ {c}) \ {x} /\ r = (s \ {x}) \ {c}
        OBVIOUS
      <4>5. g[s \ {c}] = f[x] + g[r] /\ g[s \ {x}] = f[c] + g[r]
        BY <4>3, <4>4
      <4>6. f[c] \in Int /\ f[x] \in Int /\ g[r] \in Int
        BY <1>0, <2>1
      <4>. QED  BY <3>2, <4>5, <4>6
    <3>. QED  BY <3>3, <3>4
  <2>. QED  BY <2>1
<1>3. P = Nat
  <2> HIDE DEF P
  <2>1. P \in SUBSET Nat
    BY DEF P
  <2>. QED  BY <1>1, <1>2, <2>1, Induction
<1>4. ASSUME NEW s \in SUBSET S PROVE Any(s)
  <2>1. Cardinality(s) \in P
    BY <1>0, <1>3, OneLess
  <2>2. Cardinality(s) <= Cardinality(s)
    BY <1>0, OneLess
  <2>. QED  BY <2>1, <2>2
<1>. QED  BY <1>4

\* The sum is what any function that adds up says.
LEMMA SumIs ==
  ASSUME NEW f, NEW S, Summable(f, S), NEW g, AddsUp(g, f, S), NEW T \in SUBSET S
  PROVE  SumFunctionOnSet(f, T) = g[T]
<1> DEFINE h == CHOOSE h : AddsUp(h, f, T)
           P == {n \in Nat : \A s \in SUBSET T : Cardinality(s) <= n => h[s] = g[s]}
<1>0. IsFiniteSet(S) /\ IsFiniteSet(T) /\ Summable(f, T)
  BY FS_Subset DEF Summable
<1>1. AddsUp(h, f, T)
  BY <1>0, SumExists
<1>2. SumFunctionOnSet(f, T) = h[T]
  BY SumUnfolds
<1> HIDE DEF h
<1>3. 0 \in P
  <2>1. ASSUME NEW s \in SUBSET T, Cardinality(s) <= 0 PROVE h[s] = g[s]
    <3>1. s = {}
      BY <1>0, <2>1, OneLess
    <3>. QED  BY <1>1, <3>1 DEF AddsUp, Turn
  <2>. QED  BY <2>1
<1>4. ASSUME NEW n \in P PROVE n + 1 \in P
  <2>1. ASSUME NEW s \in SUBSET T, Cardinality(s) <= n + 1 PROVE h[s] = g[s]
    <3>1. CASE s = {}
      BY <1>1, <3>1 DEF AddsUp, Turn
    <3>2. CASE s # {}
      <4>1. PICK c \in s : c = CHOOSE x \in s : TRUE
        BY <3>2
      <4>2. Cardinality(s \ {c}) <= n
        <5>1. Cardinality(s) \in Nat /\ n \in Nat /\ Cardinality(s \ {c}) = Cardinality(s) - 1
          BY <1>0, OneLess
        <5>. QED  BY <2>1, <5>1
      <4>3. h[s \ {c}] = g[s \ {c}]
        BY <4>2
      <4>. QED  BY <1>1, <3>2, <4>1, <4>3 DEF AddsUp, Turn
    <3>. QED  BY <3>1, <3>2
  <2>. QED  BY <2>1
<1>5. P = Nat
  <2> HIDE DEF P
  <2>1. P \in SUBSET Nat
    BY DEF P
  <2>. QED  BY <1>3, <1>4, <2>1, Induction
<1>6. Cardinality(T) \in P /\ Cardinality(T) <= Cardinality(T)
  BY <1>0, <1>5, FS_CardinalityType
<1>7. h[T] = g[T]
  BY <1>6
<1>. QED  BY <1>2, <1>7

-----------------------------------------------------------------------------
(* Sums, one element at a time. *)

THEOREM SumStep ==
  ASSUME NEW f, NEW S, Summable(f, S)
  PROVE  /\ SumFunctionOnSet(f, {}) = 0 /\ SumFunctionOnSet(f, S) \in Int
         /\ \A x \in S : SumFunctionOnSet(f, S) = f[x] + SumFunctionOnSet(f, S \ {x})
<1>1. PICK g \in [SUBSET S -> Int] : AddsUp(g, f, S)
  BY SumExists
<1>2. \A T \in SUBSET S : SumFunctionOnSet(f, T) = g[T]
  BY <1>1, SumIs
<1>3. g[{}] = 0
  BY <1>1 DEF AddsUp, Turn
<1>4. ASSUME NEW x \in S PROVE g[S] = f[x] + g[S \ {x}]
  <2>1. AddsUpInt(g, f, S)
    BY <1>1 DEF AddsUpInt
  <2>2. PICK T \in SUBSET S : T = S
    OBVIOUS
  <2>3. x \in T
    BY <2>2
  <2>4. g[T] = f[x] + g[T \ {x}]
    BY <2>1, <2>3, AnyOrder
  <2>. QED  BY <2>2, <2>4
<1>. QED  BY <1>1, <1>2, <1>3, <1>4

LEMMA SubsetInduction ==
  ASSUME NEW S, IsFiniteSet(S), NEW P \in SUBSET SUBSET S, {} \in P,
         \A T \in P : \A x \in S \ T : T \cup {x} \in P
  PROVE  S \in P
<1> DEFINE N == {n \in Nat : \A T \in SUBSET S : Cardinality(T) <= n => T \in P}
<1>1. 0 \in N
  BY OneLess
<1>2. ASSUME NEW n \in N PROVE n + 1 \in N
  <2>1. ASSUME NEW T \in SUBSET S, Cardinality(T) <= n + 1 PROVE T \in P
    <3>1. CASE T = {}
      BY <3>1
    <3>2. CASE T # {}
      <4>1. PICK x \in T : TRUE
        BY <3>2
      <4>2. Cardinality(T \ {x}) <= n
        <5>1. Cardinality(T) \in Nat /\ n \in Nat /\ Cardinality(T \ {x}) = Cardinality(T) - 1
          BY OneLess
        <5>. QED  BY <2>1, <5>1
      <4>3. T \ {x} \in P
        BY <4>2
      <4>4. (T \ {x}) \cup {x} = T /\ x \in S \ (T \ {x})
        OBVIOUS
      <4>. QED  BY <4>3, <4>4
    <3>. QED  BY <3>1, <3>2
  <2>. QED  BY <2>1
<1>3. N = Nat
  <2> HIDE DEF N
  <2>1. N \in SUBSET Nat
    BY DEF N
  <2>. QED  BY <1>1, <1>2, <2>1, Induction
<1>4. Cardinality(S) \in N /\ Cardinality(S) <= Cardinality(S)
  BY <1>3, FS_CardinalityType
<1>. QED  BY <1>4

\* Sums of two columns.
LEMMA SumAdds ==
  ASSUME NEW f, NEW g, NEW h, NEW S, Summable(f, S), Summable(g, S),
         \A x \in S : h[x] = f[x] + g[x]
  PROVE  SumFunctionOnSet(h, S) = SumFunctionOnSet(f, S) + SumFunctionOnSet(g, S)
<1> DEFINE Adds(T) == SumFunctionOnSet(h, T) = SumFunctionOnSet(f, T) + SumFunctionOnSet(g, T)
           P == {T \in SUBSET S : Adds(T)}
<1>0. IsFiniteSet(S) /\ Summable(h, S)
  BY DEF Summable
<1>1. {} \in P
  BY <1>0, SumStep
<1>2. ASSUME NEW T \in P, NEW x \in S \ T PROVE T \cup {x} \in P
  <2>1. /\ Summable(f, T \cup {x}) /\ Summable(g, T \cup {x}) /\ Summable(h, T \cup {x})
        /\ Summable(f, T) /\ Summable(g, T)
    <3>1. IsFiniteSet(T \cup {x}) /\ IsFiniteSet(T)
      BY <1>0, FS_Subset
    <3>. QED  BY <1>0, <3>1 DEF Summable
  <2>2. PICK U \in SUBSET S : U = T \cup {x}
    OBVIOUS
  <2>3. x \in U /\ U \ {x} = T
    BY <2>2
  <2>4. /\ SumFunctionOnSet(f, U) = f[x] + SumFunctionOnSet(f, T)
        /\ SumFunctionOnSet(g, U) = g[x] + SumFunctionOnSet(g, T)
        /\ SumFunctionOnSet(h, U) = h[x] + SumFunctionOnSet(h, T)
    BY <2>1, <2>2, <2>3, SumStep
  <2>5. SumFunctionOnSet(f, T) \in Int /\ SumFunctionOnSet(g, T) \in Int
    BY <2>1, SumStep
  <2>6. f[x] \in Int /\ g[x] \in Int /\ h[x] = f[x] + g[x]
    BY <1>0 DEF Summable
  <2>7. Adds(T)
    OBVIOUS
  <2>8. Adds(U)
    BY <2>4, <2>5, <2>6, <2>7
  <2>. QED  BY <2>2, <2>8
<1>3. S \in P
  <2> HIDE DEF P
  <2>1. P \in SUBSET SUBSET S
    BY DEF P
  <2>. QED  BY <1>0, <1>1, <1>2, <2>1, SubsetInduction
<1>. QED  BY <1>3

LEMMA SumOfZeros ==
  ASSUME NEW f, NEW S, IsFiniteSet(S), \A x \in S : f[x] = 0
  PROVE  SumFunctionOnSet(f, S) = 0
<1>1. Summable(f, S) /\ \A x \in S : f[x] = f[x] + f[x]
  BY DEF Summable
<1>2. SumFunctionOnSet(f, S) = SumFunctionOnSet(f, S) + SumFunctionOnSet(f, S)
  BY <1>1, SumAdds
<1>3. SumFunctionOnSet(f, S) \in Int
  BY <1>1, SumStep
<1>. QED  BY <1>2, <1>3

LEMMA SumSame ==
  ASSUME NEW f, NEW g, NEW S, Summable(f, S), \A x \in S : f[x] = g[x]
  PROVE  SumFunctionOnSet(f, S) = SumFunctionOnSet(g, S)
<1> DEFINE z == [x \in S |-> 0]
<1>1. IsFiniteSet(S) /\ Summable(z, S) /\ \A x \in S : z[x] = 0 /\ f[x] \in Int
  BY DEF Summable
<1> HIDE DEF z
<1>2. \A x \in S : g[x] = f[x] + z[x]
  BY <1>1
<1>3. SumFunctionOnSet(g, S) = SumFunctionOnSet(f, S) + SumFunctionOnSet(z, S)
  BY <1>1, <1>2, SumAdds
<1>4. SumFunctionOnSet(z, S) = 0 /\ SumFunctionOnSet(f, S) \in Int
  BY <1>1, SumOfZeros, SumStep
<1>. QED  BY <1>3, <1>4

\* A row x changes, comes or goes between f over S and g over T.
OneDiffers(f, S, g, T, x) ==
  /\ Summable(f, S) /\ Summable(g, T) /\ S \ {x} = T \ {x} /\ \A y \in S \ {x} : f[y] = g[y]

\* What row x adds to the sum.
PartOf(f, S, x) == IF x \in S THEN f[x] ELSE 0

\* The sum changes by that row.
THEOREM SumAtOne ==
  ASSUME NEW f, NEW g, NEW S, NEW T, NEW x, OneDiffers(f, S, g, T, x)
  PROVE  /\ SumFunctionOnSet(f, S) - PartOf(f, S, x) = SumFunctionOnSet(g, T) - PartOf(g, T, x)
         /\ SumFunctionOnSet(f, S) \in Int /\ SumFunctionOnSet(g, T) \in Int
<1> DEFINE R == S \ {x}
<1>0. Summable(f, S) /\ Summable(g, T) /\ R = T \ {x} /\ \A y \in R : f[y] = g[y]
  BY DEF OneDiffers
<1>1. Summable(f, R) /\ Summable(g, R)
  <2>1. IsFiniteSet(R)
    BY <1>0, FS_Subset DEF Summable
  <2>. QED  BY <1>0, <2>1 DEF Summable
<1>2. SumFunctionOnSet(f, R) = SumFunctionOnSet(g, R) /\ SumFunctionOnSet(f, R) \in Int
  BY <1>0, <1>1, SumSame, SumStep
<1>3. \A U, h : Summable(h, U) =>
         SumFunctionOnSet(h, U) - (IF x \in U THEN h[x] ELSE 0) = SumFunctionOnSet(h, U \ {x})
  <2>. SUFFICES ASSUME NEW U, NEW h, Summable(h, U)
                PROVE  SumFunctionOnSet(h, U) - (IF x \in U THEN h[x] ELSE 0)
                         = SumFunctionOnSet(h, U \ {x})
    OBVIOUS
  <2>1. Summable(h, U \ {x})
    BY FS_RemoveElement DEF Summable
  <2>2. SumFunctionOnSet(h, U) \in Int /\ SumFunctionOnSet(h, U \ {x}) \in Int
    BY <2>1, SumStep
  <2>3. CASE x \in U
    <3>1. h[x] \in Int /\ SumFunctionOnSet(h, U) = h[x] + SumFunctionOnSet(h, U \ {x})
      BY <2>3, SumStep DEF Summable
    <3>. QED  BY <2>2, <2>3, <3>1
  <2>4. CASE x \notin U
    <3>1. U \ {x} = U
      BY <2>4
    <3>2. SumFunctionOnSet(h, U \ {x}) = SumFunctionOnSet(h, U)
      BY <3>1, Zenon
    <3>. QED  BY <2>2, <2>4, <3>2
  <2>. QED  BY <2>3, <2>4
<1>4. SumFunctionOnSet(f, S) - PartOf(f, S, x) = SumFunctionOnSet(f, R)
  BY <1>0, <1>3 DEF PartOf
<1>5. SumFunctionOnSet(g, T) - PartOf(g, T, x) = SumFunctionOnSet(g, R)
  BY <1>0, <1>3 DEF PartOf
<1>. QED  BY <1>0, <1>2, <1>4, <1>5, SumStep

\* A sum of quantities that are not negative is none of them less.
THEOREM SumOfNaturals ==
  ASSUME NEW f, NEW S, IsFiniteSet(S), \A x \in S : f[x] \in Nat
  PROVE  /\ SumFunctionOnSet(f, S) \in Nat /\ \A x \in S : f[x] <= SumFunctionOnSet(f, S)
         /\ SumFunctionOnSet(f, S) = 0 <=> \A x \in S : f[x] = 0
<1> DEFINE P == {T \in SUBSET S : SumFunctionOnSet(f, T) \in Nat}
<1>0. Summable(f, S) /\ \A T \in SUBSET S : Summable(f, T)
  <2>1. \A T \in SUBSET S : IsFiniteSet(T)
    BY FS_Subset
  <2>. QED  BY <2>1 DEF Summable
<1>1. {} \in P
  BY <1>0, SumStep
<1>2. ASSUME NEW T \in P, NEW x \in S \ T PROVE T \cup {x} \in P
  <2>1. PICK U \in SUBSET S : U = T \cup {x}
    OBVIOUS
  <2>2. x \in U /\ U \ {x} = T /\ Summable(f, U)
    BY <1>0, <2>1
  <2>3. SumFunctionOnSet(f, U) = f[x] + SumFunctionOnSet(f, T)
    BY <2>2, SumStep
  <2>. QED  BY <2>1, <2>3
<1>3. ASSUME NEW T \in SUBSET S PROVE SumFunctionOnSet(f, T) \in Nat
  <2> DEFINE PT == {V \in SUBSET T : V \in P}
  <2>1. IsFiniteSet(T) /\ {} \in PT
    BY <1>0, <1>1 DEF Summable
  <2>2. \A V \in PT : \A x \in T \ V : V \cup {x} \in PT
    BY <1>2
  <2>3. PT \in SUBSET SUBSET T
    OBVIOUS
  <2>4. T \in PT
    <3> HIDE DEF PT
    <3>. QED  BY <2>1, <2>2, <2>3, SubsetInduction
  <2>. QED  BY <2>4
<1>4. ASSUME NEW x \in S PROVE f[x] <= SumFunctionOnSet(f, S)
  <2>1. SumFunctionOnSet(f, S) = f[x] + SumFunctionOnSet(f, S \ {x})
    BY <1>0, SumStep
  <2>2. SumFunctionOnSet(f, S \ {x}) \in Nat
    BY <1>3
  <2>. QED  BY <2>1, <2>2
<1>5. SumFunctionOnSet(f, S) \in Nat
  BY <1>3
<1>6. SumFunctionOnSet(f, S) = 0 => \A x \in S : f[x] = 0
  BY <1>4
<1>7. (\A x \in S : f[x] = 0) => SumFunctionOnSet(f, S) = 0
  BY SumOfZeros
<1>. QED  BY <1>4, <1>5, <1>6, <1>7

=============================================================================
