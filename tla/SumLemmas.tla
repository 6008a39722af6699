----------------------------- MODULE SumLemmas -----------------------------
(***************************************************************************)
(* Induction over the natural numbers and over finite sets, and what it    *)
(* gives: loops (recursive functions on 0..n) exist, and sums over finite  *)
(* sets (SumFunction of the community modules) obey the usual equations.   *)
(***************************************************************************)
EXTENDS Integers, Sequences, FiniteSets, Functions, TLAPS, WellFoundedInduction, FiniteSetTheorems

\* A nonempty set of natural numbers has a least element: the intervals 1..n are
\* finite sets and inclusion of finite sets is well-founded.
LEMMA LeastNatural ==
  ASSUME NEW T, T \subseteq Nat, T # {}
  PROVE  \E x \in T : \A y \in T : x <= y
<1> DEFINE R == StrictSubsetOrdering(Nat)
           F == FiniteSubsetsOf(Nat)
           I == {1..n : n \in T}
<1>1. IsWellFoundedOn(R, F)
  BY FS_StrictSubsetOrderingWellFounded
<1>2. I \subseteq F
  <2> SUFFICES ASSUME NEW n \in T PROVE (1..n) \in F
    OBVIOUS
  <2>1. IsFiniteSet(1..n)
    BY FS_Interval
  <2> QED BY <2>1 DEF FiniteSubsetsOf
<1>3. I # {}
  OBVIOUS
<1>4. PICK a \in I : \A b \in I : ~(<<b, a>> \in R)
  <2> HIDE DEF R, F, I
  <2> QED BY <1>1, <1>2, <1>3, WFMin
<1>5. PICK x \in T : a = 1..x
  OBVIOUS
<1>6. ASSUME NEW y \in T PROVE x <= y
  <2> SUFFICES ASSUME y < x PROVE FALSE
    OBVIOUS
  <2>1. x \in 1..x /\ x \notin 1..y
    OBVIOUS
  <2>2. (1..y) \subseteq (1..x) /\ (1..y) # (1..x)
    BY <2>1
  <2>3. ~(<<1..y, 1..x>> \in R)
    BY <1>4, <1>5
  <2>4. (1..y) \subseteq Nat /\ (1..x) \subseteq Nat
    OBVIOUS
  <2> QED BY <2>2, <2>3, <2>4 DEF StrictSubsetOrdering
<1> QED BY <1>6

\* Induction up to N, for the numbers in a set.
LEMMA Induction ==
  ASSUME NEW N \in Nat, NEW G, 0 \in G,
         \A n \in 0..(N - 1) : n \in G => n + 1 \in G
  PROVE  \A n \in 0..N : n \in G
<1> DEFINE C == {n \in 0..N : n \notin G}
<1> SUFFICES ASSUME C # {} PROVE FALSE
  OBVIOUS
<1>1. PICK x \in C : \A y \in C : x <= y
  <2>1. C \subseteq Nat
    OBVIOUS
  <2> HIDE DEF C
  <2> QED BY <2>1, LeastNatural
<1>2. x # 0 /\ x \in 0..N
  BY <1>1
<1>3. x - 1 \in 0..(N - 1) /\ x - 1 \notin C
  BY <1>1, <1>2
<1> QED BY <1>1, <1>2, <1>3

\* A loop of N rounds over a state of type T, whose round n is step[<<state, n>>].
Rounds(step, N, T) == step \in [T \X (1..N) -> T]

Loops(f, N, T, start, step) ==
  f \in [0..N -> T] /\ f = [n \in 0..N |-> IF n = 0 THEN start ELSE step[<<f[n - 1], n>>]]

LEMMA LoopExists ==
  ASSUME NEW N \in Nat, NEW T, NEW start \in T, NEW step, Rounds(step, N, T)
  PROVE  \E f : Loops(f, N, T, start, step)
<1> USE DEF Rounds
<1> DEFINE Runs(f, k) == \A n \in 0..k : f[n] = IF n = 0 THEN start ELSE step[<<f[n - 1], n>>]
           G == {k \in 0..N : \E f \in [0..N -> T] : Runs(f, k)}
<1>1. 0 \in G
  <2>1. [n \in 0..N |-> start] \in [0..N -> T]
    OBVIOUS
  <2>2. Runs([n \in 0..N |-> start], 0)
    OBVIOUS
  <2> HIDE DEF Runs
  <2> QED BY <2>1, <2>2
<1>2. ASSUME NEW k \in 0..(N - 1), k \in G PROVE k + 1 \in G
  <2>1. PICK f \in [0..N -> T] : Runs(f, k)
    BY <1>2
  <2> DEFINE g == [n \in 0..N |-> IF n = k + 1 THEN step[<<f[k], k + 1>>] ELSE f[n]]
  <2>2. <<f[k], k + 1>> \in T \X (1..N)
    OBVIOUS
  <2>3. g \in [0..N -> T]
    BY <2>2
  <2>4. ASSUME NEW n \in 0..(k + 1)
        PROVE  g[n] = IF n = 0 THEN start ELSE step[<<g[n - 1], n>>]
    <3>1. CASE n = k + 1
      <4>1. n # 0 /\ n \in 0..N /\ k \in 0..N /\ n - 1 = k /\ k # k + 1
        BY <3>1
      <4>2. g[k] = f[k]
        BY <4>1
      <4>3. g[n] = step[<<f[k], n>>]
        BY <3>1, <4>1
      <4> HIDE DEF g
      <4> QED BY <4>1, <4>2, <4>3
    <3>2. CASE n # k + 1
      <4>1. n \in 0..k /\ n \in 0..N
        BY <3>2
      <4>2. g[n] = f[n]
        BY <4>1, <3>2
      <4>3. n # 0 => g[n - 1] = f[n - 1]
        BY <4>1
      <4> HIDE DEF g
      <4> QED BY <2>1, <4>1, <4>2, <4>3
    <3> QED BY <3>1, <3>2
  <2> HIDE DEF g
  <2> QED BY <2>3, <2>4
<1>3. N \in G
  <2> HIDE DEF G
  <2>1. \A n \in 0..N : n \in G
    BY <1>1, <1>2, Induction
  <2> QED BY <2>1
<1>4. PICK f \in [0..N -> T] : Runs(f, N)
  BY <1>3
<1>5. f = [n \in 0..N |-> IF n = 0 THEN start ELSE step[<<f[n - 1], n>>]]
  BY <1>4
<1> QED BY <1>5 DEF Loops

-----------------------------------------------------------------------------
(* Sums.  SumFunction folds a function over the subsets of its domain; the  *)
(* facts below rest on induction over the number of elements.               *)

Pick(T) == CHOOSE x \in T : TRUE

\* What the fold of SumFunction gives the subset T, from what it gives smaller ones.
Round(sum, g, T) == IF T = {} THEN 0 ELSE g[Pick(T)] + sum[T \ {Pick(T)}]

\* The equation the fold of SumFunction solves.
SumsTo(sum, g, S) == sum = [T \in SUBSET S |-> Round(sum, g, T)]

\* sum is that solution for an integer function on a finite set.
Sums(sum, g, S) ==
  IsFiniteSet(S) /\ g \in [S -> Int] /\ sum \in [SUBSET S -> Int] /\ SumsTo(sum, g, S)

LEMMA SumFunctionDef ==
  ASSUME NEW g
  PROVE  SumFunction(g) = (CHOOSE sum : SumsTo(sum, g, DOMAIN g))[DOMAIN g]
BY DEF SumFunction, SumFunctionOnSet, FoldFunctionOnSet, MapThenFoldSet, SumsTo, Round, Pick

\* Removing the picked element leaves a smaller set of the same family.
LEMMA PickSmaller ==
  ASSUME NEW S, IsFiniteSet(S), NEW T \in SUBSET S, T # {}
  PROVE  /\ Pick(T) \in T
         /\ T \ {Pick(T)} \in SUBSET S
         /\ Cardinality(T) \in Nat \ {0}
         /\ Cardinality(T \ {Pick(T)}) = Cardinality(T) - 1
<1>1. Pick(T) \in T
  BY DEF Pick
<1>2. IsFiniteSet(T)
  BY FS_Subset
<1>3. Cardinality(T) \in Nat
  BY <1>2, FS_CardinalityType
<1>4. Cardinality(T) # 0
  BY <1>2, FS_EmptySet
<1>5. Cardinality(T \ {Pick(T)}) = Cardinality(T) - 1
  BY <1>1, <1>2, FS_RemoveElement
<1> QED BY <1>1, <1>3, <1>4, <1>5

LEMMA NoElements ==
  ASSUME NEW S, IsFiniteSet(S), NEW T \in SUBSET S, Cardinality(T) <= 0
  PROVE  T = {}
<1>1. IsFiniteSet(T)
  BY FS_Subset
<1>2. Cardinality(T) \in Nat
  BY <1>1, FS_CardinalityType
<1>3. Cardinality(T) = 0
  BY <1>2
<1> QED BY <1>1, <1>3, FS_EmptySet

\* The fold of SumFunction exists on every finite set.
LEMMA SumExists ==
  ASSUME NEW S, IsFiniteSet(S), NEW g \in [S -> Int]
  PROVE  \E sum \in [SUBSET S -> Int] : SumsTo(sum, g, S)
<1> DEFINE N == Cardinality(S)
           Solves(sum, k) == \A T \in SUBSET S : Cardinality(T) <= k => sum[T] = Round(sum, g, T)
           G == {k \in 0..N : \E sum \in [SUBSET S -> Int] : Solves(sum, k)}
<1>0. N \in Nat
  BY FS_CardinalityType
<1>1. 0 \in G
  <2> DEFINE zero == [T \in SUBSET S |-> 0]
  <2>1. zero \in [SUBSET S -> Int]
    OBVIOUS
  <2>2. ASSUME NEW T \in SUBSET S, Cardinality(T) <= 0 PROVE zero[T] = Round(zero, g, T)
    <3>1. T = {}
      BY <2>2, NoElements
    <3> QED BY <3>1 DEF Round
  <2> HIDE DEF zero
  <2> QED BY <1>0, <2>1, <2>2
<1>2. ASSUME NEW k \in 0..(N - 1), k \in G PROVE k + 1 \in G
  <2>1. PICK sum \in [SUBSET S -> Int] : Solves(sum, k)
    BY <1>2
  <2> DEFINE next == [T \in SUBSET S |-> Round(sum, g, T)]
  <2>2. ASSUME NEW T \in SUBSET S PROVE Round(sum, g, T) \in Int
    <3>1. CASE T = {}
      BY <3>1 DEF Round
    <3>2. CASE T # {}
      <4>1. Pick(T) \in S /\ T \ {Pick(T)} \in SUBSET S
        BY <3>2, PickSmaller
      <4>2. g[Pick(T)] \in Int /\ sum[T \ {Pick(T)}] \in Int
        BY <4>1
      <4> QED BY <3>2, <4>2 DEF Round
    <3> QED BY <3>1, <3>2
  <2>3. next \in [SUBSET S -> Int]
    BY <2>2
  <2>4. ASSUME NEW T \in SUBSET S, Cardinality(T) <= k + 1 PROVE next[T] = Round(next, g, T)
    <3>1. CASE T = {}
      BY <3>1 DEF Round
    <3>2. CASE T # {}
      <4>1. T \ {Pick(T)} \in SUBSET S /\ Cardinality(T \ {Pick(T)}) <= k
        <5>1. Cardinality(T \ {Pick(T)}) = Cardinality(T) - 1 /\ Cardinality(T) \in Nat
          BY <3>2, PickSmaller
        <5>2. k \in Int
          BY <1>0
        <5> QED BY <2>4, <5>1, <5>2
      <4>2. sum[T \ {Pick(T)}] = Round(sum, g, T \ {Pick(T)})
        BY <2>1, <4>1
      <4>3. next[T \ {Pick(T)}] = sum[T \ {Pick(T)}]
        BY <4>1, <4>2
      <4>4. next[T] = g[Pick(T)] + sum[T \ {Pick(T)}]
        BY <3>2 DEF Round
      <4> HIDE DEF next
      <4> QED BY <3>2, <4>3, <4>4 DEF Round
    <3> QED BY <3>1, <3>2
  <2> HIDE DEF next
  <2>5. k + 1 \in 0..N
    BY <1>0
  <2> QED BY <2>3, <2>4, <2>5
<1>3. N \in G
  <2> HIDE DEF G
  <2>1. \A n \in 0..N : n \in G
    BY <1>0, <1>1, <1>2, Induction
  <2> QED BY <1>0, <2>1
<1>4. PICK sum \in [SUBSET S -> Int] : Solves(sum, N)
  BY <1>3
<1>5. ASSUME NEW T \in SUBSET S PROVE sum[T] = Round(sum, g, T)
  <2>1. Cardinality(T) <= N
    BY FS_Subset
  <2> QED BY <1>4, <2>1
<1>6. SumsTo(sum, g, S)
  BY <1>5 DEF SumsTo
<1> QED BY <1>6

\* Any element may be split off a sum.
LEMMA SumSplit ==
  ASSUME NEW S, NEW g, NEW sum, Sums(sum, g, S)
  PROVE  \A T \in SUBSET S : \A x \in T : sum[T] = g[x] + sum[T \ {x}]
<1> USE DEF Sums
<1> DEFINE N == Cardinality(S)
           Splits(T) == \A x \in T : sum[T] = g[x] + sum[T \ {x}]
           G == {k \in 0..N : \A T \in SUBSET S : Cardinality(T) <= k => Splits(T)}
<1>0. N \in Nat
  BY FS_CardinalityType
<1>1. 0 \in G
  <2>1. ASSUME NEW T \in SUBSET S, Cardinality(T) <= 0 PROVE T = {}
    BY <2>1, NoElements
  <2> QED BY <1>0, <2>1
<1>2. ASSUME NEW k \in 0..(N - 1), k \in G PROVE k + 1 \in G
  <2>1. ASSUME NEW T \in SUBSET S, Cardinality(T) <= k + 1, NEW x \in T
        PROVE  sum[T] = g[x] + sum[T \ {x}]
    <3> DEFINE c == Pick(T)
    <3>1. /\ c \in T /\ T \ {c} \in SUBSET S /\ Cardinality(T) \in Nat
          /\ Cardinality(T \ {c}) = Cardinality(T) - 1
      BY PickSmaller
    <3>2. sum[T] = g[c] + sum[T \ {c}]
      <4>1. sum[T] = Round(sum, g, T)
        BY DEF SumsTo
      <4> QED BY <4>1 DEF Round
    <3>3. CASE x = c
      BY <3>2, <3>3
    <3>4. CASE x # c
      <4> DEFINE U == T \ {c}
                 V == T \ {x}
      <4>1. U \in SUBSET S /\ V \in SUBSET S /\ x \in U /\ c \in V
        BY <3>1, <3>4
      <4>2. Cardinality(V) = Cardinality(T) - 1
        <5>1. IsFiniteSet(T)
          BY FS_Subset
        <5> QED BY <5>1, FS_RemoveElement
      <4>3. Cardinality(U) <= k /\ Cardinality(V) <= k
        <5>1. k \in Int
          BY <1>0
        <5> QED BY <5>1, <2>1, <3>1, <4>2
      <4>4. sum[U] = g[x] + sum[U \ {x}]
        BY <1>2, <4>1, <4>3
      <4>5. sum[V] = g[c] + sum[V \ {c}]
        BY <1>2, <4>1, <4>3
      <4>6. U \ {x} = V \ {c} /\ U \ {x} \in SUBSET S
        BY <4>1
      <4>7. sum[U \ {x}] \in Int /\ g[x] \in Int /\ g[c] \in Int
        BY <4>6, <3>1
      <4> HIDE DEF U, V, c
      <4>8. sum[T] = g[c] + (g[x] + sum[U \ {x}]) /\ sum[V] = g[c] + sum[U \ {x}]
        BY <3>2, <4>4, <4>5, <4>6 DEF U
      <4>9. sum[T] = g[x] + sum[V]
        BY <4>7, <4>8
      <4> QED BY <4>9 DEF V
    <3> QED BY <3>3, <3>4
  <2>2. k + 1 \in 0..N
    BY <1>0
  <2> QED BY <2>1, <2>2
<1>3. N \in G
  <2> HIDE DEF G
  <2>1. \A n \in 0..N : n \in G
    BY <1>0, <1>1, <1>2, Induction
  <2> QED BY <1>0, <2>1
<1>4. ASSUME NEW T \in SUBSET S PROVE Splits(T)
  <2>1. Cardinality(T) <= N
    BY FS_Subset
  <2> QED BY <1>3, <2>1
<1> QED BY <1>4

\* Sums of functions that agree on a set agree on it.
LEMMA SumAgree ==
  ASSUME NEW S, IsFiniteSet(S), NEW g \in [S -> Int],
         NEW sum \in [SUBSET S -> Int], SumsTo(sum, g, S),
         NEW R, S \subseteq R, NEW h, \A x \in S : h[x] = g[x],
         NEW other, SumsTo(other, h, R)
  PROVE  \A T \in SUBSET S : sum[T] = other[T]
<1> DEFINE N == Cardinality(S)
           G == {k \in 0..N : \A T \in SUBSET S : Cardinality(T) <= k => sum[T] = other[T]}
<1>0. N \in Nat
  BY FS_CardinalityType
<1>1. ASSUME NEW T \in SUBSET S
      PROVE  sum[T] = Round(sum, g, T) /\ other[T] = Round(other, h, T)
  BY DEF SumsTo
<1>2. 0 \in G
  <2>1. ASSUME NEW T \in SUBSET S, Cardinality(T) <= 0 PROVE sum[T] = other[T]
    <3>1. T = {}
      BY <2>1, NoElements
    <3> QED BY <1>1, <3>1 DEF Round
  <2> QED BY <1>0, <2>1
<1>3. ASSUME NEW k \in 0..(N - 1), k \in G PROVE k + 1 \in G
  <2>1. ASSUME NEW T \in SUBSET S, Cardinality(T) <= k + 1 PROVE sum[T] = other[T]
    <3>1. CASE T = {}
      BY <1>1, <3>1 DEF Round
    <3>2. CASE T # {}
      <4>1. /\ Pick(T) \in S /\ T \ {Pick(T)} \in SUBSET S
            /\ Cardinality(T) \in Nat
            /\ Cardinality(T \ {Pick(T)}) = Cardinality(T) - 1
        BY <3>2, PickSmaller
      <4>2. Cardinality(T \ {Pick(T)}) <= k
        <5>1. k \in Int
          BY <1>0
        <5> QED BY <5>1, <2>1, <4>1
      <4>3. sum[T \ {Pick(T)}] = other[T \ {Pick(T)}]
        BY <1>3, <4>1, <4>2
      <4>4. h[Pick(T)] = g[Pick(T)]
        BY <4>1
      <4> QED BY <1>1, <3>2, <4>3, <4>4 DEF Round
    <3> QED BY <3>1, <3>2
  <2>2. k + 1 \in 0..N
    BY <1>0
  <2> QED BY <2>1, <2>2
<1>4. N \in G
  <2> HIDE DEF G
  <2>1. \A n \in 0..N : n \in G
    BY <1>0, <1>2, <1>3, Induction
  <2> QED BY <1>0, <2>1
<1>5. ASSUME NEW T \in SUBSET S PROVE sum[T] = other[T]
  <2>1. Cardinality(T) <= N
    BY FS_Subset
  <2> QED BY <1>4, <2>1
<1> QED BY <1>5

\* SumFunction is a sum: what it gives a function on a finite set.
LEMMA SumFunctionSums ==
  ASSUME NEW S, IsFiniteSet(S), NEW g \in [S -> Int]
  PROVE  \E sum \in [SUBSET S -> Int] : SumsTo(sum, g, S) /\ SumFunction(g) = sum[S]
<1>1. PICK some \in [SUBSET S -> Int] : SumsTo(some, g, S)
  BY SumExists
<1> DEFINE sum == CHOOSE f : SumsTo(f, g, S)
<1>2. SumsTo(sum, g, S)
  <2>1. \E f : SumsTo(f, g, S)
    BY <1>1
  <2> QED BY <2>1
<1> HIDE DEF sum
<1>3. \A T \in SUBSET S : some[T] = sum[T]
  <2>1. S \subseteq S /\ \A x \in S : g[x] = g[x]
    OBVIOUS
  <2> QED BY <1>1, <1>2, <2>1, SumAgree
<1>4. sum = [T \in SUBSET S |-> Round(sum, g, T)]
  BY <1>2 DEF SumsTo
<1>5. sum \in [SUBSET S -> Int]
  BY <1>3, <1>4
<1>6. SumFunction(g) = sum[S]
  BY SumFunctionDef DEF sum
<1> QED BY <1>2, <1>5, <1>6

\* The sum of an integer function on a finite set is an integer, 0 on no elements.
LEMMA SumType ==
  ASSUME NEW S, IsFiniteSet(S), NEW g \in [S -> Int]
  PROVE  SumFunction(g) \in Int /\ (S = {} => SumFunction(g) = 0)
<1>1. PICK sum \in [SUBSET S -> Int] : SumsTo(sum, g, S) /\ SumFunction(g) = sum[S]
  BY SumFunctionSums
<1>2. sum[S] = Round(sum, g, S)
  BY <1>1 DEF SumsTo
<1> QED BY <1>1, <1>2 DEF Round

\* One element more adds its value.
LEMMA SumAdd ==
  ASSUME NEW S, IsFiniteSet(S), NEW g \in [S -> Int], NEW x, x \notin S,
         NEW h \in [S \cup {x} -> Int], \A s \in S : h[s] = g[s]
  PROVE  SumFunction(h) = SumFunction(g) + h[x]
<1> DEFINE R == S \cup {x}
<1>1. IsFiniteSet(R)
  BY FS_AddElement
<1>2. PICK sum \in [SUBSET S -> Int] : SumsTo(sum, g, S) /\ SumFunction(g) = sum[S]
  BY SumFunctionSums
<1>3. h \in [R -> Int]
  OBVIOUS
<1>4. S \subseteq R /\ x \in R /\ R \ {x} = S /\ R \in SUBSET R /\ S \in SUBSET R /\ S \in SUBSET S
  OBVIOUS
<1> HIDE DEF R
<1>5. PICK all \in [SUBSET R -> Int] : SumsTo(all, h, R) /\ SumFunction(h) = all[R]
  BY <1>1, <1>3, SumFunctionSums
<1>6. all[R] = h[x] + all[S]
  <2>1. Sums(all, h, R)
    BY <1>1, <1>3, <1>5 DEF Sums
  <2>2. all[R] = h[x] + all[R \ {x}]
    BY <1>4, <2>1, SumSplit
  <2> QED BY <1>4, <2>2
<1>7. sum[S] = all[S]
  BY <1>2, <1>4, <1>5, SumAgree
<1>8. h[x] \in Int /\ all[S] \in Int
  BY <1>3, <1>4
<1> QED BY <1>2, <1>5, <1>6, <1>7, <1>8

\* Summing zeros adds nothing: the sum over the elements that count.
LEMMA SumOfSome ==
  ASSUME NEW S, IsFiniteSet(S), NEW g \in [S -> Int], NEW T \in SUBSET S,
         \A x \in S \ T : g[x] = 0, NEW h \in [T -> Int], \A x \in T : h[x] = g[x]
  PROVE  SumFunction(g) = SumFunction(h)
<1>1. PICK sum \in [SUBSET S -> Int] : SumsTo(sum, g, S) /\ SumFunction(g) = sum[S]
  BY SumFunctionSums
<1>2. IsFiniteSet(T)
  BY FS_Subset
<1>3. PICK some \in [SUBSET T -> Int] : SumsTo(some, h, T) /\ SumFunction(h) = some[T]
  BY <1>2, SumFunctionSums
<1>4. some[T] = sum[T]
  <2>1. T \subseteq S /\ (\A x \in T : g[x] = h[x]) /\ T \in SUBSET T
    OBVIOUS
  <2>2. SumsTo(sum, g, S) /\ SumsTo(some, h, T)
    BY <1>1, <1>3
  <2>3. \A U \in SUBSET T : some[U] = sum[U]
    BY <1>2, <1>3, <2>1, <2>2, SumAgree
  <2> QED BY <2>1, <2>3
<1> DEFINE N == Cardinality(S)
           Same(U) == T \subseteq U => sum[U] = sum[T]
           G == {k \in 0..N : \A U \in SUBSET S : Cardinality(U) <= k => Same(U)}
<1>0. N \in Nat
  BY FS_CardinalityType
<1>5. 0 \in G
  <2>1. ASSUME NEW U \in SUBSET S, Cardinality(U) <= 0 PROVE Same(U)
    <3>1. U = {}
      BY <2>1, NoElements
    <3>2. T \subseteq U => T = U
      BY <3>1
    <3> QED BY <3>2
  <2> QED BY <1>0, <2>1
<1>6. ASSUME NEW k \in 0..(N - 1), k \in G PROVE k + 1 \in G
  <2>1. ASSUME NEW U \in SUBSET S, Cardinality(U) <= k + 1, T \subseteq U PROVE sum[U] = sum[T]
    <3>1. CASE U = T
      BY <3>1
    <3>2. CASE U # T
      <4>1. PICK x \in U : x \notin T
        BY <2>1, <3>2
      <4>2. IsFiniteSet(U)
        BY FS_Subset
      <4>3. Cardinality(U \ {x}) = Cardinality(U) - 1 /\ Cardinality(U) \in Nat
        BY <4>1, <4>2, FS_RemoveElement, FS_CardinalityType
      <4>4. Cardinality(U \ {x}) <= k
        <5>1. k \in Int
          BY <1>0
        <5> QED BY <5>1, <2>1, <4>3
      <4>5. U \ {x} \in SUBSET S /\ T \subseteq U \ {x}
        BY <2>1, <4>1
      <4>6. sum[U \ {x}] = sum[T]
        BY <1>6, <4>4, <4>5
      <4>7. sum[U] = g[x] + sum[U \ {x}]
        <5>1. Sums(sum, g, S)
          BY <1>1 DEF Sums
        <5> QED BY <4>1, <5>1, SumSplit
      <4>8. g[x] = 0 /\ sum[U \ {x}] \in Int
        BY <4>1, <4>5
      <4> QED BY <4>6, <4>7, <4>8
    <3> QED BY <3>1, <3>2
  <2>2. k + 1 \in 0..N
    BY <1>0
  <2> QED BY <2>1, <2>2
<1>7. N \in G
  <2> HIDE DEF G
  <2>1. \A n \in 0..N : n \in G
    BY <1>0, <1>5, <1>6, Induction
  <2> QED BY <1>0, <2>1
<1>8. Cardinality(S) <= N /\ S \in SUBSET S
  BY <1>0
<1>9. sum[S] = sum[T]
  BY <1>7, <1>8
<1> QED BY <1>1, <1>3, <1>4, <1>9

\* The function h is g with one more argument x.
Adds(S, x, g, h) == g \in [S -> Int] /\ h \in [S \cup {x} -> Int] /\ \A s \in S : h[s] = g[s]

LEMMA SumAdds ==
  ASSUME NEW S, IsFiniteSet(S), NEW x, x \notin S, NEW g, NEW h, Adds(S, x, g, h)
  PROVE  SumFunction(h) = SumFunction(g) + h[x]
BY SumAdd DEF Adds

\* The sum of the booked quantities with one more execution.
LEMMA SumBooked ==
  ASSUME NEW S, IsFiniteSet(S), NEW x, x \notin S, \A f \in S \cup {x} : f.quantity \in Int
  PROVE  /\ IsFiniteSet(S \cup {x})
         /\ SumFunction([f \in S \cup {x} |-> f.quantity]) = SumFunction([f \in S |-> f.quantity]) + x.quantity
<1> DEFINE g == [f \in S |-> f.quantity]
           h == [f \in S \cup {x} |-> f.quantity]
<1>1. g \in [S -> Int] /\ h \in [S \cup {x} -> Int] /\ (\A f \in S : h[f] = g[f]) /\ h[x] = x.quantity
  OBVIOUS
<1>2. Adds(S, x, g, h)
  BY <1>1 DEF Adds
<1> HIDE DEF g, h
<1>3. SumFunction(h) = SumFunction(g) + h[x]
  BY <1>2, SumAdds
<1>4. IsFiniteSet(S \cup {x})
  BY FS_AddElement
<1> QED BY <1>1, <1>3, <1>4 DEF g, h

=============================================================================
