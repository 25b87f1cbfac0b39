----------------------------- MODULE FoldProofs -----------------------------
(***************************************************************************)
(* What the proofs of several components need of induction, sums and       *)
(* folds.  The induction theorems of the library take an operator; these   *)
(* take the set of the values for which a claim holds.  A fold is a        *)
(* recursive function hidden in an operator: the lemmas here give its      *)
(* equations, after which it need not be expanded again.                   *)
(***************************************************************************)
EXTENDS Integers, Sequences, FiniteSets, SequencesExt, FiniteSetTheorems, WellFoundedInduction, TLAPS

-----------------------------------------------------------------------------
(* Division *)

LEMMA Division ==
    ASSUME NEW n \in Nat, NEW d \in Nat \ {0}
    PROVE  n \div d \in Nat /\ n % d \in 0..d - 1 /\ n = d * (n \div d) + (n % d)
<1>1. n \div d \in Int /\ n % d \in 0..d - 1 /\ n = d * (n \div d) + (n % d)
  OBVIOUS
<1>2. n \div d \in Nat
  BY <1>1
<1> QED
  BY <1>1, <1>2

LEMMA Multiples ==
    ASSUME NEW a \in Int, NEW b \in Int, NEW d \in Nat \ {0}, a < b
    PROVE  d * a + d <= d * b
  OBVIOUS

LEMMA NoLessThanOnce == ASSUME NEW a \in Nat, NEW d \in Nat \ {0} PROVE a <= d * a
  OBVIOUS

LEMMA QuotientBounded == ASSUME NEW n \in Nat, NEW d \in Nat \ {0} PROVE n \div d <= n
  BY Division, NoLessThanOnce

\* Products.
LEMMA Product == ASSUME NEW x \in Nat, NEW y \in Nat PROVE x * y \in Nat
  OBVIOUS
LEMMA ProductsGrow ==
    ASSUME NEW a \in Nat, NEW b \in Nat, NEW k \in Nat, a <= b
    PROVE  a * k \in Nat /\ b * k \in Nat /\ a * k <= b * k
  OBVIOUS
LEMMA NextProduct == ASSUME NEW a \in Int, NEW k \in Int PROVE (a + 1) * k = a * k + k /\ (a - 1) * k = a * k - k
  OBVIOUS

-----------------------------------------------------------------------------
(* Induction *)

\* A set of natural numbers that is not empty has a least element.
LEMMA HasLeast ==
    ASSUME NEW S \in SUBSET Nat, S # {}
    PROVE  \E x \in S : \A y \in S : x <= y
<1> DEFINE R == OpToRel(<, Nat)
<1>1. \A x, y \in Nat : <<x, y>> \in R <=> x < y
  BY DEF OpToRel
<1>2. IsWellFoundedOn(R, Nat)
  BY NatLessThanWellFounded
<1> HIDE DEF R
<1>3. PICK x \in S : \A y \in S : ~(<<y, x>> \in R)
  BY <1>2, WFMin
<1>4. SUFFICES ASSUME NEW y \in S PROVE x <= y
  OBVIOUS
<1>5. x \in Nat /\ y \in Nat /\ ~(<<y, x>> \in R)
  BY <1>3
<1>6. <<y, x>> \in R <=> y < x
  BY <1>1, <1>5, Zenon
<1>7. ~(y < x)
  BY <1>5, <1>6
<1> QED
  BY <1>5, <1>7

\* A set that holds 0, and with every number the next one, holds all.
LEMMA Induction ==
    ASSUME NEW P, 0 \in P, \A n \in Nat : n \in P => n + 1 \in P
    PROVE  Nat \subseteq P
<1> DEFINE N == Nat \ P
<1>1. SUFFICES ASSUME N # {} PROVE FALSE
  OBVIOUS
<1>2. PICK n \in N : \A m \in N : n <= m
  BY <1>1, HasLeast
<1>3. n \in Nat /\ n # 0 /\ n \notin P
  BY <1>2
<1>4. n - 1 \in Nat /\ ~(n <= n - 1) /\ (n - 1) + 1 = n
  BY <1>3
<1>5. n - 1 \notin N
  BY <1>2, <1>4
<1> QED
  BY <1>3, <1>4, <1>5

\* A set of subsets of a finite set that holds a set if it holds what is left of it without
\* any one element, holds all.
LEMMA SubsetInduction ==
    ASSUME NEW S, IsFiniteSet(S), NEW P,
           \A T \in SUBSET S : (\A x \in T : T \ {x} \in P) => T \in P
    PROVE  \A T \in SUBSET S : T \in P
<1> DEFINE Q == {n \in Nat : \A T \in SUBSET S : Cardinality(T) = n => T \in P}
<1>1. \A T \in SUBSET S : IsFiniteSet(T) /\ Cardinality(T) \in Nat
  BY FS_Subset, FS_CardinalityType
<1>2. 0 \in Q
  <2> SUFFICES ASSUME NEW T \in SUBSET S, Cardinality(T) = 0 PROVE T \in P
    OBVIOUS
  <2>1. T = {}
    BY <1>1, FS_EmptySet
  <2> QED
    BY <2>1
<1>3. ASSUME NEW n \in Nat, n \in Q PROVE n + 1 \in Q
  <2> SUFFICES ASSUME NEW T \in SUBSET S, Cardinality(T) = n + 1 PROVE T \in P
    OBVIOUS
  <2>1. ASSUME NEW x \in T PROVE T \ {x} \in P
    <3>1. Cardinality(T \ {x}) = n
      BY <1>1, FS_RemoveElement
    <3> QED
      BY <1>3, <3>1
  <2> QED
    BY <2>1
<1> HIDE DEF Q
<1>4. Nat \subseteq Q
  BY <1>2, <1>3, Induction
<1> QED
  BY <1>1, <1>4 DEF Q

\* A finite set of numbers that is not empty has a greatest element.
LEMMA HasGreatest ==
    ASSUME NEW S \in SUBSET Int, IsFiniteSet(S), S # {}
    PROVE  \E x \in S : \A y \in S : y <= x
<1> DEFINE P == {T \in SUBSET S : T # {} => \E x \in T : \A y \in T : y <= x}
<1>1. ASSUME NEW T \in SUBSET S, \A x \in T : T \ {x} \in P PROVE T \in P
  <2> SUFFICES ASSUME NEW z \in T PROVE \E x \in T : \A y \in T : y <= x
    OBVIOUS
  <2>1. CASE T = {z}
    BY <2>1
  <2>2. CASE T # {z}
    <3>1. PICK x \in T \ {z} : \A y \in T \ {z} : y <= x
      BY <1>1, <2>2
    <3>2. CASE z <= x
      BY <3>1, <3>2
    <3>3. CASE x <= z
      <4>1. \A y \in T : y \in Int /\ z \in Int /\ x \in Int
        BY <3>1
      <4>2. \A y \in T : y <= z
        BY <3>1, <3>3, <4>1
      <4> QED
        BY <4>2
    <3>4. x <= z \/ z <= x
      BY <3>1
    <3> QED
      BY <3>2, <3>3, <3>4
  <2> QED
    BY <2>1, <2>2
<1> HIDE DEF P
<1>2. \A T \in SUBSET S : T \in P
  BY <1>1, SubsetInduction
<1> QED
  BY <1>2 DEF P

-----------------------------------------------------------------------------
(* Sums *)

Some(T) == CHOOSE x \in T : TRUE
\* The recursive function behind SumFunctionOnSet.
IsSum(f, S, g) ==
    g = [T \in SUBSET S |-> IF T = {} THEN 0 ELSE f[Some(T)] + g[T \ {Some(T)}]]

Obeys(f, S, g) ==
    /\ g[{}] = 0
    /\ \A T \in SUBSET S : T # {} => Some(T) \in T /\ g[T] = f[Some(T)] + g[T \ {Some(T)}]

\* It has the values that the recursion gives.
LEMMA SumRecursion ==
    ASSUME NEW f, NEW S, NEW g, IsSum(f, S, g)
    PROVE  Obeys(f, S, g)
  BY DEF IsSum, Some, Obeys

LEMMA SumIsOne ==
    ASSUME NEW f, NEW S, IsFiniteSet(S), NEW g, IsSum(f, S, g), NEW h, IsSum(f, S, h)
    PROVE  g = h
<1>0. Obeys(f, S, g) /\ Obeys(f, S, h)
  BY SumRecursion
<1> DEFINE P == {T \in SUBSET S : g[T] = h[T]}
<1>1. ASSUME NEW T \in SUBSET S, \A x \in T : T \ {x} \in P PROVE T \in P
  <2>1. CASE T = {}
    BY <1>0, <2>1 DEF Obeys
  <2>2. CASE T # {}
    <3>1. /\ Some(T) \in T /\ g[T] = f[Some(T)] + g[T \ {Some(T)}]
          /\ h[T] = f[Some(T)] + h[T \ {Some(T)}]
      BY <1>0, <2>2 DEF Obeys
    <3>2. g[T \ {Some(T)}] = h[T \ {Some(T)}]
      BY <1>1, <3>1
    <3> QED
      BY <3>1, <3>2
  <2> QED
    BY <2>1, <2>2
<1> HIDE DEF P
<1>2. \A T \in SUBSET S : T \in P
  BY <1>1, SubsetInduction
<1>3. g = [T \in SUBSET S |-> g[T]] /\ h = [T \in SUBSET S |-> h[T]]
  BY DEF IsSum
<1> QED
  BY <1>2, <1>3 DEF P

\* The recursion is defined on the sets of up to n elements for every n.
LEMMA SumExists ==
    ASSUME NEW f, NEW S, IsFiniteSet(S)
    PROVE  \E g : IsSum(f, S, g)
<1> DEFINE Small(n) == {T \in SUBSET S : Cardinality(T) <= n}
           Value(h, T) == IF T = {} THEN 0 ELSE f[Some(T)] + h[T \ {Some(T)}]
           Defined(n) == \E h : \A T \in Small(n) : h[T] = Value(h, T)
           Q == {n \in Nat : Defined(n)}
<1>1. \A T \in SUBSET S : IsFiniteSet(T) /\ Cardinality(T) \in Nat
  BY FS_Subset, FS_CardinalityType
<1>2. \A T \in SUBSET S : T # {} => Some(T) \in T /\ Cardinality(T \ {Some(T)}) = Cardinality(T) - 1
  BY <1>1, FS_RemoveElement DEF Some
<1>3. 0 \in Q
  <2> DEFINE h == [T \in SUBSET S |-> 0]
  <2>1. \A T \in Small(0) : T = {} /\ h[T] = 0
    BY <1>1, FS_EmptySet
  <2>2. \A T \in Small(0) : h[T] = Value(h, T)
    BY <2>1
  <2> HIDE DEF h, Small, Value
  <2> QED
    BY <2>2
<1>4. ASSUME NEW n \in Nat, n \in Q PROVE n + 1 \in Q
  <2>1. PICK h : \A T \in Small(n) : h[T] = Value(h, T)
    BY <1>4
  <2> DEFINE k == [T \in Small(n + 1) |-> IF Cardinality(T) <= n THEN h[T] ELSE Value(h, T)]
  <2>2. ASSUME NEW T \in Small(n + 1) PROVE k[T] = Value(k, T)
    <3>1. k[T] = Value(h, T)
      BY <2>1
    <3>2. CASE T = {}
      BY <3>1, <3>2
    <3>3. CASE T # {}
      <4>1. T \ {Some(T)} \in Small(n)
        BY <1>1, <1>2, <3>3
      <4>2. T \ {Some(T)} \in Small(n + 1) /\ Cardinality(T \ {Some(T)}) <= n
        BY <1>1, <4>1
      <4>3. k[T \ {Some(T)}] = h[T \ {Some(T)}]
        BY <4>2
      <4> QED
        BY <3>1, <3>3, <4>3
    <3> QED
      BY <3>2, <3>3
  <2> HIDE DEF k, Small, Value
  <2>3. Defined(n + 1)
    BY <2>2
  <2>4. n + 1 \in Nat
    OBVIOUS
  <2> HIDE DEF Defined
  <2> QED
    BY <2>3, <2>4
<1>5. Defined(Cardinality(S))
  <2> HIDE DEF Defined
  <2>1. \A n \in Nat : n \in Q => n + 1 \in Q
    BY <1>4
  <2> HIDE DEF Q
  <2>2. Nat \subseteq Q
    BY <1>3, <2>1, Induction
  <2> QED
    BY <1>1, <2>2 DEF Q
<1>6. PICK h : \A T \in Small(Cardinality(S)) : h[T] = Value(h, T)
  BY <1>5
<1>7. \A T \in SUBSET S : T \in Small(Cardinality(S))
  BY <1>1, FS_Subset
<1> DEFINE g == [T \in SUBSET S |-> h[T]]
<1>8. \A T \in SUBSET S : g[T] = Value(g, T)
  BY <1>2, <1>6, <1>7
<1>9. g = [T \in SUBSET S |-> g[T]]
  OBVIOUS
<1> QED
  BY <1>8, <1>9 DEF IsSum

\* What SumFunctionOnSet stands for.
LEMMA SumIs ==
    ASSUME NEW f, NEW S, IsFiniteSet(S), NEW g, IsSum(f, S, g)
    PROVE  SumFunctionOnSet(f, S) = g[S]
<1>1. \A h : IsSum(f, S, h) <=> h = g
  BY SumIsOne
<1> QED
  BY <1>1 DEF SumFunctionOnSet, FoldFunctionOnSet, MapThenFoldSet, IsSum, Some

LEMMA SumEmpty == \A f : SumFunctionOnSet(f, {}) = 0
<1> TAKE f
<1>1. IsFiniteSet({})
  BY FS_EmptySet
<1>2. PICK g : IsSum(f, {}, g)
  BY <1>1, SumExists
<1>3. Obeys(f, {}, g) /\ SumFunctionOnSet(f, {}) = g[{}]
  BY <1>1, <1>2, SumIs, SumRecursion
<1> QED
  BY <1>3 DEF Obeys

SumSteps(f, S) == SumFunctionOnSet(f, S) = f[Some(S)] + SumFunctionOnSet(f, S \ {Some(S)})
LEMMA SumStep ==
    ASSUME NEW f, NEW S, IsFiniteSet(S), S # {}
    PROVE  Some(S) \in S /\ SumSteps(f, S)
<1>1. PICK g : IsSum(f, S, g)
  BY SumExists
<1> DEFINE R == S \ {Some(S)}
           h == [T \in SUBSET R |-> g[T]]
<1>2. Obeys(f, S, g)
  BY <1>1, SumRecursion
<1>3. IsSum(f, R, h)
  <2>1. \A T \in SUBSET R : g[T] = IF T = {} THEN 0 ELSE f[Some(T)] + g[T \ {Some(T)}]
    BY <1>2 DEF Obeys
  <2>2. \A T \in SUBSET R : T # {} => T \ {Some(T)} \in SUBSET R
    OBVIOUS
  <2> QED
    BY <2>1, <2>2 DEF IsSum
<1>4. IsFiniteSet(R)
  BY FS_Subset
<1>5. SumFunctionOnSet(f, R) = g[R]
  <2> HIDE DEF h
  <2>1. SumFunctionOnSet(f, R) = h[R]
    BY <1>3, <1>4, SumIs
  <2> QED
    BY <2>1 DEF h
<1>6. SumFunctionOnSet(f, S) = g[S]
  BY <1>1, SumIs
<1> QED
  BY <1>2, <1>5, <1>6 DEF Obeys, SumSteps

\* f is a number for every element of S.
Counts(f, S) == \A x \in S : f[x] \in Int

LEMMA SumType ==
    ASSUME NEW f, NEW S, IsFiniteSet(S), Counts(f, S)
    PROVE  SumFunctionOnSet(f, S) \in Int
<1> DEFINE P == {T \in SUBSET S : SumFunctionOnSet(f, T) \in Int}
<1>1. ASSUME NEW T \in SUBSET S, \A x \in T : T \ {x} \in P PROVE T \in P
  <2>1. CASE T = {}
    BY <2>1, SumEmpty
  <2>2. CASE T # {}
    <3>1. Some(T) \in T /\ SumSteps(f, T)
      BY <2>2, FS_Subset, SumStep
    <3>2. f[Some(T)] \in Int /\ SumFunctionOnSet(f, T \ {Some(T)}) \in Int
      BY <1>1, <3>1 DEF Counts
    <3> QED
      BY <3>1, <3>2 DEF SumSteps
  <2> QED
    BY <2>1, <2>2
<1> HIDE DEF P
<1>2. \A T \in SUBSET S : T \in P
  BY <1>1, SubsetInduction
<1> QED
  BY <1>2 DEF P

\* The sum does not depend on the order: any element may be taken out first.
SumWithout(f, S, x) == SumFunctionOnSet(f, S) = f[x] + SumFunctionOnSet(f, S \ {x})
LEMMA SumRemove ==
    ASSUME NEW f, NEW S, IsFiniteSet(S), Counts(f, S), NEW x \in S
    PROVE  SumWithout(f, S, x)
<1> DEFINE P == {T \in SUBSET S : \A z \in T : SumWithout(f, T, z)}
<1>0. \A T \in SUBSET S : IsFiniteSet(T) /\ Counts(f, T) /\ SumFunctionOnSet(f, T) \in Int
  BY FS_Subset, SumType DEF Counts
<1>1. ASSUME NEW T \in SUBSET S, \A z \in T : T \ {z} \in P PROVE T \in P
  <2> SUFFICES ASSUME NEW z \in T PROVE SumWithout(f, T, z)
    OBVIOUS
  <2> DEFINE y == Some(T)
  <2>1. y \in T /\ SumFunctionOnSet(f, T) = f[y] + SumFunctionOnSet(f, T \ {y})
    BY <1>0, SumStep DEF SumSteps
  <2> HIDE DEF y
  <2>2. CASE y = z
    BY <2>1, <2>2 DEF SumWithout
  <2>3. CASE y # z
    <3> DEFINE R == T \ {y, z}
    <3>1. (T \ {y}) \ {z} = R /\ (T \ {z}) \ {y} = R
      OBVIOUS
    <3> HIDE DEF R
    <3>2. SumFunctionOnSet(f, T \ {y}) = f[z] + SumFunctionOnSet(f, R)
      BY <1>1, <2>1, <2>3, <3>1 DEF SumWithout
    <3>3. SumFunctionOnSet(f, T \ {z}) = f[y] + SumFunctionOnSet(f, R)
      BY <1>1, <2>1, <2>3, <3>1 DEF SumWithout
    <3>4. /\ f[y] \in Int /\ f[z] \in Int /\ SumFunctionOnSet(f, R) \in Int
      BY <1>0, <2>1 DEF Counts, R
    <3> QED
      BY <2>1, <3>2, <3>3, <3>4 DEF SumWithout
  <2> QED
    BY <2>2, <2>3
<1> HIDE DEF P
<1>2. \A T \in SUBSET S : T \in P
  BY <1>1, SubsetInduction
<1> QED
  BY <1>2 DEF P

\* If every term is at most another one, so is the sum.
LEMMA SumMonotone ==
    ASSUME NEW f, NEW g, NEW S, IsFiniteSet(S), Counts(f, S), Counts(g, S),
           \A x \in S : f[x] <= g[x]
    PROVE  SumFunctionOnSet(f, S) <= SumFunctionOnSet(g, S)
<1> DEFINE P == {T \in SUBSET S : SumFunctionOnSet(f, T) <= SumFunctionOnSet(g, T)}
<1>0. \A T \in SUBSET S : /\ IsFiniteSet(T) /\ Counts(f, T) /\ Counts(g, T)
                          /\ SumFunctionOnSet(f, T) \in Int /\ SumFunctionOnSet(g, T) \in Int
  BY FS_Subset, SumType DEF Counts
<1>1. ASSUME NEW T \in SUBSET S, \A x \in T : T \ {x} \in P PROVE T \in P
  <2>1. CASE T = {}
    BY <2>1, SumEmpty
  <2>2. CASE T # {}
    <3>1. PICK x \in T : TRUE
      BY <2>2
    <3>2. /\ SumFunctionOnSet(f, T) = f[x] + SumFunctionOnSet(f, T \ {x})
          /\ SumFunctionOnSet(g, T) = g[x] + SumFunctionOnSet(g, T \ {x})
      BY <1>0, SumRemove DEF SumWithout
    <3>3. SumFunctionOnSet(f, T \ {x}) <= SumFunctionOnSet(g, T \ {x})
      BY <1>1
    <3>4. f[x] \in Int /\ g[x] \in Int /\ f[x] <= g[x]
      BY DEF Counts
    <3>5. SumFunctionOnSet(f, T \ {x}) \in Int /\ SumFunctionOnSet(g, T \ {x}) \in Int
      BY <1>0
    <3> QED
      BY <3>2, <3>3, <3>4, <3>5
  <2> QED
    BY <2>1, <2>2
<1> HIDE DEF P
<1>2. \A T \in SUBSET S : T \in P
  BY <1>1, SubsetInduction
<1> QED
  BY <1>2 DEF P

\* Sums of the same terms are the same.
LEMMA SumSame ==
    ASSUME NEW f, NEW g, NEW S, IsFiniteSet(S), Counts(f, S), \A x \in S : f[x] = g[x]
    PROVE  SumFunctionOnSet(f, S) = SumFunctionOnSet(g, S)
<1>1. Counts(g, S) /\ (\A x \in S : f[x] <= g[x]) /\ (\A x \in S : g[x] <= f[x])
  BY DEF Counts
<1>2. SumFunctionOnSet(f, S) <= SumFunctionOnSet(g, S) /\ SumFunctionOnSet(g, S) <= SumFunctionOnSet(f, S)
  BY <1>1, SumMonotone
<1>3. SumFunctionOnSet(f, S) \in Int /\ SumFunctionOnSet(g, S) \in Int
  BY <1>1, SumType
<1> QED
  BY <1>2, <1>3

\* The sum of numbers that are not negative is none, and no less than any of them.
Natural(f, S) == \A x \in S : f[x] \in Nat
LEMMA SumNat ==
    ASSUME NEW f, NEW S, IsFiniteSet(S), Natural(f, S)
    PROVE  /\ Counts(f, S) /\ SumFunctionOnSet(f, S) \in Nat
           /\ \A x \in S : f[x] <= SumFunctionOnSet(f, S)
           /\ SumFunctionOnSet(f, S) = 0 <=> \A x \in S : f[x] = 0
<1> DEFINE P == {T \in SUBSET S : SumFunctionOnSet(f, T) \in Nat}
<1>0. \A T \in SUBSET S : IsFiniteSet(T) /\ Counts(f, T)
  BY FS_Subset DEF Counts, Natural
<1>1. ASSUME NEW T \in SUBSET S, \A x \in T : T \ {x} \in P PROVE T \in P
  <2>1. CASE T = {}
    BY <2>1, SumEmpty
  <2>2. ASSUME NEW x \in T PROVE T \in P
    <3>1. SumFunctionOnSet(f, T) = f[x] + SumFunctionOnSet(f, T \ {x})
      BY <1>0, SumRemove DEF SumWithout
    <3>2. f[x] \in Nat /\ SumFunctionOnSet(f, T \ {x}) \in Nat
      BY <1>1 DEF Natural
    <3> QED
      BY <3>1, <3>2
  <2> QED
    BY <2>1, <2>2
<1>2. \A T \in SUBSET S : T \in P
  <2> HIDE DEF P
  <2> QED
    BY <1>1, SubsetInduction
<1>3. ASSUME NEW x \in S PROVE f[x] <= SumFunctionOnSet(f, S)
  <2>1. SumFunctionOnSet(f, S) = f[x] + SumFunctionOnSet(f, S \ {x})
    BY <1>0, SumRemove DEF SumWithout
  <2>2. f[x] \in Nat /\ SumFunctionOnSet(f, S \ {x}) \in Nat
    BY <1>2 DEF Natural
  <2> QED
    BY <2>1, <2>2
<1>4. ASSUME \A x \in S : f[x] = 0 PROVE SumFunctionOnSet(f, S) = 0
  <2> DEFINE Z == {T \in SUBSET S : SumFunctionOnSet(f, T) = 0}
  <2>1. ASSUME NEW T \in SUBSET S, \A x \in T : T \ {x} \in Z PROVE T \in Z
    <3>1. CASE T = {}
      BY <3>1, SumEmpty
    <3>2. ASSUME NEW x \in T PROVE T \in Z
      <4>1. SumFunctionOnSet(f, T) = f[x] + SumFunctionOnSet(f, T \ {x})
        BY <1>0, SumRemove DEF SumWithout
      <4>2. f[x] = 0 /\ SumFunctionOnSet(f, T \ {x}) = 0
        BY <1>4, <2>1
      <4> QED
        BY <4>1, <4>2
    <3> QED
      BY <3>1, <3>2
  <2> HIDE DEF Z
  <2>2. \A T \in SUBSET S : T \in Z
    BY <2>1, SubsetInduction
  <2> QED
    BY <2>2 DEF Z
<1>5. SumFunctionOnSet(f, S) \in Nat /\ Counts(f, S)
  BY <1>0, <1>2
<1>6. ASSUME SumFunctionOnSet(f, S) = 0 PROVE \A x \in S : f[x] = 0
  <2> SUFFICES ASSUME NEW x \in S PROVE f[x] = 0
    OBVIOUS
  <2>1. f[x] <= 0 /\ f[x] \in Nat
    BY <1>3, <1>6 DEF Natural
  <2> QED
    BY <2>1
<1> QED
  BY <1>3, <1>4, <1>5, <1>6

\* A union has no more elements than its parts together.
LEMMA UnionBound ==
    ASSUME NEW A, NEW f, NEW S, IsFiniteSet(S), Natural(f, S),
           \A x \in S : IsFiniteSet(A[x]) /\ Cardinality(A[x]) <= f[x]
    PROVE  /\ IsFiniteSet(UNION {A[x] : x \in S})
           /\ Cardinality(UNION {A[x] : x \in S}) <= SumFunctionOnSet(f, S)
<1> DEFINE Whole(T) == UNION {A[x] : x \in T}
           P == {T \in SUBSET S : IsFiniteSet(Whole(T)) /\ Cardinality(Whole(T)) <= SumFunctionOnSet(f, T)}
<1>0. \A T \in SUBSET S : IsFiniteSet(T) /\ Natural(f, T) /\ Counts(f, T) /\ SumFunctionOnSet(f, T) \in Nat
  <2>1. \A T \in SUBSET S : IsFiniteSet(T) /\ Natural(f, T)
    BY FS_Subset DEF Natural
  <2> QED
    BY <2>1, SumNat
<1>1. ASSUME NEW T \in SUBSET S, \A x \in T : T \ {x} \in P PROVE T \in P
  <2>1. CASE T = {}
    <3>1. Whole(T) = {}
      BY <2>1
    <3> HIDE DEF Whole
    <3> QED
      BY <2>1, <3>1, SumEmpty, FS_EmptySet
  <2>2. ASSUME NEW x \in T PROVE T \in P
    <3>1. SumFunctionOnSet(f, T) = f[x] + SumFunctionOnSet(f, T \ {x})
      BY <1>0, SumRemove DEF SumWithout
    <3>2. /\ IsFiniteSet(Whole(T \ {x})) /\ IsFiniteSet(A[x]) /\ Cardinality(A[x]) <= f[x]
          /\ Cardinality(Whole(T \ {x})) <= SumFunctionOnSet(f, T \ {x})
      BY <1>1
    <3>3. Whole(T) = Whole(T \ {x}) \cup A[x]
      OBVIOUS
    <3> HIDE DEF Whole
    <3>4. /\ IsFiniteSet(Whole(T))
          /\ Cardinality(Whole(T)) = Cardinality(Whole(T \ {x})) + Cardinality(A[x])
                                     - Cardinality(Whole(T \ {x}) \cap A[x])
      BY <3>2, <3>3, FS_Union
    <3>5. /\ Cardinality(Whole(T \ {x})) \in Nat /\ Cardinality(A[x]) \in Nat
          /\ Cardinality(Whole(T \ {x}) \cap A[x]) \in Nat
      BY <3>2, FS_CardinalityType, FS_Intersection
    <3>6. f[x] \in Nat /\ SumFunctionOnSet(f, T \ {x}) \in Nat
      BY <1>0 DEF Natural
    <3> QED
      BY <3>1, <3>2, <3>4, <3>5, <3>6
  <2> QED
    BY <2>1, <2>2
<1> HIDE DEF P
<1>2. \A T \in SUBSET S : T \in P
  BY <1>1, SubsetInduction
<1> QED
  BY <1>2 DEF P

\* Terms that are 0 may be left out.
LEMMA SumSupport ==
    ASSUME NEW f, NEW S, IsFiniteSet(S), Counts(f, S), NEW T \in SUBSET S, \A x \in S \ T : f[x] = 0
    PROVE  SumFunctionOnSet(f, S) = SumFunctionOnSet(f, T)
<1> DEFINE P == {U \in SUBSET S : SumFunctionOnSet(f, U) = SumFunctionOnSet(f, U \cap T)}
<1>0. \A U \in SUBSET S : IsFiniteSet(U) /\ Counts(f, U) /\ SumFunctionOnSet(f, U) \in Int
  BY FS_Subset, SumType DEF Counts
<1>1. ASSUME NEW U \in SUBSET S, \A x \in U : U \ {x} \in P PROVE U \in P
  <2>1. CASE U = {}
    <3>1. U \cap T = U
      BY <2>1
    <3> QED
      BY <3>1
  <2>2. ASSUME NEW x \in U PROVE U \in P
    <3>1. SumFunctionOnSet(f, U) = f[x] + SumFunctionOnSet(f, U \ {x})
      BY <1>0, SumRemove DEF SumWithout
    <3>2. /\ SumFunctionOnSet(f, U \ {x}) = SumFunctionOnSet(f, (U \ {x}) \cap T)
          /\ SumFunctionOnSet(f, U \ {x}) \in Int
      BY <1>0, <1>1
    <3>3. CASE x \in T
      <4>1. x \in U \cap T /\ (U \ {x}) \cap T = (U \cap T) \ {x} /\ U \cap T \in SUBSET S
        BY <3>3
      <4>2. SumFunctionOnSet(f, U \cap T) = f[x] + SumFunctionOnSet(f, (U \cap T) \ {x})
        BY <1>0, <4>1, SumRemove DEF SumWithout
      <4> QED
        BY <3>1, <3>2, <4>1, <4>2
    <3>4. CASE x \notin T
      <4>1. (U \ {x}) \cap T = U \cap T /\ f[x] = 0
        BY <3>4
      <4>2. SumFunctionOnSet(f, U) = SumFunctionOnSet(f, U \ {x})
        BY <3>1, <3>2, <4>1
      <4> QED
        BY <3>2, <4>1, <4>2
    <3> QED
      BY <3>3, <3>4
  <2> QED
    BY <2>1, <2>2
<1> HIDE DEF P
<1>2. \A U \in SUBSET S : U \in P
  BY <1>1, SubsetInduction
<1>3. S \in P /\ S \cap T = T
  BY <1>2
<1> QED
  BY <1>3 DEF P

\* A part of a sum of numbers that are not negative is no more than the sum.
LEMMA SumOfPart ==
    ASSUME NEW f, NEW S, IsFiniteSet(S), Natural(f, S), NEW T \in SUBSET S
    PROVE  SumFunctionOnSet(f, T) <= SumFunctionOnSet(f, S)
<1> DEFINE h == [x \in S |-> IF x \in T THEN f[x] ELSE 0]
<1>1. Counts(h, S) /\ Counts(f, S) /\ Counts(f, T) /\ (\A x \in S : h[x] <= f[x])
  BY DEF Natural, Counts
<1>2. \A x \in S \ T : h[x] = 0
  OBVIOUS
<1>3. IsFiniteSet(T) /\ \A x \in T : f[x] = h[x]
  BY FS_Subset
<1> HIDE DEF h
<1>4. SumFunctionOnSet(h, S) <= SumFunctionOnSet(f, S)
  BY <1>1, SumMonotone
<1>5. SumFunctionOnSet(h, S) = SumFunctionOnSet(h, T)
  BY <1>1, <1>2, SumSupport
<1>6. SumFunctionOnSet(f, T) = SumFunctionOnSet(h, T)
  BY <1>1, <1>3, SumSame
<1> QED
  BY <1>4, <1>5, <1>6

\* The elements of a sum may be named by others.
Image(g, U) == {g[x] : x \in U}
LEMMA SumRenamed ==
    ASSUME NEW S, IsFiniteSet(S), NEW g, \A x, y \in S : g[x] = g[y] => x = y,
           NEW f, Counts(f, Image(g, S)), NEW h, \A x \in S : h[x] = f[g[x]]
    PROVE  /\ IsFiniteSet(Image(g, S))
           /\ SumFunctionOnSet(f, Image(g, S)) = SumFunctionOnSet(h, S)
<1> DEFINE P == {U \in SUBSET S :
                    /\ IsFiniteSet(Image(g, U))
                    /\ SumFunctionOnSet(f, Image(g, U)) = SumFunctionOnSet(h, U)}
<1>0. \A U \in SUBSET S : IsFiniteSet(U)
  BY FS_Subset
<1>a. \A U \in SUBSET S : Counts(h, U) /\ Counts(f, Image(g, U))
  BY DEF Counts, Image
<1>1. ASSUME NEW U \in SUBSET S, \A x \in U : U \ {x} \in P PROVE U \in P
  <2>1. CASE U = {}
    <3>1. Image(g, U) = {}
      BY <2>1 DEF Image
    <3> QED
      BY <2>1, <3>1, SumEmpty, FS_EmptySet
  <2>2. ASSUME NEW x \in U PROVE U \in P
    <3>0. IsFiniteSet(U) /\ Counts(h, U) /\ Counts(f, Image(g, U))
      BY <1>0, <1>a
    <3>1. SumFunctionOnSet(h, U) = h[x] + SumFunctionOnSet(h, U \ {x})
      <4>1. SumWithout(h, U, x)
        BY <3>0, SumRemove
      <4> QED
        BY <4>1 DEF SumWithout
    <3>2. /\ IsFiniteSet(Image(g, U \ {x}))
          /\ SumFunctionOnSet(f, Image(g, U \ {x})) = SumFunctionOnSet(h, U \ {x})
      BY <1>1
    <3>3. /\ g[x] \in Image(g, U) /\ Image(g, U) \ {g[x]} = Image(g, U \ {x})
          /\ Image(g, U) = Image(g, U \ {x}) \cup {g[x]} /\ h[x] = f[g[x]]
      BY DEF Image
    <3>4. IsFiniteSet(Image(g, U))
      <4>1. IsFiniteSet(Image(g, U \ {x}) \cup {g[x]})
        BY <3>2, FS_AddElement
      <4> QED
        BY <3>3, <4>1
    <3>5. SumFunctionOnSet(f, Image(g, U)) = f[g[x]] + SumFunctionOnSet(f, Image(g, U) \ {g[x]})
      <4>1. SumWithout(f, Image(g, U), g[x])
        BY <3>0, <3>3, <3>4, SumRemove
      <4> QED
        BY <4>1 DEF SumWithout
    <3> QED
      BY <3>1, <3>2, <3>3, <3>4, <3>5
  <2> QED
    BY <2>1, <2>2
<1> HIDE DEF P
<1>2. \A U \in SUBSET S : U \in P
  BY <1>1, SubsetInduction
<1> QED
  BY <1>2 DEF P

\* A factor of all terms.
LEMMA Distributes == ASSUME NEW a \in Int, NEW b \in Int, NEW k \in Int PROVE (a + b) * k = a * k + b * k
  OBVIOUS
LEMMA SumOfProducts ==
    ASSUME NEW f, NEW h, NEW S, IsFiniteSet(S), Counts(f, S), NEW k \in Int, \A x \in S : h[x] = f[x] * k
    PROVE  SumFunctionOnSet(h, S) = SumFunctionOnSet(f, S) * k
<1> DEFINE P == {U \in SUBSET S : SumFunctionOnSet(h, U) = SumFunctionOnSet(f, U) * k}
<1>0. \A U \in SUBSET S : /\ IsFiniteSet(U) /\ Counts(f, U) /\ Counts(h, U)
                          /\ SumFunctionOnSet(f, U) \in Int
  BY FS_Subset, SumType DEF Counts
<1>1. ASSUME NEW U \in SUBSET S, \A x \in U : U \ {x} \in P PROVE U \in P
  <2>1. CASE U = {}
    BY <2>1, SumEmpty
  <2>2. ASSUME NEW x \in U PROVE U \in P
    <3>1. /\ SumFunctionOnSet(h, U) = h[x] + SumFunctionOnSet(h, U \ {x})
          /\ SumFunctionOnSet(f, U) = f[x] + SumFunctionOnSet(f, U \ {x})
      BY <1>0, SumRemove DEF SumWithout
    <3>2. /\ SumFunctionOnSet(h, U \ {x}) = SumFunctionOnSet(f, U \ {x}) * k
          /\ SumFunctionOnSet(f, U \ {x}) \in Int /\ f[x] \in Int /\ h[x] = f[x] * k
      BY <1>0, <1>1 DEF Counts
    <3>3. (f[x] + SumFunctionOnSet(f, U \ {x})) * k = f[x] * k + SumFunctionOnSet(f, U \ {x}) * k
      BY <3>2, Distributes
    <3> QED
      BY <3>1, <3>2, <3>3
  <2> QED
    BY <2>1, <2>2
<1> HIDE DEF P
<1>2. \A U \in SUBSET S : U \in P
  BY <1>1, SubsetInduction
<1> QED
  BY <1>2 DEF P

\* A sum of sums.
LEMMA SumPlus ==
    ASSUME NEW f, NEW g, NEW h, NEW S, IsFiniteSet(S), Counts(f, S), Counts(g, S),
           \A x \in S : h[x] = f[x] + g[x]
    PROVE  SumFunctionOnSet(h, S) = SumFunctionOnSet(f, S) + SumFunctionOnSet(g, S)
<1> DEFINE P == {U \in SUBSET S :
                    SumFunctionOnSet(h, U) = SumFunctionOnSet(f, U) + SumFunctionOnSet(g, U)}
<1>0. \A U \in SUBSET S : /\ IsFiniteSet(U) /\ Counts(f, U) /\ Counts(g, U) /\ Counts(h, U)
                          /\ SumFunctionOnSet(f, U) \in Int /\ SumFunctionOnSet(g, U) \in Int
  <2>1. \A U \in SUBSET S : IsFiniteSet(U)
    BY FS_Subset
  <2>2. \A U \in SUBSET S : Counts(f, U) /\ Counts(g, U) /\ Counts(h, U)
    BY DEF Counts
  <2> QED
    BY <2>1, <2>2, SumType
<1>1. ASSUME NEW U \in SUBSET S, \A x \in U : U \ {x} \in P PROVE U \in P
  <2>1. CASE U = {}
    BY <2>1, SumEmpty
  <2>2. ASSUME NEW x \in U PROVE U \in P
    <3>1. /\ SumFunctionOnSet(h, U) = h[x] + SumFunctionOnSet(h, U \ {x})
          /\ SumFunctionOnSet(f, U) = f[x] + SumFunctionOnSet(f, U \ {x})
          /\ SumFunctionOnSet(g, U) = g[x] + SumFunctionOnSet(g, U \ {x})
      BY <1>0, SumRemove DEF SumWithout
    <3>2. /\ SumFunctionOnSet(h, U \ {x}) = SumFunctionOnSet(f, U \ {x}) + SumFunctionOnSet(g, U \ {x})
          /\ SumFunctionOnSet(f, U \ {x}) \in Int /\ SumFunctionOnSet(g, U \ {x}) \in Int
          /\ f[x] \in Int /\ g[x] \in Int /\ h[x] = f[x] + g[x]
      BY <1>0, <1>1 DEF Counts
    <3> QED
      BY <3>1, <3>2
  <2> QED
    BY <2>1, <2>2
<1> HIDE DEF P
<1>2. \A U \in SUBSET S : U \in P
  BY <1>1, SubsetInduction
<1> QED
  BY <1>2 DEF P

\* A sum of ones counts the elements; a sum of equal terms is a product.
LEMMA SumOfOnes ==
    ASSUME NEW f, NEW S, IsFiniteSet(S), \A x \in S : f[x] = 1
    PROVE  SumFunctionOnSet(f, S) = Cardinality(S)
<1> DEFINE P == {U \in SUBSET S : SumFunctionOnSet(f, U) = Cardinality(U)}
<1>0. \A U \in SUBSET S : IsFiniteSet(U) /\ Cardinality(U) \in Nat
  <2>1. \A U \in SUBSET S : IsFiniteSet(U)
    BY FS_Subset
  <2> QED
    BY <2>1, FS_CardinalityType
<1>1. ASSUME NEW U \in SUBSET S, \A x \in U : U \ {x} \in P PROVE U \in P
  <2>1. CASE U = {}
    BY <2>1, SumEmpty, FS_EmptySet
  <2>2. ASSUME NEW x \in U PROVE U \in P
    <3>1. SumFunctionOnSet(f, U) = f[x] + SumFunctionOnSet(f, U \ {x})
      <4>1. Counts(f, U)
        BY DEF Counts
      <4> QED
        BY <1>0, <4>1, SumRemove DEF SumWithout
    <3>2. Cardinality(U \ {x}) = Cardinality(U) - 1
      BY <1>0, FS_RemoveElement
    <3>3. SumFunctionOnSet(f, U \ {x}) = Cardinality(U \ {x}) /\ f[x] = 1 /\ Cardinality(U) \in Nat
      BY <1>0, <1>1
    <3> QED
      BY <3>1, <3>2, <3>3
  <2> QED
    BY <2>1, <2>2
<1> HIDE DEF P
<1>2. \A U \in SUBSET S : U \in P
  BY <1>1, SubsetInduction
<1> QED
  BY <1>2 DEF P

LEMMA SumOfSame ==
    ASSUME NEW f, NEW S, IsFiniteSet(S), NEW k \in Int, \A x \in S : f[x] = k
    PROVE  SumFunctionOnSet(f, S) = Cardinality(S) * k
<1> DEFINE one == [x \in S |-> 1]
<1>1. Counts(one, S) /\ (\A x \in S : one[x] = 1) /\ \A x \in S : f[x] = one[x] * k
  BY DEF Counts
<1> HIDE DEF one
<1>2. SumFunctionOnSet(one, S) = Cardinality(S)
  BY <1>1, SumOfOnes
<1>3. SumFunctionOnSet(f, S) = SumFunctionOnSet(one, S) * k
  BY <1>1, SumOfProducts
<1> QED
  BY <1>2, <1>3

\* Of elements in a line, no more than k have fewer than k ahead of them.
InLine(S, ahead) ==
    /\ ahead \in [S -> SUBSET S]
    /\ \A i \in S : i \notin ahead[i]
    /\ \A i, j \in S : j \in ahead[i] => ahead[j] \subseteq ahead[i]
    /\ \A i, j \in S : i = j \/ i \in ahead[j] \/ j \in ahead[i]
Foremost(S, ahead, k) == {i \in S : Cardinality(ahead[i]) < k}
LEMMA FirstOfALine ==
    ASSUME NEW S, IsFiniteSet(S), NEW ahead, InLine(S, ahead), NEW k \in Nat
    PROVE  /\ IsFiniteSet(Foremost(S, ahead, k)) /\ Cardinality(Foremost(S, ahead, k)) \in Nat
           /\ Cardinality(Foremost(S, ahead, k)) <= k
<1> DEFINE first == {i \in S : Cardinality(ahead[i]) < k}
           ranks == {Cardinality(ahead[i]) : i \in first}
<1>0. first = Foremost(S, ahead, k)
  BY DEF Foremost
<1>a. /\ ahead \in [S -> SUBSET S]
      /\ \A i \in S : i \notin ahead[i]
      /\ \A i, j \in S : j \in ahead[i] => ahead[j] \subseteq ahead[i]
      /\ \A i, j \in S : i = j \/ i \in ahead[j] \/ j \in ahead[i]
  BY DEF InLine
<1>1. IsFiniteSet(first)
  BY FS_Subset
<1>2. Cardinality(first) \in Nat
  BY <1>1, FS_CardinalityType
<1>3. ASSUME NEW i \in S PROVE IsFiniteSet(ahead[i]) /\ Cardinality(ahead[i]) \in Nat
  <2>1. IsFiniteSet(ahead[i])
    BY <1>a, FS_Subset
  <2> QED
    BY <2>1, FS_CardinalityType
<1>4. CASE first = {}
  BY <1>0, <1>1, <1>4, FS_EmptySet
<1>5. CASE first # {}
  <2>1. ranks \in SUBSET Int /\ ranks \in SUBSET (0..k) /\ ranks # {}
    BY <1>3, <1>5
  <2>2. IsFiniteSet(ranks)
    <3>1. IsFiniteSet(0..k)
      BY FS_Interval
    <3> QED
      BY <2>1, <3>1, FS_Subset
  <2>3. \E x \in ranks : \A y \in ranks : y <= x
    <3> HIDE DEF ranks
    <3> QED
      BY <2>1, <2>2, HasGreatest
  <2>4. PICK m \in first : \A j \in first : Cardinality(ahead[j]) <= Cardinality(ahead[m])
    BY <2>3
  <2>5. ASSUME NEW j \in first, j # m PROVE j \in ahead[m]
    <3> SUFFICES ASSUME m \in ahead[j] PROVE FALSE
      BY <1>a, <2>5
    <3>1. ahead[m] \cup {m} \subseteq ahead[j] /\ m \notin ahead[m]
      BY <1>a
    <3>2. Cardinality(ahead[m] \cup {m}) = Cardinality(ahead[m]) + 1
      BY <1>3, <3>1, FS_AddElement
    <3>3. Cardinality(ahead[m] \cup {m}) <= Cardinality(ahead[j])
      BY <1>3, <3>1, FS_Subset
    <3>4. Cardinality(ahead[j]) <= Cardinality(ahead[m]) /\ Cardinality(ahead[m]) \in Nat /\ Cardinality(ahead[j]) \in Nat
      BY <1>3, <2>4
    <3> QED
      BY <3>2, <3>3, <3>4
  <2>6. Cardinality(first \ {m}) <= Cardinality(ahead[m])
    <3>1. first \ {m} \subseteq ahead[m] /\ IsFiniteSet(ahead[m])
      BY <1>3, <2>5
    <3> QED
      BY <3>1, FS_Subset
  <2>7. Cardinality(first \ {m}) = Cardinality(first) - 1
    BY <1>1, FS_RemoveElement
  <2>8. Cardinality(ahead[m]) < k /\ Cardinality(ahead[m]) \in Nat
    BY <1>3
  <2> QED
    <3>1. Cardinality(first) <= k
      BY <1>2, <2>6, <2>7, <2>8
    <3> QED
      BY <1>0, <1>1, <1>2, <3>1
<1> QED
  BY <1>0, <1>1, <1>2, <1>4, <1>5

-----------------------------------------------------------------------------
(* Folds from the left *)

\* What FoldLeft does with the first n elements of a sequence, as a function of a step: st
\* gives for what has come out so far and the next position what comes out then.
IsFold(base, n, st, g) ==
    /\ g[{}] = base
    /\ \A T \in SUBSET (1..n) : T # {} => g[T] = st[<<g[T \ {Max(T)}], Max(T)>>]

LEMMA MaxIs ==
    ASSUME NEW S \in SUBSET Int, IsFiniteSet(S), S # {}
    PROVE  Max(S) \in S /\ \A x \in S : x <= Max(S)
<1>1. \E x \in S : \A y \in S : x >= y
  BY HasGreatest
<1>2. Max(S) \in S /\ \A y \in S : Max(S) >= y
  BY <1>1 DEF Max
<1> QED
  BY <1>2

LEMMA PairIsFinite == ASSUME NEW a, NEW b PROVE IsFiniteSet({a, b})
<1>1. IsFiniteSet({} \cup {a})
  BY FS_EmptySet, FS_AddElement
<1>2. IsFiniteSet(({} \cup {a}) \cup {b})
  BY <1>1, FS_AddElement
<1>3. ({} \cup {a}) \cup {b} = {a, b}
  OBVIOUS
<1> QED
  BY <1>2, <1>3

LEMMA SubsetOfInterval ==
    ASSUME NEW n \in Nat, NEW T \in SUBSET (1..n)
    PROVE  /\ IsFiniteSet(T) /\ T \in SUBSET Int
           /\ T # {} => Max(T) \in T /\ Max(T) \in 1..n /\ \A x \in T : x <= Max(T)
<1>1. IsFiniteSet(1..n)
  BY FS_Interval
<1>2. IsFiniteSet(T)
  BY <1>1, FS_Subset
<1>3. T \in SUBSET Int
  OBVIOUS
<1>4. T # {} => Max(T) \in T /\ \A x \in T : x <= Max(T)
  BY <1>2, <1>3, MaxIs
<1> QED
  BY <1>2, <1>3, <1>4

LEMMA FoldExists ==
    ASSUME NEW A, NEW base \in A, NEW n \in Nat, NEW st \in [A \X (1..n) -> A]
    PROVE  \E g \in [SUBSET (1..n) -> A] : IsFold(base, n, st, g)
<1> DEFINE S == 1..n
           Small(m) == {T \in SUBSET S : Cardinality(T) <= m}
           Value(h, T) == IF T = {} THEN base ELSE st[<<h[T \ {Max(T)}], Max(T)>>]
           Defined(m) == \E h \in [SUBSET S -> A] : \A T \in Small(m) : h[T] = Value(h, T)
           Q == {m \in Nat : Defined(m)}
<1>1. \A T \in SUBSET S : IsFiniteSet(T) /\ Cardinality(T) \in Nat
  BY SubsetOfInterval, FS_CardinalityType
<1>2. \A T \in SUBSET S : T # {} =>
         Max(T) \in S /\ T \ {Max(T)} \in SUBSET S /\ Cardinality(T \ {Max(T)}) = Cardinality(T) - 1
  BY <1>1, SubsetOfInterval, FS_RemoveElement
<1>3. \A h \in [SUBSET S -> A], T \in SUBSET S : Value(h, T) \in A
  BY <1>2
<1>4. 0 \in Q
  <2> DEFINE h == [T \in SUBSET S |-> base]
  <2>1. \A T \in Small(0) : T = {} /\ h[T] = base
    BY <1>1, FS_EmptySet
  <2>2. \A T \in Small(0) : h[T] = Value(h, T)
    BY <2>1
  <2>3. h \in [SUBSET S -> A]
    OBVIOUS
  <2> HIDE DEF h, Small, Value
  <2> QED
    BY <2>2, <2>3
<1>5. ASSUME NEW m \in Nat, m \in Q PROVE m + 1 \in Q
  <2>1. PICK h \in [SUBSET S -> A] : \A T \in Small(m) : h[T] = Value(h, T)
    BY <1>5
  <2> DEFINE k == [T \in SUBSET S |-> IF Cardinality(T) <= m THEN h[T] ELSE Value(h, T)]
  <2>2. ASSUME NEW T \in Small(m + 1) PROVE k[T] = Value(k, T)
    <3>1. k[T] = Value(h, T)
      BY <2>1
    <3>2. CASE T = {}
      BY <3>1, <3>2
    <3>3. CASE T # {}
      <4>1. T \ {Max(T)} \in SUBSET S /\ Cardinality(T \ {Max(T)}) <= m
        BY <1>1, <1>2, <3>3
      <4>2. k[T \ {Max(T)}] = h[T \ {Max(T)}]
        BY <4>1
      <4> QED
        BY <3>1, <3>3, <4>2
    <3> QED
      BY <3>2, <3>3
  <2>3. k \in [SUBSET S -> A]
    <3> HIDE DEF Value, S
    <3> QED
      BY <1>3
  <2> HIDE DEF k, Small, Value
  <2>4. Defined(m + 1)
    BY <2>2, <2>3
  <2>5. m + 1 \in Nat
    OBVIOUS
  <2> HIDE DEF Defined
  <2> QED
    BY <2>4, <2>5
<1>6. Defined(Cardinality(S))
  <2> HIDE DEF Defined
  <2>1. \A m \in Nat : m \in Q => m + 1 \in Q
    BY <1>5
  <2> HIDE DEF Q
  <2>2. Nat \subseteq Q
    BY <1>4, <2>1, Induction
  <2> QED
    BY <1>1, <2>2 DEF Q
<1>7. PICK h \in [SUBSET S -> A] : \A T \in Small(Cardinality(S)) : h[T] = Value(h, T)
  BY <1>6
<1>8. \A T \in SUBSET S : T \in Small(Cardinality(S))
  BY <1>1, FS_Subset
<1>9. \A T \in SUBSET S : h[T] = Value(h, T)
  BY <1>7, <1>8
<1> QED
  BY <1>9 DEF IsFold

\* The fold of the first i elements comes from that of one less.
Prefix(base, n, st, g) ==
    /\ g[1..0] = base
    /\ \A i \in 1..n : g[1..i] = st[<<g[1..(i - 1)], i>>]
LEMMA FoldOfPrefixes ==
    ASSUME NEW base, NEW n \in Nat, NEW st, NEW g, IsFold(base, n, st, g)
    PROVE  Prefix(base, n, st, g)
<1>1. 1..0 = {}
  OBVIOUS
<1>2. ASSUME NEW i \in 1..n PROVE g[1..i] = st[<<g[1..(i - 1)], i>>]
  <2>1. 1..i \in SUBSET (1..n) /\ 1..i # {} /\ i \in 1..i
    OBVIOUS
  <2>2. Max(1..i) \in 1..i /\ i <= Max(1..i)
    BY <2>1, SubsetOfInterval
  <2>3. Max(1..i) = i
    BY <2>2
  <2>4. (1..i) \ {i} = 1..(i - 1)
    OBVIOUS
  <2> QED
    BY <2>1, <2>3, <2>4 DEF IsFold
<1> QED
  BY <1>1, <1>2 DEF IsFold, Prefix

=============================================================================
