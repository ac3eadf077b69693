---------------------------- MODULE SetTheorems ----------------------------
(***************************************************************************)
(* Facts about the least and the greatest number of a set, and about the   *)
(* sum of a function over a finite set.                                    *)
(*                                                                         *)
(* A set stands for a predicate here: what a proof by induction shows of   *)
(* every subset is that the set of those that have it leaves none out.     *)
(***************************************************************************)
EXTENDS FiniteSetsExt, FiniteSetTheorems, TLAPS

\* Induction: a set that has 0, and n + 1 with each n, has every number.
LEMMA EveryNumber ==
  ASSUME NEW P, 0 \in P, \A n \in Nat : n \in P => n + 1 \in P
  PROVE  Nat \subseteq P
<1> DEFINE T == {n \in Nat : n \notin P}
           R == OpToRel(<, Nat)
<1> SUFFICES ASSUME T # {} PROVE FALSE
  OBVIOUS
<1>1. T \subseteq Nat /\ IsWellFoundedOn(R, Nat)
  BY NatLessThanWellFounded
<1> HIDE DEF R
<1>2. PICK n \in T : \A m \in T : <<m, n>> \notin R
  BY <1>1, WFMin
<1>3. \A m \in Nat : m < n => m \in P
  BY <1>2 DEF R, OpToRel
<1>4. n # 0 /\ n - 1 \in Nat /\ n - 1 < n /\ (n - 1) + 1 = n
  BY <1>2
<1> QED
  BY <1>2, <1>3, <1>4

\* The least number of a set that is not empty.
THEOREM MinIsLeast ==
  ASSUME NEW S, S \subseteq Nat, S # {}
  PROVE  Min(S) \in S /\ \A y \in S : Min(S) =< y
<1> DEFINE P == {n \in Nat : \A m \in 0..n : m \notin S}
<1> SUFFICES ASSUME ~\E x \in S : \A y \in S : x =< y PROVE FALSE
  BY DEF Min
<1>1. 0 \in P
  OBVIOUS
<1>2. ASSUME NEW n \in Nat, n \in P PROVE n + 1 \in P
  <2>1. \A y \in S : n + 1 =< y
    BY <1>2
  <2>2. n + 1 \notin S
    BY <2>1
  <2> QED
    BY <1>2, <2>2
<1> HIDE DEF P
<1>3. Nat \subseteq P
  BY <1>1, <1>2, EveryNumber
<1>4. PICK x \in S : TRUE
  OBVIOUS
<1>5. x \in P /\ x \in 0..x
  BY <1>3, <1>4
<1> QED
  BY <1>4, <1>5 DEF P

\* The greatest number of a set that is not empty.
THEOREM MaxIsGreatest ==
  ASSUME NEW S, NEW n \in Nat, S \subseteq 0..n, S # {}
  PROVE  Max(S) \in S /\ \A y \in S : Max(S) >= y
<1> DEFINE T == {n - x : x \in S}
<1>1. T \subseteq Nat /\ T # {}
  <2>1. \A x \in S : n - x \in Nat
    OBVIOUS
  <2> QED
    BY <2>1
<1>2. Min(T) \in T /\ \A y \in T : Min(T) =< y
  BY <1>1, MinIsLeast
<1>3. PICK x \in S : Min(T) = n - x
  BY <1>2
<1>4. \A y \in S : x >= y
  BY <1>2, <1>3
<1> QED
  BY <1>3, <1>4 DEF Max

\* Induction: a family that has each set all of whose smaller subsets it has, has
\* every subset.
LEMMA EverySubset ==
  ASSUME NEW S, IsFiniteSet(S), NEW P,
         \A s \in SUBSET S : (\A t \in SUBSET s : t # s => t \in P) => s \in P
  PROVE  SUBSET S \subseteq P
<1> DEFINE T == {s \in SUBSET S : s \notin P}
           R == StrictSubsetOrdering(S)
<1> SUFFICES ASSUME T # {} PROVE FALSE
  OBVIOUS
<1>1. IsWellFoundedOn(R, SUBSET S)
  <2>1. IsWellFoundedOn(StrictSubsetOrdering(S), FiniteSubsetsOf(S))
    BY FS_StrictSubsetOrderingWellFounded
  <2>2. FiniteSubsetsOf(S) = SUBSET S
    BY FS_FiniteSubsetsOfFinite
  <2> QED
    BY <2>1, <2>2
<1>2. T \subseteq SUBSET S
  OBVIOUS
<1> HIDE DEF R, T
<1>3. PICK s \in T : \A t \in T : <<t, s>> \notin R
  BY <1>1, <1>2, WFMin
<1>4. s \in SUBSET S /\ s \notin P
  BY DEF T
<1>5. \A t \in SUBSET s : t # s => t \in P
  BY <1>3, <1>4 DEF R, StrictSubsetOrdering, T
<1> QED
  BY <1>4, <1>5

\* The sum is a choice among the functions that satisfy its recursion on the subsets.
AnyOf(s) == CHOOSE x \in s : TRUE
SumStep(f, g, D) == [s \in D |-> IF s = {} THEN 0 ELSE f[AnyOf(s)] + g[s \ {AnyOf(s)}]]

LEMMA SumIsAChoice ==
  ASSUME NEW f, NEW S
  PROVE  SumFunctionOnSet(f, S) = (CHOOSE g : g = SumStep(f, g, SUBSET S))[S]
BY DEF SumFunctionOnSet, FoldFunctionOnSet, MapThenFoldSet, SumStep, AnyOf

\* The element that is taken out is one of the set's.
LEMMA OneIsIn == \A s : s # {} => AnyOf(s) \in s
BY DEF AnyOf

\* There is one, which is built up from the smaller subsets.
LEMMA StepHasAFixpoint ==
  ASSUME NEW f, NEW S, IsFiniteSet(S)
  PROVE  \E g : g = SumStep(f, g, SUBSET S)
<1> DEFINE D(n) == {s \in SUBSET S : Cardinality(s) <= n}
           P == {n \in Nat : \E g : g = SumStep(f, g, D(n))}
<1>0. \A s \in SUBSET S : IsFiniteSet(s) /\ Cardinality(s) \in Nat
  BY FS_Subset, FS_CardinalityType
<1>1. \A n \in Nat : \A s \in D(n + 1) : s # {} => s \ {AnyOf(s)} \in D(n)
  BY <1>0, OneIsIn, FS_RemoveElement
<1>2. 0 \in P
  <2>1. \A s \in D(0) : s = {}
    BY <1>0, FS_EmptySet
  <2> DEFINE g == [s \in D(0) |-> 0]
  <2>2. g = SumStep(f, g, D(0))
    BY <2>1 DEF SumStep
  <2> QED
    BY <2>2
<1>3. ASSUME NEW n \in Nat, n \in P
      PROVE  n + 1 \in P
  <2>1. PICK g : g = SumStep(f, g, D(n))
    BY <1>3
  <2> DEFINE h == SumStep(f, g, D(n + 1))
  <2>2. D(n) \subseteq D(n + 1)
    BY <1>0
  <2> HIDE DEF D
  <2>3. \A s \in D(n) : h[s] = g[s]
    BY <2>1, <2>2 DEF SumStep
  <2>4. h = SumStep(f, h, D(n + 1))
    BY <1>1, <2>3 DEF SumStep
  <2> QED
    BY <2>4
<1>4. Cardinality(S) \in P
  BY <1>0, <1>2, <1>3, EveryNumber
<1>5. D(Cardinality(S)) = SUBSET S
  BY FS_Subset
<1> QED
  BY <1>4, <1>5

\* What is chosen satisfies the recursion.
LEMMA Recursion ==
  ASSUME NEW f, NEW S, IsFiniteSet(S)
  PROVE  \E g : g = SumStep(f, g, SUBSET S) /\ SumFunctionOnSet(f, S) = g[S]
<1> DEFINE g == CHOOSE x : x = SumStep(f, x, SUBSET S)
<1>1. g = SumStep(f, g, SUBSET S)
  BY StepHasAFixpoint
<1> QED
  BY <1>1, SumIsAChoice

\* What the recursion gives for a subset is the sum over that subset.
LEMMA SumsAgree ==
  ASSUME NEW f, NEW S, IsFiniteSet(S), NEW T \in SUBSET S,
         NEW g, g = SumStep(f, g, SUBSET S)
  PROVE  g[T] = SumFunctionOnSet(f, T)
<1>1. IsFiniteSet(T)
  BY FS_Subset
<1>2. PICK h : h = SumStep(f, h, SUBSET T) /\ SumFunctionOnSet(f, T) = h[T]
  BY <1>1, Recursion
<1> DEFINE P == {s \in SUBSET T : g[s] = h[s]}
<1>3. ASSUME NEW s \in SUBSET T, \A t \in SUBSET s : t # s => t \in P
      PROVE  s \in P
  <2>1. g[s] = IF s = {} THEN 0 ELSE f[AnyOf(s)] + g[s \ {AnyOf(s)}]
    BY DEF SumStep
  <2>2. h[s] = IF s = {} THEN 0 ELSE f[AnyOf(s)] + h[s \ {AnyOf(s)}]
    BY <1>2 DEF SumStep
  <2>3. s # {} => s \ {AnyOf(s)} \in SUBSET s /\ s \ {AnyOf(s)} # s
    BY OneIsIn
  <2>4. s # {} => s \ {AnyOf(s)} \in P
    BY <1>3, <2>3
  <2> QED
    BY <2>1, <2>2, <2>4
<1> HIDE DEF P
<1>4. SUBSET T \subseteq P
  BY <1>1, <1>3, EverySubset
<1> QED
  BY <1>2, <1>4 DEF P

\* A sum over nothing, and a sum with one element taken out.
THEOREM SumOfNone == \A f : SumFunctionOnSet(f, {}) = 0
<1> TAKE f
<1>1. PICK g : g = SumStep(f, g, SUBSET {}) /\ SumFunctionOnSet(f, {}) = g[{}]
  BY Recursion, FS_EmptySet
<1> QED
  BY <1>1 DEF SumStep

\* One step of the recursion.
LEMMA SumOfSome ==
  ASSUME NEW f, NEW S, IsFiniteSet(S), S # {}
  PROVE  SumFunctionOnSet(f, S) = f[AnyOf(S)] + SumFunctionOnSet(f, S \ {AnyOf(S)})
<1>1. PICK g : g = SumStep(f, g, SUBSET S) /\ SumFunctionOnSet(f, S) = g[S]
  BY Recursion
<1>2. g[S] = f[AnyOf(S)] + g[S \ {AnyOf(S)}]
  BY <1>1 DEF SumStep
<1>3. g[S \ {AnyOf(S)}] = SumFunctionOnSet(f, S \ {AnyOf(S)})
  BY <1>1, SumsAgree
<1> QED
  BY <1>1, <1>2, <1>3

\* Integers have an integer for their sum.
THEOREM SumIsAnInteger ==
  ASSUME NEW f, NEW S, IsFiniteSet(S), \A x \in S : f[x] \in Int
  PROVE  SumFunctionOnSet(f, S) \in Int
<1> DEFINE P == {s \in SUBSET S : SumFunctionOnSet(f, s) \in Int}
<1>1. ASSUME NEW s \in SUBSET S, \A t \in SUBSET s : t # s => t \in P
      PROVE  s \in P
  <2>1. CASE s = {}
    BY <2>1, SumOfNone
  <2>2. CASE s # {}
    <3>1. AnyOf(s) \in s
      BY <2>2, OneIsIn
    <3>2. s \ {AnyOf(s)} \in P
      BY <1>1, <3>1
    <3>3. SumFunctionOnSet(f, s) = f[AnyOf(s)] + SumFunctionOnSet(f, s \ {AnyOf(s)})
      BY <2>2, SumOfSome, FS_Subset
    <3> QED
      BY <3>1, <3>2, <3>3
  <2> QED
    BY <2>1, <2>2
<1> HIDE DEF P
<1>2. SUBSET S \subseteq P
  BY <1>1, EverySubset
<1> QED
  BY <1>2 DEF P

\* It does not matter which element is taken out.
THEOREM SumWithout ==
  ASSUME NEW f, NEW S, IsFiniteSet(S), \A x \in S : f[x] \in Int, NEW x \in S
  PROVE  SumFunctionOnSet(f, S) = f[x] + SumFunctionOnSet(f, S \ {x})
<1> DEFINE P == {s \in SUBSET S : \A y \in s :
                   SumFunctionOnSet(f, s) = f[y] + SumFunctionOnSet(f, s \ {y})}
<1>1. ASSUME NEW s \in SUBSET S, \A t \in SUBSET s : t # s => t \in P, NEW y \in s
      PROVE  SumFunctionOnSet(f, s) = f[y] + SumFunctionOnSet(f, s \ {y})
  <2> DEFINE z == AnyOf(s)
  <2>1. z \in s
    BY OneIsIn
  <2>2. SumFunctionOnSet(f, s) = f[z] + SumFunctionOnSet(f, s \ {z})
    BY SumOfSome, FS_Subset
  <2> HIDE DEF z
  <2>3. CASE y = z
    BY <2>2, <2>3
  <2>4. CASE y # z
    <3>1. SumFunctionOnSet(f, s \ {z}) = f[y] + SumFunctionOnSet(f, (s \ {z}) \ {y})
      BY <1>1, <2>1, <2>4
    <3>2. SumFunctionOnSet(f, s \ {y}) = f[z] + SumFunctionOnSet(f, (s \ {y}) \ {z})
      BY <1>1, <2>1, <2>4
    <3>3. (s \ {z}) \ {y} = (s \ {y}) \ {z}
      OBVIOUS
    <3>4. SumFunctionOnSet(f, (s \ {y}) \ {z}) \in Int
      <4>1. (s \ {y}) \ {z} \in SUBSET S /\ \A w \in (s \ {y}) \ {z} : f[w] \in Int
        OBVIOUS
      <4> QED
        BY <4>1, FS_Subset, SumIsAnInteger
    <3>5. f[y] \in Int /\ f[z] \in Int
      BY <2>1
    <3> DEFINE rest == SumFunctionOnSet(f, (s \ {y}) \ {z})
    <3>6. SumFunctionOnSet(f, s) = f[z] + (f[y] + rest)
      BY <2>2, <3>1, <3>3
    <3>7. f[y] + SumFunctionOnSet(f, s \ {y}) = f[y] + (f[z] + rest)
      BY <3>2
    <3> HIDE DEF rest
    <3>8. f[z] + (f[y] + rest) = f[y] + (f[z] + rest)
      BY <3>4, <3>5 DEF rest
    <3> QED
      BY <3>6, <3>7, <3>8
  <2> QED
    BY <2>3, <2>4
<1>2. \A s \in SUBSET S : (\A t \in SUBSET s : t # s => t \in P) => s \in P
  BY <1>1
<1> HIDE DEF P
<1>3. SUBSET S \subseteq P
  BY <1>2, EverySubset
<1> QED
  BY <1>3 DEF P

\* Functions that agree on a set have the same sum over it.
THEOREM SumOfTheSame ==
  ASSUME NEW f, NEW g, NEW S, IsFiniteSet(S), \A x \in S : f[x] = g[x]
  PROVE  SumFunctionOnSet(f, S) = SumFunctionOnSet(g, S)
<1> DEFINE P == {s \in SUBSET S : SumFunctionOnSet(f, s) = SumFunctionOnSet(g, s)}
<1>1. ASSUME NEW s \in SUBSET S, \A t \in SUBSET s : t # s => t \in P
      PROVE  s \in P
  <2>1. CASE s = {}
    BY <2>1, SumOfNone
  <2>2. CASE s # {}
    <3>1. AnyOf(s) \in s
      BY <2>2, OneIsIn
    <3>2. s \ {AnyOf(s)} \in P
      BY <1>1, <3>1
    <3>3. /\ SumFunctionOnSet(f, s) = f[AnyOf(s)] + SumFunctionOnSet(f, s \ {AnyOf(s)})
          /\ SumFunctionOnSet(g, s) = g[AnyOf(s)] + SumFunctionOnSet(g, s \ {AnyOf(s)})
      BY <2>2, SumOfSome, FS_Subset
    <3> QED
      BY <3>1, <3>2, <3>3
  <2> QED
    BY <2>1, <2>2
<1> HIDE DEF P
<1>2. SUBSET S \subseteq P
  BY <1>1, EverySubset
<1> QED
  BY <1>2 DEF P

\* Numbers that are not negative have a sum that is not.
THEOREM SumIsANatural ==
  ASSUME NEW f, NEW S, IsFiniteSet(S), \A x \in S : f[x] \in Nat
  PROVE  SumFunctionOnSet(f, S) \in Nat
<1> DEFINE P == {s \in SUBSET S : SumFunctionOnSet(f, s) \in Nat}
<1>1. ASSUME NEW s \in SUBSET S, \A t \in SUBSET s : t # s => t \in P
      PROVE  s \in P
  <2>1. CASE s = {}
    BY <2>1, SumOfNone
  <2>2. CASE s # {}
    <3>1. AnyOf(s) \in s
      BY <2>2, OneIsIn
    <3>2. s \ {AnyOf(s)} \in P
      BY <1>1, <3>1
    <3>3. SumFunctionOnSet(f, s) = f[AnyOf(s)] + SumFunctionOnSet(f, s \ {AnyOf(s)})
      BY <2>2, SumOfSome, FS_Subset
    <3> QED
      BY <3>1, <3>2, <3>3
  <2> QED
    BY <2>1, <2>2
<1> HIDE DEF P
<1>2. SUBSET S \subseteq P
  BY <1>1, EverySubset
<1> QED
  BY <1>2 DEF P

\* One of the numbers changes, and the sum by as much.
THEOREM SumOfOneChanged ==
  ASSUME NEW f, NEW g, NEW S, IsFiniteSet(S), NEW x \in S,
         \A y \in S : f[y] \in Int /\ g[y] \in Int /\ (y # x => f[y] = g[y])
  PROVE  SumFunctionOnSet(g, S) = SumFunctionOnSet(f, S) + (g[x] - f[x])
<1>1. IsFiniteSet(S \ {x}) /\ \A y \in S \ {x} : f[y] = g[y] /\ f[y] \in Int
  BY FS_RemoveElement
<1>2. SumFunctionOnSet(f, S \ {x}) = SumFunctionOnSet(g, S \ {x})
  BY <1>1, SumOfTheSame
<1>3. SumFunctionOnSet(f, S) = f[x] + SumFunctionOnSet(f, S \ {x})
  BY SumWithout
<1>4. SumFunctionOnSet(g, S) = g[x] + SumFunctionOnSet(g, S \ {x})
  BY SumWithout
<1>5. SumFunctionOnSet(f, S \ {x}) \in Int
  BY <1>1, SumIsAnInteger
<1> QED
  BY <1>2, <1>3, <1>4, <1>5

\* The sum of nothing but zeros.
THEOREM SumOfNothing ==
  ASSUME NEW f, NEW S, IsFiniteSet(S), \A x \in S : f[x] = 0
  PROVE  SumFunctionOnSet(f, S) = 0
<1> DEFINE P == {s \in SUBSET S : SumFunctionOnSet(f, s) = 0}
<1>1. ASSUME NEW s \in SUBSET S, \A t \in SUBSET s : t # s => t \in P
      PROVE  s \in P
  <2>1. CASE s = {}
    BY <2>1, SumOfNone
  <2>2. CASE s # {}
    <3>1. AnyOf(s) \in s
      BY <2>2, OneIsIn
    <3>2. s \ {AnyOf(s)} \in P
      BY <1>1, <3>1
    <3>3. SumFunctionOnSet(f, s) = f[AnyOf(s)] + SumFunctionOnSet(f, s \ {AnyOf(s)})
      BY <2>2, SumOfSome, FS_Subset
    <3> QED
      BY <3>1, <3>2, <3>3
  <2> QED
    BY <2>1, <2>2
<1> HIDE DEF P
<1>2. SUBSET S \subseteq P
  BY <1>1, EverySubset
<1> QED
  BY <1>2 DEF P

\* Zeros add nothing.
THEOREM SumOfSupport ==
  ASSUME NEW f, NEW S, IsFiniteSet(S), \A x \in S : f[x] \in Int
  PROVE  SumFunctionOnSet(f, {x \in S : f[x] # 0}) = SumFunctionOnSet(f, S)
<1> DEFINE Support(s) == {x \in s : f[x] # 0}
           P == {s \in SUBSET S : SumFunctionOnSet(f, Support(s)) = SumFunctionOnSet(f, s)}
<1>1. ASSUME NEW s \in SUBSET S, \A t \in SUBSET s : t # s => t \in P
      PROVE  s \in P
  <2>1. CASE s = {}
    <3>1. Support(s) = s
      BY <2>1
    <3> QED
      BY <3>1
  <2>2. CASE s # {}
    <3> DEFINE x == AnyOf(s)
               t == s \ {x}
    <3>1. x \in s /\ x \in S
      BY <2>2, OneIsIn
    <3>2. SumFunctionOnSet(f, Support(t)) = SumFunctionOnSet(f, t)
      <4>1. t \in P
        BY <1>1, <3>1
      <4> QED
        BY <4>1
    <3>3. SumFunctionOnSet(f, s) = f[x] + SumFunctionOnSet(f, t)
      BY <2>2, SumOfSome, FS_Subset
    <3>4. /\ IsFiniteSet(s) /\ IsFiniteSet(t) /\ IsFiniteSet(Support(s))
          /\ \A y \in S : f[y] \in Int
      BY FS_Subset
    <3>5. SumFunctionOnSet(f, t) \in Int
      BY <3>4, SumIsAnInteger
    <3> HIDE DEF x
    <3>6. CASE f[x] = 0
      <4>1. Support(s) = Support(t)
        BY <3>1, <3>6
      <4> HIDE DEF Support, t
      <4>2. f[x] + SumFunctionOnSet(f, t) = SumFunctionOnSet(f, t)
        BY <3>5, <3>6
      <4> QED
        BY <3>2, <3>3, <4>1, <4>2
    <3>7. CASE f[x] # 0
      <4>1. x \in Support(s) /\ Support(s) \ {x} = Support(t)
        BY <3>1, <3>7
      <4>2. \A y \in Support(s) : f[y] \in Int
        BY <3>4
      <4> HIDE DEF Support
      <4>3. SumFunctionOnSet(f, Support(s)) = f[x] + SumFunctionOnSet(f, Support(s) \ {x})
        BY <3>4, <4>1, <4>2, SumWithout
      <4> QED
        BY <3>2, <3>3, <4>1, <4>3
    <3> QED
      BY <3>6, <3>7
  <2> QED
    BY <2>1, <2>2
<1> HIDE DEF P
<1>2. SUBSET S \subseteq P
  BY <1>1, EverySubset
<1> QED
  BY <1>2 DEF P

\* Sets whose elements are matched one to one are of one size.
THEOREM SameCount ==
  ASSUME NEW S, IsFiniteSet(S), NEW T, NEW f \in [S -> T],
         \A x, y \in S : x # y => f[x] # f[y], \A t \in T : \E x \in S : f[x] = t
  PROVE  IsFiniteSet(T) /\ Cardinality(T) = Cardinality(S)
<1>1. f \in Injection(S, T)
  BY DEF Injection, IsInjective
<1>2. f \in Bijection(S, T)
  BY <1>1 DEF Bijection, Surjection
<1> QED
  BY <1>2, FS_Bijection DEF ExistsBijection

\* The image of a finite set is finite.
LEMMA ImageIsFinite ==
  ASSUME NEW S, IsFiniteSet(S), NEW f
  PROVE  /\ IsFiniteSet({f[x] : x \in S})
         /\ Cardinality({f[x] : x \in S}) <= Cardinality(S)
<1> DEFINE g == [x \in S |-> f[x]]
           T == {f[x] : x \in S}
<1>1. g \in Surjection(S, T)
  BY DEF Surjection
<1> HIDE DEF g, T
<1>2. IsFiniteSet(T) /\ Cardinality(T) <= Cardinality(S)
  BY <1>1, FS_Surjection
<1> QED
  BY <1>2 DEF T

\* A part of some numbers that are not negative has no larger sum than the whole.
LEMMA SumOfAPart ==
  ASSUME NEW f, NEW T, IsFiniteSet(T), \A x \in T : f[x] \in Nat, NEW S \in SUBSET T
  PROVE  SumFunctionOnSet(f, S) <= SumFunctionOnSet(f, T)
<1> DEFINE P == {s \in SUBSET T : S \subseteq s =>
                                    SumFunctionOnSet(f, S) <= SumFunctionOnSet(f, s)}
<1>1. ASSUME NEW s \in SUBSET T, \A t \in SUBSET s : t # s => t \in P
      PROVE  s \in P
  <2> SUFFICES ASSUME S \subseteq s
               PROVE  SumFunctionOnSet(f, S) <= SumFunctionOnSet(f, s)
    OBVIOUS
  <2>0. /\ IsFiniteSet(s) /\ SumFunctionOnSet(f, s) \in Nat
        /\ \A x \in s : f[x] \in Nat /\ f[x] \in Int
    <3>1. IsFiniteSet(s) /\ \A x \in s : f[x] \in Nat /\ f[x] \in Int
      BY FS_Subset
    <3> QED
      BY <3>1, SumIsANatural
  <2>1. CASE S = s
    BY <2>0, <2>1
  <2>2. CASE S # s
    <3>1. PICK x \in s : x \notin S
      BY <2>2
    <3>2. S \subseteq s \ {x} /\ s \ {x} \in SUBSET s /\ s \ {x} # s
      BY <3>1
    <3>3. SumFunctionOnSet(f, S) <= SumFunctionOnSet(f, s \ {x})
      BY <1>1, <3>2
    <3>4. SumFunctionOnSet(f, s) = f[x] + SumFunctionOnSet(f, s \ {x})
      BY <2>0, <3>1, SumWithout
    <3>5. SumFunctionOnSet(f, S) \in Nat /\ SumFunctionOnSet(f, s \ {x}) \in Nat
      <4>1. IsFiniteSet(S) /\ IsFiniteSet(s \ {x})
        BY <2>0, <3>2, FS_Subset
      <4> QED
        BY <2>0, <3>2, <4>1, SumIsANatural
    <3>6. f[x] \in Nat
      BY <2>0, <3>1
    <3> QED
      BY <2>0, <3>3, <3>4, <3>5, <3>6
  <2> QED
    BY <2>1, <2>2
<1> HIDE DEF P
<1>2. SUBSET T \subseteq P
  BY <1>1, EverySubset
<1> QED
  BY <1>2 DEF P

=============================================================================
