-------------------------- MODULE ArithmeticTheorems --------------------------
(***************************************************************************)
(* What the theorems of the components share.  Induction in a form the     *)
(* provers can apply (the property to prove is a set, not an operator),    *)
(* functions defined by recursion, and what SumFunctionOnSet computes: the *)
(* bookkeeping of x/rewards and x/mining is stated with sums over          *)
(* accounts, epochs and slots.  The last part is about the emission        *)
(* schedule, which is arithmetic too.                                      *)
(***************************************************************************)
EXTENDS Emission, Integers, FiniteSets, Functions, WellFoundedInduction, FiniteSetTheorems, TLAPS

-----------------------------------------------------------------------------
(* Induction.                                                              *)

\* A nonempty set of naturals has a least element.
LEMMA LeastNatural ==
  ASSUME NEW T \in SUBSET Nat, T # {}
  PROVE  \E x \in T : \A y \in T : x <= y
<1>1. IsWellFoundedOn({p \in Nat \X Nat : p[1] < p[2]}, Nat)
  BY NatLessThanWellFounded DEF OpToRel
<1>2. \E x \in T : \A y \in T : ~ (<<y, x>> \in {p \in Nat \X Nat : p[1] < p[2]})
  BY <1>1, WFMin
<1>3. PICK x \in T : \A y \in T : ~ (<<y, x>> \in {p \in Nat \X Nat : p[1] < p[2]})
  BY <1>2
<1>4. ASSUME NEW y \in T PROVE x <= y
  <2>1. x \in Nat /\ y \in Nat
    OBVIOUS
  <2>2. ~ (y < x)
    BY <1>3, <2>1
  <2> QED
    BY <2>1, <2>2
<1> QED
  BY <1>4

\* A nonempty bounded set of naturals has a greatest element.
LEMMA GreatestNatural ==
  ASSUME NEW T \in SUBSET Nat, NEW n \in Nat, \A x \in T : x <= n, T # {}
  PROVE  \E x \in T : \A y \in T : y <= x
<1> DEFINE D == {d \in Nat : \E x \in T : d = n - x}
<1>1. D \in SUBSET Nat /\ D # {}
  <2>1. PICK x \in T : TRUE
    OBVIOUS
  <2>2. n - x \in Nat
    OBVIOUS
  <2> QED
    BY <2>2
<1>2. PICK d \in D : \A e \in D : d <= e
  BY <1>1, LeastNatural
<1>3. PICK x \in T : d = n - x
  OBVIOUS
<1>4. ASSUME NEW y \in T PROVE y <= x
  <2>1. n - y \in D
    OBVIOUS
  <2> HIDE DEF D
  <2>2. d <= n - y /\ x \in Nat /\ y \in Nat
    BY <1>2, <2>1
  <2> QED
    BY <1>3, <2>2
<1> QED
  BY <1>4

\* Induction over the naturals, for a set of naturals.
LEMMA NaturalsByInduction ==
  ASSUME NEW G \in SUBSET Nat, 0 \in G, \A n \in G : n + 1 \in G
  PROVE  G = Nat
<1> SUFFICES ASSUME Nat \ G # {} PROVE FALSE
  OBVIOUS
<1>1. PICK x \in Nat \ G : \A y \in Nat \ G : x <= y
  <2>1. Nat \ G \in SUBSET Nat
    OBVIOUS
  <2> QED
    BY <2>1, LeastNatural
<1>2. x # 0 /\ x - 1 \in Nat
  OBVIOUS
<1>3. x - 1 \in G
  BY <1>1, <1>2
<1>4. (x - 1) + 1 \in G
  BY <1>3
<1>5. (x - 1) + 1 = x
  OBVIOUS
<1> QED
  BY <1>4, <1>5

\* Induction over a finite set, for a set of its subsets.
LEMMA SubsetsByInduction ==
  ASSUME NEW S, IsFiniteSet(S), NEW G,
         {} \in G, \A T \in SUBSET S, x \in S : T \in G /\ x \notin T => T \cup {x} \in G
  PROVE  \A T \in SUBSET S : T \in G
<1> DEFINE Bad == {T \in SUBSET S : T \notin G}
           Sizes == {n \in Nat : \E T \in Bad : n = Cardinality(T)}
<1> SUFFICES ASSUME Bad # {} PROVE FALSE
  OBVIOUS
<1>1. \A T \in SUBSET S : IsFiniteSet(T) /\ Cardinality(T) \in Nat
  BY FS_Subset, FS_CardinalityType
<1>2. Sizes \in SUBSET Nat /\ Sizes # {}
  BY <1>1
<1>3. PICK n \in Sizes : \A m \in Sizes : n <= m
  BY <1>2, LeastNatural
<1>4. PICK T \in Bad : n = Cardinality(T)
  OBVIOUS
<1>5. T # {}
  OBVIOUS
<1>6. PICK x \in T : TRUE
  BY <1>5
<1>7. IsFiniteSet(T \ {x}) /\ Cardinality(T \ {x}) = n - 1 /\ n \in Nat
  BY <1>1, <1>4, <1>6, FS_RemoveElement
<1>8. T \ {x} \in SUBSET S /\ x \in S /\ x \notin T \ {x} /\ (T \ {x}) \cup {x} = T
  BY <1>4, <1>6
<1>9. T \ {x} \notin Bad
  <2>1. ASSUME T \ {x} \in Bad PROVE FALSE
    <3>1. n - 1 \in Sizes
      BY <1>1, <1>7, <1>8, <2>1
    <3>2. n <= n - 1
      BY <1>3, <3>1
    <3> QED
      BY <1>7, <3>2
  <2> QED
    BY <2>1
<1> QED
  BY <1>4, <1>8, <1>9

-----------------------------------------------------------------------------
(* The recursion behind SumFunctionOnSet has a solution on a finite set.   *)

AnyOf(s) == CHOOSE x \in s : TRUE
SumStep(g, f, s) == IF s = {} THEN 0 ELSE f[AnyOf(s)] + g[s \ {AnyOf(s)}]
SolvesSum(g, f, S) == g = [s \in SUBSET S |-> SumStep(g, f, s)]

\* The element taken out of a nonempty subset leaves a smaller subset.
LEMMA AnyOfFacts ==
  ASSUME NEW S, IsFiniteSet(S), NEW s \in SUBSET S, s # {}
  PROVE  /\ AnyOf(s) \in s
         /\ s \ {AnyOf(s)} \in SUBSET S
         /\ Cardinality(s) \in Nat
         /\ Cardinality(s \ {AnyOf(s)}) = Cardinality(s) - 1
<1>1. AnyOf(s) \in s
  BY DEF AnyOf
<1>2. IsFiniteSet(s)
  BY FS_Subset
<1> QED
  BY <1>1, <1>2, FS_RemoveElement, FS_CardinalityType

\* There is a function on the subsets that satisfies the recursion.
LEMMA SumRecursionExists ==
  ASSUME NEW f, NEW S, IsFiniteSet(S)
  PROVE  \E g : g = [s \in SUBSET S |-> SumStep(g, f, s)]
<1> DEFINE D(n) == {s \in SUBSET S : Cardinality(s) <= n}
           G == {n \in Nat : \E g : g = [s \in D(n) |-> SumStep(g, f, s)]}
<1>c. \A s \in SUBSET S : Cardinality(s) \in Nat /\ IsFiniteSet(s)
  BY FS_Subset, FS_CardinalityType
<1>1. 0 \in G
  <2> DEFINE g == [s \in D(0) |-> 0]
  <2>1. \A s \in D(0) : s = {}
    <3>1. \A s \in D(0) : IsFiniteSet(s) /\ Cardinality(s) = 0
      BY <1>c
    <3> QED
      BY <3>1, FS_EmptySet
  <2>2. \A s \in D(0) : SumStep(g, f, s) = 0
    BY <2>1 DEF SumStep
  <2>3. g = [s \in D(0) |-> SumStep(g, f, s)]
    BY <2>2
  <2> QED
    BY <2>3
<1>2. ASSUME NEW n \in G PROVE n + 1 \in G
  <2>1. PICK g : g = [s \in D(n) |-> SumStep(g, f, s)]
    OBVIOUS
  <2> DEFINE h == [s \in D(n + 1) |-> SumStep(g, f, s)]
  <2>2. D(n) \subseteq D(n + 1)
    BY <1>c
  <2>3. \A s \in D(n) : h[s] = g[s]
    <3>1. \A s \in D(n) : h[s] = SumStep(g, f, s)
      BY <2>2
    <3>2. \A s \in D(n) : g[s] = SumStep(g, f, s)
      BY <2>1
    <3> QED
      BY <3>1, <3>2
  <2>4. ASSUME NEW s \in D(n + 1), s # {} PROVE s \ {AnyOf(s)} \in D(n)
    <3>1. s \in SUBSET S /\ Cardinality(s) <= n + 1 /\ n \in Nat
      OBVIOUS
    <3>2. /\ s \ {AnyOf(s)} \in SUBSET S /\ Cardinality(s) \in Nat
          /\ Cardinality(s \ {AnyOf(s)}) = Cardinality(s) - 1
      BY <2>4, <3>1, AnyOfFacts
    <3> QED
      BY <3>1, <3>2
  <2>5. \A s \in D(n + 1) : SumStep(g, f, s) = SumStep(h, f, s)
    <3> HIDE DEF h, D
    <3> QED
      BY <2>3, <2>4 DEF SumStep
  <2>6. h = [s \in D(n + 1) |-> SumStep(h, f, s)]
    BY <2>5
  <2>7. n + 1 \in Nat
    OBVIOUS
  <2> HIDE DEF h
  <2> QED
    BY <2>6, <2>7
<1>3. G = Nat
  <2>1. G \in SUBSET Nat
    OBVIOUS
  <2> HIDE DEF G
  <2> QED
    BY <1>1, <1>2, <2>1, NaturalsByInduction
<1>4. Cardinality(S) \in G
  BY <1>3, FS_CardinalityType
<1>5. D(Cardinality(S)) = SUBSET S
  BY FS_Subset
<1> QED
  BY <1>4, <1>5

\* SumFunctionOnSet is the value of that function at the whole set.
LEMMA SumIsRecursion ==
  ASSUME NEW f, NEW S, IsFiniteSet(S)
  PROVE  \E g : SolvesSum(g, f, S) /\ SumFunctionOnSet(f, S) = g[S]
<1> DEFINE g == CHOOSE iter : iter = [s \in SUBSET S |->
                  IF s = {} THEN 0 ELSE f[CHOOSE x \in s : TRUE] + iter[s \ {CHOOSE x \in s : TRUE}]]
           h == CHOOSE iter : iter = [s \in SUBSET S |-> SumStep(iter, f, s)]
<1>1. SumFunctionOnSet(f, S) = g[S]
  BY DEF SumFunctionOnSet, FoldFunctionOnSet, MapThenFoldSet
<1>2. g = h
  BY DEF SumStep, AnyOf
<1>3. h = [s \in SUBSET S |-> SumStep(h, f, s)]
  BY SumRecursionExists
<1> HIDE DEF g, h
<1> QED
  BY <1>1, <1>2, <1>3 DEF SolvesSum

\* Induction over the subsets of a finite set from all their proper subsets.
LEMMA SubsetsByStrongInduction ==
  ASSUME NEW S, IsFiniteSet(S), NEW G,
         \A T \in SUBSET S : (\A U \in SUBSET T : U # T => U \in G) => T \in G
  PROVE  \A T \in SUBSET S : T \in G
<1> DEFINE Bad == {T \in SUBSET S : T \notin G}
           Sizes == {n \in Nat : \E T \in Bad : n = Cardinality(T)}
<1> SUFFICES ASSUME Bad # {} PROVE FALSE
  OBVIOUS
<1>1. \A T \in SUBSET S : IsFiniteSet(T) /\ Cardinality(T) \in Nat
  BY FS_Subset, FS_CardinalityType
<1>2. Sizes \in SUBSET Nat /\ Sizes # {}
  BY <1>1
<1>3. PICK n \in Sizes : \A m \in Sizes : n <= m
  BY <1>2, LeastNatural
<1>4. PICK T \in Bad : n = Cardinality(T)
  OBVIOUS
<1>5. ASSUME NEW U \in SUBSET T, U # T PROVE U \in G
  <2>1. PICK y \in T : y \notin U
    <3> HIDE DEF Bad, Sizes
    <3> QED
      BY <1>5
  <2>2. U \subseteq T \ {y} /\ U \in SUBSET S /\ T \in SUBSET S
    BY <1>4, <2>1
  <2>3. IsFiniteSet(T \ {y}) /\ Cardinality(T \ {y}) = n - 1 /\ n \in Nat
    BY <1>1, <1>4, <2>1, <2>2, FS_RemoveElement
  <2>4. Cardinality(U) <= n - 1 /\ Cardinality(U) \in Nat
    BY <1>1, <2>2, <2>3, FS_Subset
  <2>5. CASE U \in Bad
    <3>1. Cardinality(U) \in Sizes
      BY <2>4, <2>5
    <3> QED
      BY <1>3, <2>3, <2>4, <3>1
  <2> QED
    BY <2>2, <2>5
<1>6. T \in SUBSET S
  BY <1>4
<1> QED
  BY <1>4, <1>5, <1>6

-----------------------------------------------------------------------------
(* What the sum is.                                                        *)

\* Any solution of the recursion, on a larger set too, gives the same sums, and
\* they are integers when the summands are.
LEMMA SumSolution ==
  ASSUME NEW f, NEW S, IsFiniteSet(S), NEW g, SolvesSum(g, f, S),
         \A x \in S : f[x] \in Int
  PROVE  \A T \in SUBSET S : g[T] \in Int /\ SumFunctionOnSet(f, T) = g[T]
<1>1. \A T \in SUBSET S : g[T] = SumStep(g, f, T)
  BY DEF SolvesSum
<1>2. ASSUME NEW T \in SUBSET S PROVE g[T] \in Int
  <2> DEFINE G == {U \in SUBSET S : g[U] \in Int}
  <2>1. ASSUME NEW U \in SUBSET S, \A V \in SUBSET U : V # U => V \in G PROVE U \in G
    <3>1. CASE U = {}
      <4>1. g[U] = 0
        BY <1>1, <3>1 DEF SumStep
      <4> QED
        BY <4>1
    <3>2. CASE U # {}
      <4>1. AnyOf(U) \in U
        BY <3>2, AnyOfFacts
      <4>2. U \ {AnyOf(U)} \in G
        BY <2>1, <4>1
      <4>3. g[U] = f[AnyOf(U)] + g[U \ {AnyOf(U)}]
        BY <1>1, <3>2 DEF SumStep
      <4> QED
        BY <4>1, <4>2, <4>3
    <3> QED
      BY <3>1, <3>2
  <2>2. \A U \in SUBSET S : U \in G
    <3> HIDE DEF G
    <3> QED
      BY <2>1, SubsetsByStrongInduction
  <2> QED
    BY <2>2
<1>3. ASSUME NEW T \in SUBSET S PROVE SumFunctionOnSet(f, T) = g[T]
  <2>1. IsFiniteSet(T)
    BY FS_Subset
  <2>2. PICK h : SolvesSum(h, f, T) /\ SumFunctionOnSet(f, T) = h[T]
    BY <2>1, SumIsRecursion
  <2> DEFINE G == {U \in SUBSET T : g[U] = h[U]}
  <2>3. ASSUME NEW U \in SUBSET T, \A V \in SUBSET U : V # U => V \in G PROVE U \in G
    <3>1. g[U] = SumStep(g, f, U) /\ h[U] = SumStep(h, f, U)
      BY <1>1, <2>2 DEF SolvesSum
    <3>2. CASE U = {}
      BY <3>1, <3>2 DEF SumStep
    <3>3. CASE U # {}
      <4>1. AnyOf(U) \in U
        BY <2>1, <3>3, AnyOfFacts
      <4>2. U \ {AnyOf(U)} \in G
        BY <2>3, <4>1
      <4> QED
        BY <3>1, <3>3, <4>2 DEF SumStep
    <3> QED
      BY <3>2, <3>3
  <2>4. \A U \in SUBSET T : U \in G
    <3> HIDE DEF G
    <3> QED
      BY <2>1, <2>3, SubsetsByStrongInduction
  <2> QED
    BY <2>2, <2>4
<1> QED
  BY <1>2, <1>3

\* The order in which a solution takes the elements does not matter.
LEMMA SumAnyOrder ==
  ASSUME NEW f, NEW S, IsFiniteSet(S), NEW g, SolvesSum(g, f, S),
         \A x \in S : f[x] \in Int
  PROVE  \A T \in SUBSET S, x \in S : x \in T => g[T] = f[x] + g[T \ {x}]
<1> DEFINE G == {T \in SUBSET S : \A x \in T : g[T] = f[x] + g[T \ {x}]}
<1>1. \A T \in SUBSET S : g[T] = SumStep(g, f, T) /\ g[T] \in Int
  BY SumSolution DEF SolvesSum
<1>2. ASSUME NEW T \in SUBSET S, \A U \in SUBSET T : U # T => U \in G PROVE T \in G
  <2> SUFFICES ASSUME NEW x \in T PROVE g[T] = f[x] + g[T \ {x}]
    OBVIOUS
  <2> DEFINE c == AnyOf(T)
  <2>1. c \in T
    BY AnyOfFacts
  <2>2. g[T] = f[c] + g[T \ {c}]
    BY <1>1 DEF SumStep
  <2> HIDE DEF c
  <2>3. CASE c = x
    BY <2>2, <2>3
  <2>4. CASE c # x
    <3>1. T \ {c} \in G /\ T \ {x} \in G
      BY <1>2, <2>1
    <3>2. x \in T \ {c} /\ c \in T \ {x}
      BY <2>1, <2>4
    <3>3. g[T \ {c}] = f[x] + g[(T \ {c}) \ {x}] /\ g[T \ {x}] = f[c] + g[(T \ {x}) \ {c}]
      BY <3>1, <3>2
    <3>4. (T \ {c}) \ {x} = (T \ {x}) \ {c}
      OBVIOUS
    <3> DEFINE r == g[(T \ {x}) \ {c}]
    <3>5. r \in Int /\ f[x] \in Int /\ f[c] \in Int
      BY <1>1, <2>1
    <3>6. g[T] = f[c] + (f[x] + r) /\ g[T \ {x}] = f[c] + r
      BY <2>2, <3>3, <3>4
    <3> HIDE DEF r
    <3> QED
      BY <3>5, <3>6
  <2> QED
    BY <2>3, <2>4
<1>3. \A T \in SUBSET S : T \in G
  <2> HIDE DEF G
  <2> QED
    BY <1>2, SubsetsByStrongInduction
<1> QED
  BY <1>3

\* The empty sum is zero.
THEOREM SumOfNone == \A f : SumFunctionOnSet(f, {}) = 0
<1> SUFFICES ASSUME NEW f PROVE SumFunctionOnSet(f, {}) = 0
  OBVIOUS
<1>1. IsFiniteSet({})
  BY FS_EmptySet
<1>2. PICK g : SolvesSum(g, f, {}) /\ SumFunctionOnSet(f, {}) = g[{}]
  BY <1>1, SumIsRecursion
<1>3. g[{}] = SumStep(g, f, {})
  BY <1>2 DEF SolvesSum
<1> QED
  BY <1>2, <1>3 DEF SumStep

\* A sum of integers over a finite set is an integer, and any one of its summands
\* may be taken out.
THEOREM SumTakeOut ==
  ASSUME NEW f, NEW S, IsFiniteSet(S), \A x \in S : f[x] \in Int
  PROVE  /\ SumFunctionOnSet(f, S) \in Int
         /\ \A x \in S : SumFunctionOnSet(f, S) = f[x] + SumFunctionOnSet(f, S \ {x})
<1>1. PICK g : SolvesSum(g, f, S) /\ SumFunctionOnSet(f, S) = g[S]
  BY SumIsRecursion
<1>2. \A T \in SUBSET S : g[T] \in Int /\ SumFunctionOnSet(f, T) = g[T]
  BY <1>1, SumSolution
<1>3. \A x \in S : g[S] = f[x] + g[S \ {x}]
  <2>1. \A T \in SUBSET S, x \in S : x \in T => g[T] = f[x] + g[T \ {x}]
    BY <1>1, SumAnyOrder
  <2>2. S \in SUBSET S
    OBVIOUS
  <2> QED
    BY <2>1, <2>2
<1> QED
  BY <1>2, <1>3

-----------------------------------------------------------------------------
(* Laws of sums over a finite set.                                         *)

\* A new index adds its summand.
THEOREM SumAddElement ==
  ASSUME NEW f, NEW S, IsFiniteSet(S), \A y \in S : f[y] \in Int,
         NEW x, x \notin S, f[x] \in Int
  PROVE  SumFunctionOnSet(f, S \cup {x}) = f[x] + SumFunctionOnSet(f, S)
<1>1. IsFiniteSet(S \cup {x}) /\ (S \cup {x}) \ {x} = S /\ x \in S \cup {x}
  BY FS_AddElement
<1>2. \A y \in S \cup {x} : f[y] \in Int
  OBVIOUS
<1> QED
  BY <1>1, <1>2, SumTakeOut

\* Summands that agree on the index set have one sum.
THEOREM SumSame ==
  ASSUME NEW f, NEW g, NEW S, IsFiniteSet(S), \A x \in S : f[x] \in Int /\ g[x] = f[x]
  PROVE  SumFunctionOnSet(g, S) = SumFunctionOnSet(f, S)
<1> DEFINE G == {T \in SUBSET S : SumFunctionOnSet(g, T) = SumFunctionOnSet(f, T)}
<1>1. {} \in G
  BY SumOfNone
<1>2. ASSUME NEW T \in SUBSET S, NEW x \in S, T \in G, x \notin T PROVE T \cup {x} \in G
  <2>1. IsFiniteSet(T) /\ (\A y \in T : f[y] \in Int) /\ (\A y \in T : g[y] \in Int)
    BY FS_Subset
  <2>2. /\ SumFunctionOnSet(f, T \cup {x}) = f[x] + SumFunctionOnSet(f, T)
        /\ SumFunctionOnSet(g, T \cup {x}) = g[x] + SumFunctionOnSet(g, T)
    BY <1>2, <2>1, SumAddElement
  <2> QED
    BY <1>2, <2>2
<1>3. \A T \in SUBSET S : T \in G
  <2> HIDE DEF G
  <2> QED
    BY <1>1, <1>2, SubsetsByInduction
<1> QED
  BY <1>3

\* Sums add up pointwise.
THEOREM SumPlus ==
  ASSUME NEW f, NEW g, NEW h, NEW S, IsFiniteSet(S),
         \A x \in S : f[x] \in Int /\ g[x] \in Int /\ h[x] = f[x] + g[x]
  PROVE  SumFunctionOnSet(h, S) = SumFunctionOnSet(f, S) + SumFunctionOnSet(g, S)
<1> DEFINE G == {T \in SUBSET S : SumFunctionOnSet(h, T) =
                                    SumFunctionOnSet(f, T) + SumFunctionOnSet(g, T)}
<1>1. {} \in G
  <2>1. /\ SumFunctionOnSet(h, {}) = 0 /\ SumFunctionOnSet(f, {}) = 0
        /\ SumFunctionOnSet(g, {}) = 0
    BY SumOfNone
  <2> QED
    BY <2>1
<1>2. ASSUME NEW T \in SUBSET S, NEW x \in S, T \in G, x \notin T PROVE T \cup {x} \in G
  <2>1. /\ IsFiniteSet(T) /\ (\A y \in T : f[y] \in Int) /\ (\A y \in T : g[y] \in Int)
        /\ (\A y \in T : h[y] \in Int)
    BY FS_Subset
  <2>2. /\ SumFunctionOnSet(f, T \cup {x}) = f[x] + SumFunctionOnSet(f, T)
        /\ SumFunctionOnSet(g, T \cup {x}) = g[x] + SumFunctionOnSet(g, T)
        /\ SumFunctionOnSet(h, T \cup {x}) = h[x] + SumFunctionOnSet(h, T)
    BY <1>2, <2>1, SumAddElement
  <2>3. SumFunctionOnSet(f, T) \in Int /\ SumFunctionOnSet(g, T) \in Int
    BY <2>1, SumTakeOut
  <2>4. f[x] \in Int /\ g[x] \in Int /\ h[x] = f[x] + g[x]
        /\ SumFunctionOnSet(h, T) = SumFunctionOnSet(f, T) + SumFunctionOnSet(g, T)
    BY <1>2
  <2> QED
    BY <2>2, <2>3, <2>4
<1>3. \A T \in SUBSET S : T \in G
  <2> HIDE DEF G
  <2> QED
    BY <1>1, <1>2, SubsetsByInduction
<1> QED
  BY <1>3

\* Natural summands have a natural sum, at least as large as each of them.
THEOREM SumOfNaturals ==
  ASSUME NEW f, NEW S, IsFiniteSet(S), \A x \in S : f[x] \in Nat
  PROVE  /\ SumFunctionOnSet(f, S) \in Nat
         /\ \A x \in S : f[x] <= SumFunctionOnSet(f, S)
<1> DEFINE G == {T \in SUBSET S : SumFunctionOnSet(f, T) \in Nat}
<1>1. {} \in G
  BY SumOfNone
<1>2. ASSUME NEW T \in SUBSET S, NEW x \in S, T \in G, x \notin T PROVE T \cup {x} \in G
  <2>1. IsFiniteSet(T) /\ (\A y \in T : f[y] \in Int)
    BY FS_Subset
  <2>2. SumFunctionOnSet(f, T \cup {x}) = f[x] + SumFunctionOnSet(f, T)
    BY <1>2, <2>1, SumAddElement
  <2> QED
    BY <1>2, <2>2
<1>3. \A T \in SUBSET S : T \in G
  <2> HIDE DEF G
  <2> QED
    BY <1>1, <1>2, SubsetsByInduction
<1>4. ASSUME NEW x \in S PROVE f[x] <= SumFunctionOnSet(f, S)
  <2>1. SumFunctionOnSet(f, S) = f[x] + SumFunctionOnSet(f, S \ {x})
    BY SumTakeOut
  <2>2. SumFunctionOnSet(f, S \ {x}) \in Nat
    BY <1>3
  <2> QED
    BY <2>1, <2>2
<1> QED
  BY <1>3, <1>4

\* Changing one summand changes the sum by the difference.
THEOREM SumUpdate ==
  ASSUME NEW f, NEW g, NEW S, IsFiniteSet(S), \A x \in S : f[x] \in Int,
         NEW a \in S, g[a] \in Int, \A x \in S \ {a} : g[x] = f[x]
  PROVE  SumFunctionOnSet(g, S) = SumFunctionOnSet(f, S) + g[a] - f[a]
<1>1. IsFiniteSet(S \ {a}) /\ \A x \in S : g[x] \in Int
  BY FS_RemoveElement
<1>2. /\ SumFunctionOnSet(f, S) = f[a] + SumFunctionOnSet(f, S \ {a})
      /\ SumFunctionOnSet(g, S) = g[a] + SumFunctionOnSet(g, S \ {a})
  BY <1>1, SumTakeOut
<1>3. SumFunctionOnSet(g, S \ {a}) = SumFunctionOnSet(f, S \ {a})
  BY <1>1, SumSame
<1>4. SumFunctionOnSet(f, S \ {a}) \in Int /\ f[a] \in Int
  BY <1>1, SumTakeOut
<1> QED
  BY <1>2, <1>3, <1>4

\* Sums over disjoint sets add up.
THEOREM SumDisjointUnion ==
  ASSUME NEW f, NEW S, NEW R, IsFiniteSet(S), IsFiniteSet(R), S \cap R = {},
         \A x \in S \cup R : f[x] \in Int
  PROVE  SumFunctionOnSet(f, S \cup R) = SumFunctionOnSet(f, S) + SumFunctionOnSet(f, R)
<1> DEFINE G == {T \in SUBSET R : SumFunctionOnSet(f, S \cup T) =
                                    SumFunctionOnSet(f, S) + SumFunctionOnSet(f, T)}
<1>0. SumFunctionOnSet(f, S) \in Int
  BY SumTakeOut
<1>1. {} \in G
  <2>1. S \cup {} = S /\ SumFunctionOnSet(f, {}) = 0
    BY SumOfNone
  <2> QED
    BY <1>0, <2>1
<1>2. ASSUME NEW T \in SUBSET R, NEW x \in R, T \in G, x \notin T PROVE T \cup {x} \in G
  <2>1. /\ IsFiniteSet(T) /\ IsFiniteSet(S \cup T) /\ (\A y \in T : f[y] \in Int)
        /\ (\A y \in S \cup T : f[y] \in Int) /\ x \notin S \cup T /\ f[x] \in Int
    <3>1. IsFiniteSet(T)
      BY FS_Subset
    <3>2. IsFiniteSet(S \cup T)
      BY <3>1, FS_Union
    <3> QED
      BY <1>2, <3>1, <3>2
  <2>2. /\ SumFunctionOnSet(f, T \cup {x}) = f[x] + SumFunctionOnSet(f, T)
        /\ SumFunctionOnSet(f, (S \cup T) \cup {x}) = f[x] + SumFunctionOnSet(f, S \cup T)
    BY <1>2, <2>1, SumAddElement
  <2>3. SumFunctionOnSet(f, T) \in Int
    BY <2>1, SumTakeOut
  <2>4. (S \cup T) \cup {x} = S \cup (T \cup {x})
    OBVIOUS
  <2>5. SumFunctionOnSet(f, S \cup T) = SumFunctionOnSet(f, S) + SumFunctionOnSet(f, T)
    BY <1>2
  <2>6. SumFunctionOnSet(f, S \cup (T \cup {x})) =
          SumFunctionOnSet(f, S) + SumFunctionOnSet(f, T \cup {x})
    <3> DEFINE a == SumFunctionOnSet(f, S)
               b == SumFunctionOnSet(f, T)
    <3>1. SumFunctionOnSet(f, S \cup (T \cup {x})) = f[x] + (a + b)
      BY <2>2, <2>4, <2>5
    <3>2. SumFunctionOnSet(f, T \cup {x}) = f[x] + b
      BY <2>2
    <3>3. a \in Int /\ b \in Int /\ f[x] \in Int
      BY <1>0, <2>1, <2>3
    <3> HIDE DEF a, b
    <3>4. f[x] + (a + b) = a + (f[x] + b)
      BY <3>3
    <3> QED
      BY <3>1, <3>2, <3>4 DEF a
  <2> QED
    BY <2>6
<1>3. \A T \in SUBSET R : T \in G
  <2> HIDE DEF G
  <2> QED
    BY <1>1, <1>2, SubsetsByInduction
<1> QED
  BY <1>3

\* A sum of zeros is zero.
THEOREM SumOfZeros ==
  ASSUME NEW f, NEW S, IsFiniteSet(S), \A x \in S : f[x] = 0
  PROVE  SumFunctionOnSet(f, S) = 0
<1> DEFINE G == {T \in SUBSET S : SumFunctionOnSet(f, T) = 0}
<1>1. {} \in G
  BY SumOfNone
<1>2. ASSUME NEW T \in SUBSET S, NEW x \in S, T \in G, x \notin T PROVE T \cup {x} \in G
  <2>1. IsFiniteSet(T) /\ (\A y \in T : f[y] \in Int) /\ f[x] = 0
    BY FS_Subset
  <2>2. SumFunctionOnSet(f, T \cup {x}) = f[x] + SumFunctionOnSet(f, T)
    BY <1>2, <2>1, SumAddElement
  <2> QED
    BY <1>2, <2>1, <2>2
<1>3. \A T \in SUBSET S : T \in G
  <2> HIDE DEF G
  <2> QED
    BY <1>1, <1>2, SubsetsByInduction
<1> QED
  BY <1>3

\* Zero summands do not count.
THEOREM SumOfSupport ==
  ASSUME NEW f, NEW S, IsFiniteSet(S), NEW R \in SUBSET S,
         \A x \in R : f[x] \in Int, \A x \in S \ R : f[x] = 0
  PROVE  SumFunctionOnSet(f, S) = SumFunctionOnSet(f, R)
<1>1. IsFiniteSet(R) /\ IsFiniteSet(S \ R) /\ R \cap (S \ R) = {} /\ R \cup (S \ R) = S
  BY FS_Subset
<1>2. \A x \in S : f[x] \in Int
  OBVIOUS
<1>3. SumFunctionOnSet(f, S) = SumFunctionOnSet(f, R) + SumFunctionOnSet(f, S \ R)
  BY <1>1, <1>2, SumDisjointUnion
<1>4. SumFunctionOnSet(f, S \ R) = 0
  BY <1>1, SumOfZeros
<1>5. SumFunctionOnSet(f, R) \in Int
  BY <1>1, SumTakeOut
<1> QED
  BY <1>3, <1>4, <1>5

\* The sum over a table of which only one row counts is the sum of the row.
THEOREM SumOfRow ==
  ASSUME NEW f, NEW g, NEW E, NEW S, IsFiniteSet(E), IsFiniteSet(S), NEW e \in E,
         \A s \in S : f[s] \in Int,
         \A a \in E, s \in S : g[<<a, s>>] = IF a = e THEN f[s] ELSE 0
  PROVE  SumFunctionOnSet(g, E \X S) = SumFunctionOnSet(f, S)
<1> DEFINE Row(T) == {<<e, s>> : s \in T}
           G == {T \in SUBSET S : SumFunctionOnSet(g, Row(T)) = SumFunctionOnSet(f, T)}
<1>1. IsFiniteSet(E \X S)
  BY FS_Product
<1>2. {} \in G
  <2>1. Row({}) = {}
    OBVIOUS
  <2> QED
    BY <2>1, SumOfNone
<1>3. ASSUME NEW T \in SUBSET S, NEW x \in S, T \in G, x \notin T PROVE T \cup {x} \in G
  <2>1. Row(T \cup {x}) = Row(T) \cup {<<e, x>>} /\ <<e, x>> \notin Row(T)
    BY <1>3
  <2>2. Row(T) \in SUBSET (E \X S)
    OBVIOUS
  <2>3. IsFiniteSet(Row(T)) /\ IsFiniteSet(T)
    BY <1>1, <2>2, FS_Subset
  <2>4. \A r \in Row(T) : g[r] \in Int
    OBVIOUS
  <2>5. g[<<e, x>>] = f[x] /\ f[x] \in Int /\ \A y \in T : f[y] \in Int
    OBVIOUS
  <2>6. SumFunctionOnSet(f, T \cup {x}) = f[x] + SumFunctionOnSet(f, T)
    BY <1>3, <2>3, <2>5, SumAddElement
  <2> DEFINE R == Row(T)
  <2>7. SumFunctionOnSet(g, R \cup {<<e, x>>}) = g[<<e, x>>] + SumFunctionOnSet(g, R)
    <3> HIDE DEF R
    <3> QED
      BY <2>1, <2>3, <2>4, <2>5, SumAddElement DEF R
  <2>8. SumFunctionOnSet(g, Row(T \cup {x})) = SumFunctionOnSet(f, T \cup {x})
    BY <1>3, <2>1, <2>5, <2>6, <2>7
  <2> QED
    BY <2>8
<1>4. \A T \in SUBSET S : T \in G
  <2> HIDE DEF G
  <2> QED
    BY <1>2, <1>3, SubsetsByInduction
<1>5. SumFunctionOnSet(g, E \X S) = SumFunctionOnSet(g, Row(S))
  <2>1. Row(S) \in SUBSET (E \X S) /\ \A r \in Row(S) : g[r] \in Int
    OBVIOUS
  <2>2. \A r \in (E \X S) \ Row(S) : g[r] = 0
    OBVIOUS
  <2> DEFINE R == Row(S)
  <2> HIDE DEF R
  <2> QED
    BY <1>1, <2>1, <2>2, SumOfSupport DEF R
<1> QED
  BY <1>4, <1>5

-----------------------------------------------------------------------------
(* Division of an amount by weights, rounding down.                        *)

\* What the quotient of a division is.
LEMMA DivFacts ==
  ASSUME NEW a \in Nat, NEW d \in Nat \ {0}
  PROVE  /\ a \div d \in Nat
         /\ d * (a \div d) <= a
         /\ a < d * (a \div d) + d
  OBVIOUS

\* A positive factor may be dropped from an inequality.
LEMMA CancelFactor ==
  ASSUME NEW d \in Nat \ {0}, NEW x \in Int, NEW y \in Int, d * x <= d * y
  PROVE  x <= y
<1> SUFFICES ASSUME x >= y + 1 PROVE FALSE
  OBVIOUS
<1>1. d * (x - (y + 1)) >= 0
  OBVIOUS
<1>2. d * (x - (y + 1)) = d * x - d * y - d
  OBVIOUS
<1> QED
  BY <1>1, <1>2

\* Shares of an amount in proportion to weights, each rounded down: they do not
\* exceed the amount, and what is left is less than a unit per positive weight.
THEOREM SharesFit ==
  ASSUME NEW S, IsFiniteSet(S), NEW w, \A s \in S : w[s] \in Nat, NEW pool \in Nat,
         SumFunctionOnSet(w, S) # 0,
         NEW q, \A s \in S : q[s] = (pool * w[s]) \div SumFunctionOnSet(w, S)
  PROVE  /\ \A s \in S : q[s] \in Nat
         /\ SumFunctionOnSet(q, S) \in 0 .. pool
         /\ pool - SumFunctionOnSet(q, S) < Cardinality({s \in S : w[s] > 0})
<1> DEFINE d == SumFunctionOnSet(w, S)
           Pos(T) == {s \in T : w[s] > 0}
           G == {T \in SUBSET S :
                   /\ d * SumFunctionOnSet(q, T) <= pool * SumFunctionOnSet(w, T)
                   /\ pool * SumFunctionOnSet(w, T) <=
                        d * SumFunctionOnSet(q, T) + (d - 1) * Cardinality(Pos(T))}
<1>d. d \in Nat \ {0}
  BY SumOfNaturals
<1> HIDE DEF d
<1>1. \A s \in S : q[s] \in Nat /\ pool * w[s] \in Nat
                   /\ d * q[s] <= pool * w[s] /\ pool * w[s] <= d * q[s] + (d - 1)
  <2> SUFFICES ASSUME NEW s \in S
               PROVE  q[s] \in Nat /\ pool * w[s] \in Nat
                      /\ d * q[s] <= pool * w[s] /\ pool * w[s] <= d * q[s] + (d - 1)
    OBVIOUS
  <2>1. q[s] = (pool * w[s]) \div d /\ pool * w[s] \in Nat
    BY DEF d
  <2>2. q[s] \in Nat /\ d * q[s] <= pool * w[s] /\ pool * w[s] < d * q[s] + d
    BY <1>d, <2>1, DivFacts
  <2>3. d * q[s] \in Int
    BY <1>d, <2>2
  <2> QED
    BY <1>d, <2>1, <2>2, <2>3
<1>2. \A s \in S : w[s] = 0 => q[s] = 0
  <2> SUFFICES ASSUME NEW s \in S, w[s] = 0 PROVE q[s] = 0
    OBVIOUS
  <2>1. d * q[s] <= d * 0 /\ q[s] \in Nat
    BY <1>1, <1>d
  <2>2. q[s] <= 0
    BY <1>d, <2>1, CancelFactor
  <2> QED
    BY <2>1, <2>2
<1>p. \A T \in SUBSET S : /\ IsFiniteSet(Pos(T)) /\ Cardinality(Pos(T)) \in Nat
                          /\ \A x \in S : x \notin T =>
                               Cardinality(Pos(T \cup {x})) =
                                 Cardinality(Pos(T)) + IF w[x] > 0 THEN 1 ELSE 0
  <2> SUFFICES ASSUME NEW T \in SUBSET S
               PROVE  /\ IsFiniteSet(Pos(T)) /\ Cardinality(Pos(T)) \in Nat
                      /\ \A x \in S : x \notin T =>
                           Cardinality(Pos(T \cup {x})) =
                             Cardinality(Pos(T)) + IF w[x] > 0 THEN 1 ELSE 0
    OBVIOUS
  <2>1. Pos(T) \in SUBSET S
    OBVIOUS
  <2>2. IsFiniteSet(Pos(T)) /\ Cardinality(Pos(T)) \in Nat
    BY <2>1, FS_Subset, FS_CardinalityType
  <2>3. ASSUME NEW x \in S, x \notin T
        PROVE  Cardinality(Pos(T \cup {x})) = Cardinality(Pos(T)) + IF w[x] > 0 THEN 1 ELSE 0
    <3>1. CASE w[x] > 0
      <4>1. Pos(T \cup {x}) = Pos(T) \cup {x} /\ x \notin Pos(T)
        BY <2>3, <3>1
      <4> QED
        BY <2>2, <3>1, <4>1, FS_AddElement
    <3>2. CASE ~ (w[x] > 0)
      <4>1. Pos(T \cup {x}) = Pos(T)
        BY <2>3, <3>2
      <4> HIDE DEF Pos
      <4>2. Cardinality(Pos(T)) = Cardinality(Pos(T)) + 0
        BY <2>2
      <4> QED
        BY <3>2, <4>1, <4>2
    <3> QED
      BY <3>1, <3>2
  <2> QED
    BY <2>2, <2>3
<1>3. {} \in G
  <2>1. SumFunctionOnSet(q, {}) = 0 /\ SumFunctionOnSet(w, {}) = 0
    BY SumOfNone
  <2>2. Pos({}) = {} /\ Cardinality({}) = 0
    BY FS_EmptySet
  <2> QED
    BY <1>d, <2>1, <2>2
<1>4. ASSUME NEW T \in SUBSET S, NEW x \in S, T \in G, x \notin T PROVE T \cup {x} \in G
  <2> DEFINE Q == SumFunctionOnSet(q, T)
             W == SumFunctionOnSet(w, T)
             C == Cardinality(Pos(T))
             b == IF w[x] > 0 THEN 1 ELSE 0
  <2>1. IsFiniteSet(T) /\ (\A y \in T : q[y] \in Int) /\ (\A y \in T : w[y] \in Int)
    BY <1>1, FS_Subset
  <2>2. Q \in Int /\ W \in Int
    BY <2>1, SumTakeOut
  <2>3. /\ SumFunctionOnSet(q, T \cup {x}) = q[x] + Q
        /\ SumFunctionOnSet(w, T \cup {x}) = w[x] + W
    BY <1>1, <1>4, <2>1, SumAddElement
  <2>4. C \in Nat /\ Cardinality(Pos(T \cup {x})) = C + b
    BY <1>4, <1>p
  <2>5. d * Q <= pool * W /\ pool * W <= d * Q + (d - 1) * C
    BY <1>4
  <2>6. d * q[x] <= pool * w[x] /\ pool * w[x] <= d * q[x] + (d - 1) * b
    <3>1. CASE w[x] > 0
      BY <1>1, <1>d, <3>1
    <3>2. CASE ~ (w[x] > 0)
      <4>1. w[x] = 0 /\ q[x] = 0 /\ b = 0
        BY <1>2, <3>2
      <4> QED
        BY <1>d, <4>1
    <3> QED
      BY <3>1, <3>2
  <2>7. q[x] \in Int /\ w[x] \in Int /\ b \in Nat
    BY <1>1
  <2> HIDE DEF Q, W, C, b
  <2>8. /\ d * (q[x] + Q) = d * q[x] + d * Q
        /\ pool * (w[x] + W) = pool * w[x] + pool * W
        /\ (d - 1) * (C + b) = (d - 1) * C + (d - 1) * b
    BY <1>d, <2>2, <2>4, <2>7
  <2>9. /\ d * q[x] \in Int /\ d * Q \in Int /\ pool * w[x] \in Int /\ pool * W \in Int
        /\ (d - 1) * C \in Int /\ (d - 1) * b \in Int
    BY <1>d, <2>2, <2>4, <2>7
  <2>10. /\ d * (q[x] + Q) <= pool * (w[x] + W)
         /\ pool * (w[x] + W) <= d * (q[x] + Q) + (d - 1) * (C + b)
    BY <2>5, <2>6, <2>8, <2>9
  <2> QED
    BY <2>3, <2>4, <2>10
<1>5. S \in G
  <2>1. \A T \in SUBSET S : T \in G
    <3> HIDE DEF G
    <3> QED
      BY <1>3, <1>4, SubsetsByInduction
  <2> QED
    BY <2>1
<1> DEFINE Q == SumFunctionOnSet(q, S)
           C == Cardinality(Pos(S))
<1>6. Q \in Nat
  BY <1>1, SumOfNaturals
<1>7. C \in Nat
  BY <1>p
<1>8. d * Q <= pool * d /\ pool * d <= d * Q + (d - 1) * C
  BY <1>5 DEF d
<1> HIDE DEF Q
<1>9. Q <= pool
  <2>1. pool * d = d * pool
    BY <1>d
  <2> QED
    BY <1>6, <1>8, <1>d, <2>1, CancelFactor
<1>10. C > 0
  <2>1. \E s \in S : w[s] > 0
    <3> SUFFICES ASSUME \A s \in S : w[s] = 0 PROVE FALSE
      OBVIOUS
    <3> QED
      BY SumOfZeros
  <2>2. Pos(S) # {}
    BY <2>1
  <2>3. IsFiniteSet(Pos(S))
    BY <1>p
  <2> HIDE DEF Pos
  <2> QED
    BY <1>7, <2>2, <2>3, FS_EmptySet
<1> HIDE DEF C
<1>11. pool - Q < C
  <2> SUFFICES ASSUME pool - Q >= C PROVE FALSE
    BY <1>6, <1>7
  <2>1. d * (pool - Q) >= d * C
    BY <1>6, <1>7, <1>d
  <2>2. d * (pool - Q) = pool * d - d * Q /\ (d - 1) * C = d * C - C
    BY <1>6, <1>7, <1>d
  <2>3. pool * d \in Int /\ d * Q \in Int /\ d * C \in Int
    BY <1>6, <1>7, <1>d
  <2> QED
    BY <1>7, <1>8, <1>10, <2>1, <2>2, <2>3
<1> QED
  BY <1>1, <1>6, <1>9, <1>11 DEF Q, C

-----------------------------------------------------------------------------
(* Functions on 0 .. n defined by recursion: f[i] is base[i] where the     *)
(* recursion stops, and otherwise comes by step[i] from f[prev[i]] with a  *)
(* smaller prev[i].                                                        *)

IntervalRecursion(n, V, stop, base, prev, step) ==
  /\ n \in Nat
  /\ \A i \in 0 .. n : i \in stop => base[i] \in V
  /\ \A i \in 0 .. n : i \notin stop => prev[i] \in 0 .. (i - 1)
  /\ \A i \in 0 .. n, v \in V : i \notin stop => step[i][v] \in V

\* A function that satisfies the recursion with its values in V, and one of which
\* it is not known yet that its values are in V.
SolvesRecursion(f, n, V, stop, base, prev, step) ==
  /\ f \in [0 .. n -> V]
  /\ \A i \in 0 .. n : f[i] = IF i \in stop THEN base[i] ELSE step[i][f[prev[i]]]
ObeysRecursion(h, n, V, stop, base, prev, step) ==
  \A i \in 0 .. n : /\ i \in stop => h[i] = base[i]
                    /\ i \notin stop /\ h[prev[i]] \in V => h[i] = step[i][h[prev[i]]]

\* Such a function exists, with values in the given set.
LEMMA RecursionExists ==
  ASSUME NEW n, NEW V, NEW stop, NEW base, NEW prev, NEW step,
         IntervalRecursion(n, V, stop, base, prev, step)
  PROVE  \E f : SolvesRecursion(f, n, V, stop, base, prev, step)
<1> USE DEF IntervalRecursion
<1> DEFINE Val(f, i) == IF i \in stop THEN base[i] ELSE step[i][f[prev[i]]]
           G == {m \in Nat : m <= n =>
                   \E f \in [0 .. m -> V] : \A i \in 0 .. m : f[i] = Val(f, i)}
<1>1. 0 \in G
  <2> DEFINE f == [i \in 0 .. 0 |-> base[0]]
  <2>1. 0 \in stop /\ base[0] \in V
    OBVIOUS
  <2>2. f \in [0 .. 0 -> V] /\ \A i \in 0 .. 0 : f[i] = Val(f, i)
    BY <2>1
  <2> HIDE DEF f, Val
  <2> QED
    BY <2>2
<1>2. ASSUME NEW m \in G PROVE m + 1 \in G
  <2> SUFFICES ASSUME m + 1 <= n
               PROVE  \E f \in [0 .. m + 1 -> V] : \A i \in 0 .. m + 1 : f[i] = Val(f, i)
    OBVIOUS
  <2>1. m \in Nat /\ m <= n
    OBVIOUS
  <2>2. PICK f \in [0 .. m -> V] : \A i \in 0 .. m : f[i] = Val(f, i)
    BY <2>1
  <2> DEFINE g == [i \in 0 .. m + 1 |-> Val(f, i)]
  <2>3. ASSUME NEW i \in 0 .. m + 1 PROVE Val(f, i) \in V
    <3>1. i \in 0 .. n
      BY <2>1
    <3>2. CASE i \in stop
      BY <3>1, <3>2
    <3>3. CASE i \notin stop
      <4>1. prev[i] \in 0 .. m
        BY <2>1, <3>1, <3>3
      <4>2. f[prev[i]] \in V
        BY <4>1
      <4> QED
        BY <3>1, <3>3, <4>2
    <3> QED
      BY <3>2, <3>3
  <2>4. \A i \in 0 .. m : g[i] = f[i]
    <3> HIDE DEF Val
    <3> QED
      BY <2>1, <2>2
  <2>5. ASSUME NEW i \in 0 .. m + 1 PROVE Val(f, i) = Val(g, i)
    <3>1. CASE i \in stop
      BY <3>1
    <3>2. CASE i \notin stop
      <4>1. i \in 0 .. n /\ prev[i] \in 0 .. m
        BY <2>1, <3>2
      <4>2. g[prev[i]] = f[prev[i]]
        BY <2>4, <4>1
      <4> HIDE DEF g
      <4> QED
        BY <3>2, <4>2
    <3> QED
      BY <3>1, <3>2
  <2>6. g \in [0 .. m + 1 -> V] /\ \A i \in 0 .. m + 1 : g[i] = Val(f, i)
    BY <2>3
  <2> HIDE DEF g, Val
  <2> QED
    BY <2>5, <2>6
<1>3. G = Nat
  <2>1. G \in SUBSET Nat
    OBVIOUS
  <2> HIDE DEF G
  <2> QED
    BY <1>1, <1>2, <2>1, NaturalsByInduction
<1>4. n \in G
  BY <1>3
<1> QED
  BY <1>4 DEF SolvesRecursion

\* Whatever obeys the recursion is that function.
LEMMA RecursionUnique ==
  ASSUME NEW n, NEW V, NEW stop, NEW base, NEW prev, NEW step,
         IntervalRecursion(n, V, stop, base, prev, step),
         NEW f, SolvesRecursion(f, n, V, stop, base, prev, step),
         NEW h, ObeysRecursion(h, n, V, stop, base, prev, step)
  PROVE  \A i \in 0 .. n : h[i] = f[i]
<1> USE DEF SolvesRecursion, ObeysRecursion
<1> DEFINE G == {m \in Nat : \A i \in 0 .. m : i <= n => h[i] = f[i]}
<1>n. n \in Nat
  BY DEF IntervalRecursion
<1>1. ASSUME NEW m \in 0 .. n, \A i \in 0 .. m - 1 : h[i] = f[i] PROVE h[m] = f[m]
  <2>1. CASE m \in stop
    BY <2>1
  <2>2. CASE m \notin stop
    <3>1. prev[m] \in 0 .. m - 1
      BY <2>2 DEF IntervalRecursion
    <3>2. h[prev[m]] = f[prev[m]] /\ prev[m] \in 0 .. n
      BY <1>1, <1>n, <3>1
    <3> QED
      BY <2>2, <3>2
  <2> QED
    BY <2>1, <2>2
<1>2. 0 \in G
  <2>1. 0 \in 0 .. n
    BY <1>n
  <2>2. h[0] = f[0]
    BY <1>1, <2>1
  <2> QED
    BY <2>2
<1>3. ASSUME NEW m \in G PROVE m + 1 \in G
  <2>1. m \in Nat /\ \A i \in 0 .. m : i <= n => h[i] = f[i]
    OBVIOUS
  <2>2. ASSUME m + 1 <= n PROVE h[m + 1] = f[m + 1]
    <3>1. m + 1 \in 0 .. n /\ \A i \in 0 .. (m + 1) - 1 : h[i] = f[i]
      BY <1>n, <2>1, <2>2
    <3> QED
      BY <1>1, <3>1
  <2>3. \A i \in 0 .. m + 1 : i \in 0 .. m \/ i = m + 1
    BY <2>1
  <2> QED
    BY <2>1, <2>2, <2>3
<1>4. G = Nat
  <2>1. G \in SUBSET Nat
    OBVIOUS
  <2> HIDE DEF G
  <2> QED
    BY <1>2, <1>3, <2>1, NaturalsByInduction
<1>5. n \in G
  BY <1>4, <1>n
<1> QED
  BY <1>5, <1>n

\* The case in which each value comes from the one before it.
LinearRecursion(n, V, b, step) ==
  n \in Nat /\ b \in V /\ \A i \in 1 .. n, v \in V : step[i][v] \in V
SolvesLinear(f, n, V, b, step) ==
  /\ f \in [0 .. n -> V]
  /\ f[0] = b
  /\ \A i \in 1 .. n : f[i - 1] \in V /\ f[i] = step[i][f[i - 1]]

\* It has a solution.
LEMMA LinearRecursionExists ==
  ASSUME NEW n, NEW V, NEW b, NEW step, LinearRecursion(n, V, b, step)
  PROVE  \E f : SolvesLinear(f, n, V, b, step)
<1>0. n \in Nat /\ b \in V /\ \A i \in 1 .. n, v \in V : step[i][v] \in V
  BY DEF LinearRecursion
<1> DEFINE base == [i \in 0 .. n |-> b]
           prev == [i \in 0 .. n |-> i - 1]
<1>1. IntervalRecursion(n, V, {0}, base, prev, step)
  <2>1. \A i \in 0 .. n : i \notin {0} => i \in 1 .. n /\ i - 1 \in 0 .. (i - 1)
    OBVIOUS
  <2> QED
    BY <1>0, <2>1 DEF IntervalRecursion
<1>2. base[0] = b /\ \A i \in 1 .. n : prev[i] = i - 1
  BY <1>0
<1> HIDE DEF base, prev
<1>3. PICK f : SolvesRecursion(f, n, V, {0}, base, prev, step)
  BY <1>1, RecursionExists
<1>4. f \in [0 .. n -> V] /\ f[0] = base[0]
  BY <1>0, <1>3 DEF SolvesRecursion
<1>5. ASSUME NEW i \in 1 .. n PROVE f[i - 1] \in V /\ f[i] = step[i][f[i - 1]]
  <2>1. i \in 0 .. n /\ i \notin {0} /\ i - 1 \in 0 .. n
    BY <1>0
  <2> QED
    BY <1>2, <1>3, <1>4, <2>1 DEF SolvesRecursion
<1> QED
  BY <1>2, <1>4, <1>5 DEF SolvesLinear

-----------------------------------------------------------------------------
(* The emission schedule.                                                  *)

\* HalvedSubsidy is what its recursion computes.
LEMMA HalvedSubsidyIsRecursion ==
  ASSUME NEW initial \in Nat, NEW tier \in Nat
  PROVE  \E f \in [0 .. tier -> Nat] :
           /\ HalvedSubsidy(initial, tier) = f[tier]
           /\ \A i \in 0 .. tier : f[i] = IF i = 0 THEN initial ELSE f[i - 1] \div 2
<1> DEFINE Body(g) == [i \in 0 .. tier |-> IF i = 0 THEN initial ELSE g[i - 1] \div 2]
           h == CHOOSE g : g = Body(g)
           base == [i \in 0 .. tier |-> initial]
           prev == [i \in 0 .. tier |-> i - 1]
           step == [i \in 0 .. tier |-> [v \in Nat |-> v \div 2]]
<1>1. HalvedSubsidy(initial, tier) = h[tier]
  BY DEF HalvedSubsidy
<1>2. IntervalRecursion(tier, Nat, {0}, base, prev, step)
  <2>1. \A v \in Nat : v \div 2 \in Nat
    OBVIOUS
  <2> QED
    BY <2>1 DEF IntervalRecursion
<1>3. \A i \in 0 .. tier : /\ base[i] = initial /\ prev[i] = i - 1
                           /\ \A v \in Nat : step[i][v] = v \div 2
  OBVIOUS
<1> HIDE DEF base, prev, step
<1>4. PICK f : SolvesRecursion(f, tier, Nat, {0}, base, prev, step)
  BY <1>2, RecursionExists
<1>f. f \in [0 .. tier -> Nat] /\ \A i \in 0 .. tier : i # 0 => f[i - 1] \in Nat
  BY <1>4 DEF SolvesRecursion
<1>e. ASSUME NEW i \in 0 .. tier
      PROVE  f[i] = IF i = 0 THEN initial ELSE f[i - 1] \div 2
  <2>1. f[i] = IF i \in {0} THEN base[i] ELSE step[i][f[prev[i]]]
    BY <1>4 DEF SolvesRecursion
  <2>2. i # 0 => step[i][f[i - 1]] = f[i - 1] \div 2
    BY <1>3, <1>f
  <2> QED
    BY <1>3, <2>1, <2>2
<1>5. f = Body(f)
  BY <1>e, <1>f
<1>6. h = Body(h)
  <2> HIDE DEF Body
  <2> QED
    BY <1>5
<1> HIDE DEF h
<1>7. ObeysRecursion(h, tier, Nat, {0}, base, prev, step)
  <2> SUFFICES ASSUME NEW i \in 0 .. tier
               PROVE  /\ i \in {0} => h[i] = base[i]
                      /\ i \notin {0} /\ h[prev[i]] \in Nat => h[i] = step[i][h[prev[i]]]
    BY DEF ObeysRecursion
  <2>1. h[i] = IF i = 0 THEN initial ELSE h[i - 1] \div 2
    BY <1>6
  <2> QED
    BY <1>3, <2>1
<1>8. \A i \in 0 .. tier : h[i] = f[i]
  BY <1>2, <1>4, <1>7, RecursionUnique
<1>9. HalvedSubsidy(initial, tier) = f[tier]
  BY <1>1, <1>8
<1> QED
  BY <1>9, <1>e, <1>f

\* HalvingTier is what its recursion computes.
LEMMA HalvingTierIsRecursion ==
  ASSUME NEW max \in Nat, NEW cum \in Nat
  PROVE  \E f \in [0 .. max -> Nat] :
           /\ HalvingTier(cum, max) = f[max \div 2]
           /\ \A r \in 0 .. max : f[r] = IF r = 0 \/ cum < max - r THEN 0 ELSE 1 + f[r \div 2]
<1> DEFINE Stops(r) == r = 0 \/ cum < max - r
           Body(g) == [r \in 0 .. max |->
             IF r = 0 \/ cum < max - r THEN 0 ELSE 1 + g[r \div 2]]
           h == CHOOSE g : g = Body(g)
           stop == {r \in 0 .. max : Stops(r)}
           base == [r \in 0 .. max |-> 0]
           prev == [r \in 0 .. max |-> r \div 2]
           step == [r \in 0 .. max |-> [v \in Nat |-> 1 + v]]
<1>1. HalvingTier(cum, max) = h[max \div 2]
  BY DEF HalvingTier
<1>2. IntervalRecursion(max, Nat, stop, base, prev, step)
  <2>1. \A r \in 0 .. max : r # 0 => r \div 2 \in 0 .. (r - 1)
    OBVIOUS
  <2> QED
    BY <2>1 DEF IntervalRecursion
<1>3. \A r \in 0 .. max : /\ base[r] = 0 /\ prev[r] = r \div 2
                          /\ \A v \in Nat : step[r][v] = 1 + v
                          /\ r \in stop <=> (r = 0 \/ cum < max - r)
  OBVIOUS
<1> HIDE DEF base, prev, step, stop
<1>4. PICK f : SolvesRecursion(f, max, Nat, stop, base, prev, step)
  BY <1>2, RecursionExists
<1>f. f \in [0 .. max -> Nat] /\ \A r \in 0 .. max : f[r \div 2] \in Nat
  <2>1. \A r \in 0 .. max : r \div 2 \in 0 .. max
    OBVIOUS
  <2> QED
    BY <1>4, <2>1 DEF SolvesRecursion
<1>e. ASSUME NEW r \in 0 .. max
      PROVE  f[r] = IF r = 0 \/ cum < max - r THEN 0 ELSE 1 + f[r \div 2]
  <2>1. f[r] = IF r \in stop THEN base[r] ELSE step[r][f[prev[r]]]
    BY <1>4 DEF SolvesRecursion
  <2>2. step[r][f[r \div 2]] = 1 + f[r \div 2]
    BY <1>3, <1>f
  <2> QED
    BY <1>3, <2>1, <2>2
<1>5. f = Body(f)
  BY <1>e, <1>f
<1>6. h = Body(h)
  <2> HIDE DEF Body
  <2> QED
    BY <1>5
<1> HIDE DEF h
<1>7. ObeysRecursion(h, max, Nat, stop, base, prev, step)
  <2> SUFFICES ASSUME NEW r \in 0 .. max
               PROVE  /\ r \in stop => h[r] = base[r]
                      /\ r \notin stop /\ h[prev[r]] \in Nat => h[r] = step[r][h[prev[r]]]
    BY DEF ObeysRecursion
  <2>1. h[r] = IF r = 0 \/ cum < max - r THEN 0 ELSE 1 + h[r \div 2]
    BY <1>6
  <2> QED
    BY <1>3, <2>1
<1>8. \A r \in 0 .. max : h[r] = f[r]
  BY <1>2, <1>4, <1>7, RecursionUnique
<1>9. max \div 2 \in 0 .. max
  OBVIOUS
<1>10. HalvingTier(cum, max) = f[max \div 2]
  BY <1>1, <1>8, <1>9
<1> QED
  BY <1>10, <1>e, <1>f

\* NextHalvingThreshold is what its recursion computes.
LEMMA NextThresholdIsRecursion ==
  ASSUME NEW max \in Nat, NEW cum \in 0 .. max
  PROVE  \E f \in [0 .. max -> cum .. max] :
           /\ NextHalvingThreshold(cum, max) = f[max \div 2]
           /\ \A r \in 0 .. max : f[r] = IF r = 0 THEN max
                                         ELSE IF cum < max - r THEN max - r ELSE f[r \div 2]
<1> DEFINE Body(g) == [r \in 0 .. max |->
             IF r = 0 THEN max ELSE IF cum < max - r THEN max - r ELSE g[r \div 2]]
           h == CHOOSE g : g = Body(g)
           V == cum .. max
           stop == {r \in 0 .. max : r = 0 \/ cum < max - r}
           base == [r \in 0 .. max |-> max - r]
           prev == [r \in 0 .. max |-> r \div 2]
           step == [r \in 0 .. max |-> [v \in V |-> v]]
<1>1. NextHalvingThreshold(cum, max) = h[max \div 2]
  BY DEF NextHalvingThreshold
<1>2. IntervalRecursion(max, V, stop, base, prev, step)
  <2>1. \A r \in 0 .. max : r # 0 => r \div 2 \in 0 .. (r - 1)
    OBVIOUS
  <2> QED
    BY <2>1 DEF IntervalRecursion
<1>3. \A r \in 0 .. max : /\ base[r] = max - r /\ prev[r] = r \div 2
                          /\ \A v \in V : step[r][v] = v
                          /\ r \in stop <=> (r = 0 \/ cum < max - r)
  OBVIOUS
<1> HIDE DEF base, prev, step, stop, V
<1>4. PICK f : SolvesRecursion(f, max, V, stop, base, prev, step)
  BY <1>2, RecursionExists
<1>f. f \in [0 .. max -> V] /\ \A r \in 0 .. max : f[r \div 2] \in V
  <2>1. \A r \in 0 .. max : r \div 2 \in 0 .. max
    OBVIOUS
  <2> QED
    BY <1>4, <2>1 DEF SolvesRecursion
<1>e. ASSUME NEW r \in 0 .. max
      PROVE  f[r] = IF r = 0 THEN max ELSE IF cum < max - r THEN max - r ELSE f[r \div 2]
  <2>1. f[r] = IF r \in stop THEN base[r] ELSE step[r][f[prev[r]]]
    BY <1>4 DEF SolvesRecursion
  <2>2. step[r][f[r \div 2]] = f[r \div 2]
    BY <1>3, <1>f
  <2> QED
    BY <1>3, <2>1, <2>2
<1>5. f = Body(f)
  BY <1>e, <1>f
<1>6. h = Body(h)
  <2> HIDE DEF Body
  <2> QED
    BY <1>5
<1> HIDE DEF h
<1>7. ObeysRecursion(h, max, V, stop, base, prev, step)
  <2> SUFFICES ASSUME NEW r \in 0 .. max
               PROVE  /\ r \in stop => h[r] = base[r]
                      /\ r \notin stop /\ h[prev[r]] \in V => h[r] = step[r][h[prev[r]]]
    BY DEF ObeysRecursion
  <2>1. h[r] = IF r = 0 THEN max ELSE IF cum < max - r THEN max - r ELSE h[r \div 2]
    BY <1>6
  <2> QED
    BY <1>3, <2>1
<1>8. \A r \in 0 .. max : h[r] = f[r]
  BY <1>2, <1>4, <1>7, RecursionUnique
<1>9. max \div 2 \in 0 .. max
  OBVIOUS
<1>10. NextHalvingThreshold(cum, max) = f[max \div 2]
  BY <1>1, <1>8, <1>9
<1> QED
  BY <1>10, <1>e, <1>f DEF V

\* A block emits at least nothing and at most what is left up to the cap.
LEMMA SubsidyBounds ==
  ASSUME NEW max \in Nat, NEW cum \in 0 .. max, NEW initial \in Nat
  PROVE  /\ NextBlockSubsidy(cum, max, initial) \in Nat
         /\ cum + NextBlockSubsidy(cum, max, initial) \in cum .. max
<1>0. max \div 2 \in 0 .. max
  OBVIOUS
<1>1. NextHalvingThreshold(cum, max) \in cum .. max
  <2>1. PICK f \in [0 .. max -> cum .. max] : NextHalvingThreshold(cum, max) = f[max \div 2]
    BY NextThresholdIsRecursion
  <2> QED
    BY <1>0, <2>1
<1>2. HalvedSubsidy(initial, HalvingTier(cum, max)) \in Nat
  <2> DEFINE tier == HalvingTier(cum, max)
  <2>0. cum \in Nat
    OBVIOUS
  <2>1. PICK f \in [0 .. max -> Nat] : tier = f[max \div 2]
    BY <2>0, HalvingTierIsRecursion
  <2>2. tier \in Nat
    BY <1>0, <2>1
  <2> HIDE DEF tier
  <2>3. PICK g \in [0 .. tier -> Nat] :
          /\ HalvedSubsidy(initial, tier) = g[tier]
          /\ \A i \in 0 .. tier : g[i] = IF i = 0 THEN initial ELSE g[i - 1] \div 2
    BY <2>2, HalvedSubsidyIsRecursion
  <2>4. HalvedSubsidy(initial, tier) \in Nat
    <3>1. tier \in 0 .. tier
      BY <2>2
    <3> QED
      BY <2>3, <3>1
  <2> QED
    BY <2>4 DEF tier
<1> QED
  BY <1>1, <1>2 DEF NextBlockSubsidy, Least

\* The recursion of CumulativeAfter, as one for all numbers of blocks.
AfterBase(cum) == [i \in Nat |-> cum]
AfterPrev == [i \in Nat |-> i - 1]
AfterStep(cum, max, initial) ==
  [i \in Nat |-> [v \in cum .. max |-> v + NextBlockSubsidy(v, max, initial)]]
AfterSolution(f, cum, n, max, initial) ==
  SolvesRecursion(f, n, cum .. max, {0}, AfterBase(cum), AfterPrev, AfterStep(cum, max, initial))

\* CumulativeAfter is what that recursion computes.
LEMMA AfterIsRecursion ==
  ASSUME NEW max \in Nat, NEW cum \in 0 .. max, NEW initial \in Nat, NEW n \in Nat
  PROVE  /\ IntervalRecursion(n, cum .. max, {0}, AfterBase(cum), AfterPrev,
                              AfterStep(cum, max, initial))
         /\ \E f : /\ AfterSolution(f, cum, n, max, initial)
                   /\ CumulativeAfter(cum, n, max, initial) = f[n]
<1> DEFINE Body(g) == [i \in 0 .. n |->
             IF i = 0 THEN cum ELSE g[i - 1] + NextBlockSubsidy(g[i - 1], max, initial)]
           h == CHOOSE g : g = Body(g)
           V == cum .. max
           base == AfterBase(cum)
           prev == AfterPrev
           step == AfterStep(cum, max, initial)
<1>1. CumulativeAfter(cum, n, max, initial) = h[n]
  BY DEF CumulativeAfter
<1>2. \A i \in 0 .. n : /\ base[i] = cum /\ prev[i] = i - 1
                        /\ \A v \in V : step[i][v] = v + NextBlockSubsidy(v, max, initial)
  BY DEF AfterBase, AfterPrev, AfterStep
<1>3. \A v \in V : v + NextBlockSubsidy(v, max, initial) \in V
  <2> SUFFICES ASSUME NEW v \in V PROVE v + NextBlockSubsidy(v, max, initial) \in V
    OBVIOUS
  <2>1. v \in 0 .. max
    OBVIOUS
  <2>2. v + NextBlockSubsidy(v, max, initial) \in v .. max
    BY <2>1, SubsidyBounds
  <2> QED
    BY <2>1, <2>2
<1>v. cum \in V
  OBVIOUS
<1> HIDE DEF base, prev, step, V
<1>4. IntervalRecursion(n, V, {0}, base, prev, step)
  <2>1. \A i \in 0 .. n : i \notin {0} => i - 1 \in 0 .. (i - 1)
    OBVIOUS
  <2> QED
    BY <1>2, <1>3, <1>v, <2>1 DEF IntervalRecursion
<1>5. PICK f : SolvesRecursion(f, n, V, {0}, base, prev, step)
  BY <1>4, RecursionExists
<1>6. f = Body(f)
  <2>1. f \in [0 .. n -> V] /\ \A i \in 0 .. n : i # 0 => f[i - 1] \in V
    BY <1>5 DEF SolvesRecursion
  <2>2. ASSUME NEW i \in 0 .. n
        PROVE  f[i] = IF i = 0 THEN cum ELSE f[i - 1] + NextBlockSubsidy(f[i - 1], max, initial)
    <3>1. f[i] = IF i \in {0} THEN base[i] ELSE step[i][f[prev[i]]]
      BY <1>5 DEF SolvesRecursion
    <3>2. i # 0 => step[i][f[i - 1]] = f[i - 1] + NextBlockSubsidy(f[i - 1], max, initial)
      BY <1>2, <2>1
    <3> QED
      BY <1>2, <3>1, <3>2
  <2> QED
    BY <2>1, <2>2
<1>7. h = Body(h)
  <2> HIDE DEF Body
  <2> QED
    BY <1>6
<1> HIDE DEF h
<1>8. ObeysRecursion(h, n, V, {0}, base, prev, step)
  <2> SUFFICES ASSUME NEW i \in 0 .. n
               PROVE  /\ i \in {0} => h[i] = base[i]
                      /\ i \notin {0} /\ h[prev[i]] \in V => h[i] = step[i][h[prev[i]]]
    BY DEF ObeysRecursion
  <2>1. h[i] = IF i = 0 THEN cum ELSE h[i - 1] + NextBlockSubsidy(h[i - 1], max, initial)
    BY <1>7
  <2> QED
    BY <1>2, <2>1
<1>9. \A i \in 0 .. n : h[i] = f[i]
  BY <1>4, <1>5, <1>8, RecursionUnique
<1>10. h[n] = f[n]
  BY <1>9
<1> QED
  BY <1>1, <1>4, <1>5, <1>10 DEF AfterSolution, V, base, prev, step

\* One more block emits one more subsidy; no number of blocks passes the cap.
LEMMA AfterOneMore ==
  ASSUME NEW max \in Nat, NEW cum \in 0 .. max, NEW initial \in Nat, NEW n \in Nat
  PROVE  /\ CumulativeAfter(cum, n, max, initial) \in cum .. max
         /\ CumulativeAfter(cum, 0, max, initial) = cum
         /\ CumulativeAfter(cum, n + 1, max, initial) =
              CumulativeAfter(cum, n, max, initial)
                + NextBlockSubsidy(CumulativeAfter(cum, n, max, initial), max, initial)
<1> DEFINE V == cum .. max
           base == AfterBase(cum)
           step == AfterStep(cum, max, initial)
           c == CumulativeAfter(cum, n, max, initial)
<1>1. PICK f : AfterSolution(f, cum, n, max, initial) /\ c = f[n]
  BY AfterIsRecursion
<1>2. c \in V
  <2>1. f \in [0 .. n -> V]
    BY <1>1 DEF AfterSolution, SolvesRecursion
  <2> QED
    BY <1>1, <2>1
<1>3. CumulativeAfter(cum, 0, max, initial) = cum
  <2>0. 0 \in Nat
    OBVIOUS
  <2>1. PICK z : AfterSolution(z, cum, 0, max, initial) /\ CumulativeAfter(cum, 0, max, initial) = z[0]
    BY <2>0, AfterIsRecursion
  <2>2. z[0] = AfterBase(cum)[0]
    BY <2>1 DEF AfterSolution, SolvesRecursion
  <2> QED
    BY <2>1, <2>2 DEF AfterBase
<1>4. n + 1 \in Nat
  OBVIOUS
<1>5. PICK g : AfterSolution(g, cum, n + 1, max, initial)
               /\ CumulativeAfter(cum, n + 1, max, initial) = g[n + 1]
  BY <1>4, AfterIsRecursion
<1>6. /\ g \in [0 .. n + 1 -> V]
      /\ \A i \in 0 .. n + 1 : g[i] = IF i \in {0} THEN base[i] ELSE step[i][g[AfterPrev[i]]]
  BY <1>5 DEF AfterSolution, SolvesRecursion
<1>7. ObeysRecursion(g, n, V, {0}, base, AfterPrev, step)
  <2>1. \A i \in 0 .. n : i \in 0 .. n + 1
    OBVIOUS
  <2> HIDE DEF V, base, step
  <2> QED
    BY <1>6, <2>1 DEF ObeysRecursion
<1>8. \A i \in 0 .. n : g[i] = f[i]
  <2>1. IntervalRecursion(n, V, {0}, base, AfterPrev, step)
    BY AfterIsRecursion
  <2>2. SolvesRecursion(f, n, V, {0}, base, AfterPrev, step)
    BY <1>1 DEF AfterSolution
  <2> HIDE DEF V, base, step
  <2> QED
    BY <1>7, <2>1, <2>2, RecursionUnique
<1>9. g[n] = c
  BY <1>1, <1>8
<1>10. g[n + 1] = step[n + 1][g[AfterPrev[n + 1]]]
  BY <1>6
<1>11. AfterPrev[n + 1] = n
  BY DEF AfterPrev
<1>12. step[n + 1][c] = c + NextBlockSubsidy(c, max, initial)
  <2> HIDE DEF c
  <2> QED
    BY <1>2 DEF AfterStep
<1> HIDE DEF c, step
<1> QED
  BY <1>2, <1>3, <1>5, <1>9, <1>10, <1>11, <1>12 DEF c

\* The emission of a number of blocks does not depend on how an epoch boundary
\* splits them (ComputeEpochEmission is called once per epoch), more blocks never
\* take anything back, and no number of blocks takes it past the cap.
THEOREM EmissionAdditive ==
  ASSUME NEW max \in Nat, NEW cum \in 0 .. max, NEW initial \in Nat, NEW n \in Nat, NEW m \in Nat
  PROVE  /\ CumulativeAfter(CumulativeAfter(cum, n, max, initial), m, max, initial) =
              CumulativeAfter(cum, n + m, max, initial)
         /\ CumulativeAfter(cum, n + m, max, initial)
              \in CumulativeAfter(cum, n, max, initial) .. max
<1> DEFINE c == CumulativeAfter(cum, n, max, initial)
           G == {k \in Nat : CumulativeAfter(c, k, max, initial) =
                               CumulativeAfter(cum, n + k, max, initial)}
<1>1. c \in 0 .. max
  <2>1. c \in cum .. max
    BY AfterOneMore
  <2> QED
    BY <2>1
<1> HIDE DEF c
<1>2. 0 \in G
  <2>1. CumulativeAfter(c, 0, max, initial) = c
    BY <1>1, AfterOneMore
  <2>2. n + 0 = n
    OBVIOUS
  <2> QED
    BY <2>1, <2>2 DEF c
<1>3. ASSUME NEW k \in G PROVE k + 1 \in G
  <2>1. k \in Nat /\ n + k \in Nat /\ n + (k + 1) = (n + k) + 1
    OBVIOUS
  <2>2. CumulativeAfter(c, k + 1, max, initial) =
          CumulativeAfter(c, k, max, initial)
            + NextBlockSubsidy(CumulativeAfter(c, k, max, initial), max, initial)
    BY <1>1, <2>1, AfterOneMore
  <2>3. CumulativeAfter(cum, (n + k) + 1, max, initial) =
          CumulativeAfter(cum, n + k, max, initial)
            + NextBlockSubsidy(CumulativeAfter(cum, n + k, max, initial), max, initial)
    BY <2>1, AfterOneMore
  <2>4. CumulativeAfter(c, k, max, initial) = CumulativeAfter(cum, n + k, max, initial)
    OBVIOUS
  <2>5. CumulativeAfter(c, k + 1, max, initial) = CumulativeAfter(cum, n + (k + 1), max, initial)
    BY <2>1, <2>2, <2>3, <2>4
  <2> QED
    BY <2>1, <2>5
<1>4. G = Nat
  <2>1. G \in SUBSET Nat
    OBVIOUS
  <2> HIDE DEF G
  <2> QED
    BY <1>2, <1>3, <2>1, NaturalsByInduction
<1>5. m \in G
  BY <1>4
<1>6. CumulativeAfter(c, m, max, initial) \in c .. max
  BY <1>1, AfterOneMore
<1> QED
  BY <1>5, <1>6 DEF c

=============================================================================
