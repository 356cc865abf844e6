----------------------------- MODULE SumTheorems -----------------------------
(***************************************************************************)
(* Facts about SumFunctionOnSet of the community module Functions, which   *)
(* the balances of this project are stated with.  Induction is replaced by *)
(* minimal counterexamples: a nonempty set of naturals has a least         *)
(* element, so a nonempty set of subsets of a finite set has one none of   *)
(* whose proper subsets is in it.                                          *)
(***************************************************************************)
EXTENDS Integers, FiniteSets, Functions, FiniteSetTheorems,
        WellFoundedInduction, TLAPS

\* A nonempty set of natural numbers has a least element.
LEMMA LeastNat ==
  ASSUME NEW T \in SUBSET Nat, T # {}
  PROVE  \E n \in T : \A m \in T : n <= m
<1> DEFINE R == {p \in Nat \X Nat : p[1] < p[2]}
<1>1. OpToRel(<, Nat) = R
  BY DEF OpToRel
<1>2. IsWellFoundedOn(R, Nat)
  BY <1>1, NatLessThanWellFounded
<1>3. PICK x \in T : \A y \in T : <<y, x>> \notin R
  BY <1>2, WFMin
<1>4. \A y \in T : x <= y
  <2> TAKE y \in T
  <2>1. <<y, x>> \in Nat \X Nat
    OBVIOUS
  <2>2. ~(y < x)
    BY <1>3, <2>1
  <2> QED
    BY <2>2
<1> QED
  BY <1>4

\* A set with 0 that is closed under successor holds every natural number.
LEMMA AllNaturals ==
  ASSUME NEW A, 0 \in A, \A n \in Nat : n \in A => n + 1 \in A
  PROVE  Nat \subseteq A
<1> SUFFICES ASSUME ~(Nat \subseteq A)
             PROVE  FALSE
  OBVIOUS
<1>1. PICK n \in Nat \ A : \A m \in Nat \ A : n <= m
  BY LeastNat
<1>2. n # 0
  BY <1>1
<1>3. n - 1 \in Nat /\ n - 1 \in A /\ (n - 1) + 1 = n
  BY <1>1, <1>2
<1> QED
  BY <1>1, <1>3

\* Among subsets of a finite set there is one with no proper subset among them.
LEMMA MinimalSubset ==
  ASSUME NEW S, IsFiniteSet(S), NEW B \in SUBSET SUBSET S, B # {}
  PROVE  \E T \in B : \A U \in SUBSET T : U # T => U \notin B
<1>1. \A T \in B : IsFiniteSet(T) /\ Cardinality(T) \in Nat
  BY FS_Subset, FS_CardinalityType
<1> DEFINE C == {n \in Nat : \E T \in B : n = Cardinality(T)}
<1>2. C \in SUBSET Nat /\ C # {}
  BY <1>1
<1> HIDE DEF C
<1>3. PICK n \in C : \A m \in C : n <= m
  BY <1>2, LeastNat
<1>4. PICK T \in B : n = Cardinality(T)
  BY <1>3 DEF C
<1>5. ASSUME NEW U \in SUBSET T, U # T, U \in B
      PROVE  FALSE
  <2>1. Cardinality(U) <= Cardinality(T) /\ Cardinality(U) # Cardinality(T)
    BY <1>1, <1>5, FS_Subset
  <2>2. Cardinality(U) \in C
    BY <1>1, <1>5 DEF C
  <2> QED
    BY <1>1, <1>3, <1>4, <1>5, <2>1, <2>2
<1> QED
  BY <1>5

-----------------------------------------------------------------------------
(***************************************************************************)
(* The recursive function that defines a sum.                              *)
(***************************************************************************)
First(s) == CHOOSE x \in s : TRUE

\* g adds up f along the subsets that D holds.
AddsUpOn(f, D, g) ==
  g = [s \in D |-> IF s = {} THEN 0 ELSE f[First(s)] + g[s \ {First(s)}]]

AddsUp(f, S, g) == AddsUpOn(f, SUBSET S, g)

\* The fold of the library is the choice of a function that adds up.
LEMMA SumIsChosen ==
  ASSUME NEW f, NEW S
  PROVE  SumFunctionOnSet(f, S) = (CHOOSE g : AddsUp(f, S, g))[S]
BY Zenon DEF SumFunctionOnSet, FoldFunctionOnSet, MapThenFoldSet, AddsUp,
               AddsUpOn, First

\* The element a set starts with is in it.
LEMMA FirstIn ==
  ASSUME NEW s, s # {}
  PROVE  First(s) \in s
BY DEF First

\* What a function that adds up says of a set it is defined on.
LEMMA AddsUpValue ==
  ASSUME NEW f, NEW D, NEW g, AddsUpOn(f, D, g), NEW s \in D
  PROVE  /\ s = {} => g[s] = 0
         /\ s # {} => g[s] = f[First(s)] + g[s \ {First(s)}]
<1> DEFINE v(t) == IF t = {} THEN 0 ELSE f[First(t)] + g[t \ {First(t)}]
<1>1. g = [t \in D |-> v(t)]
  BY DEF AddsUpOn
<1> HIDE DEF v
<1>2. g[s] = v(s)
  BY <1>1
<1> QED
  BY <1>2 DEF v

\* Nothing adds up to 0.
LEMMA AddsUpEmpty ==
  ASSUME NEW f, NEW S, NEW g, AddsUp(f, S, g)
  PROVE  g[{}] = 0
<1>1. {} \in SUBSET S
  OBVIOUS
<1> DEFINE D == SUBSET S
<1>2. AddsUpOn(f, D, g) /\ {} \in D
  BY <1>1 DEF AddsUp
<1> HIDE DEF D
<1>3. \A s \in D : s = {} => g[s] = 0
  BY <1>2, AddsUpValue
<1> QED
  BY <1>2, <1>3

TakesFirst(f, S, g) ==
  \A s \in SUBSET S : s # {} => g[s] = f[First(s)] + g[s \ {First(s)}]

\* A set adds up to its first element and the rest.
LEMMA AddsUpStep ==
  ASSUME NEW f, NEW S, NEW g, AddsUp(f, S, g)
  PROVE  TakesFirst(f, S, g)
<1> DEFINE D == SUBSET S
<1>1. AddsUpOn(f, D, g)
  BY DEF AddsUp
<1> HIDE DEF D
<1>2. \A s \in D : s # {} => g[s] = f[First(s)] + g[s \ {First(s)}]
  BY <1>1, AddsUpValue
<1> QED
  BY <1>2 DEF D, TakesFirst

\* The recursion has a solution: one for the subsets of at most n elements
\* extends to those of n + 1.
LEMMA AddsUpExists ==
  ASSUME NEW f, NEW S, IsFiniteSet(S)
  PROVE  \E g : AddsUp(f, S, g)
<1> DEFINE Sub(n) == {s \in SUBSET S : Cardinality(s) <= n}
           A == {n \in Nat : \E g : AddsUpOn(f, Sub(n), g)}
<1>1. \A s \in SUBSET S : IsFiniteSet(s) /\ Cardinality(s) \in Nat
  BY FS_Subset, FS_CardinalityType
<1>2. 0 \in A
  <2>1. \A s \in Sub(0) : s = {}
    BY <1>1, FS_EmptySet
  <2> DEFINE g == [s \in Sub(0) |-> 0]
  <2>2. AddsUpOn(f, Sub(0), g)
    BY <2>1 DEF AddsUpOn
  <2> QED
    BY <2>2
<1>3. ASSUME NEW n \in Nat, n \in A
      PROVE  n + 1 \in A
  <2>1. PICK g : AddsUpOn(f, Sub(n), g)
    BY <1>3
  <2> DEFINE v(s, h) == IF s = {} THEN 0 ELSE f[First(s)] + h[s \ {First(s)}]
             g2 == [s \in Sub(n + 1) |-> v(s, g)]
  <2>2. \A s \in Sub(n) : s \in Sub(n + 1)
    BY <1>1
  <2>3. \A s \in Sub(n) : g[s] = v(s, g)
    <3> TAKE s \in Sub(n)
    <3> HIDE DEF Sub
    <3> QED
      BY <2>1, AddsUpValue
  <2>4. \A s \in Sub(n) : g2[s] = g[s]
    BY <2>2, <2>3
  <2>5. ASSUME NEW s \in Sub(n + 1), s # {}
        PROVE  s \ {First(s)} \in Sub(n)
    <3>1. First(s) \in s
      BY <2>5, FirstIn
    <3>2. Cardinality(s \ {First(s)}) = Cardinality(s) - 1
      BY <1>1, <3>1, FS_RemoveElement
    <3> QED
      BY <1>1, <3>2
  <2>6. \A s \in Sub(n + 1) : v(s, g) = v(s, g2)
    BY <2>4, <2>5
  <2>7. g2 = [s \in Sub(n + 1) |-> v(s, g2)]
    <3> HIDE DEF v
    <3> QED
      BY <2>6
  <2>8. AddsUpOn(f, Sub(n + 1), g2)
    <3> HIDE DEF g2
    <3> QED
      BY <2>7 DEF AddsUpOn
  <2> HIDE DEF Sub, g2
  <2> QED
    BY <2>8
<1>4. Cardinality(S) \in A
  <2> HIDE DEF A
  <2> QED
    BY <1>1, <1>2, <1>3, AllNaturals
<1>5. Sub(Cardinality(S)) = SUBSET S
  BY <1>1, FS_Subset
<1> QED
  BY <1>4, <1>5 DEF AddsUp

\* It has only one, which depends on no values of f but those summed.
LEMMA AddsUpUnique ==
  ASSUME NEW S, IsFiniteSet(S), NEW T, T \in SUBSET S, NEW f, NEW h,
         NEW g, AddsUp(f, S, g),
         NEW k, AddsUp(h, T, k)
  PROVE  (\A x \in T : f[x] = h[x]) => g[T] = k[T]
<1> SUFFICES ASSUME \A x \in T : f[x] = h[x]
             PROVE  g[T] = k[T]
  OBVIOUS
<1>6. TakesFirst(f, S, g) /\ TakesFirst(h, T, k)
  BY AddsUpStep
<1> DEFINE B == {s \in SUBSET T : g[s] # k[s]}
<1> SUFFICES ASSUME B # {}
             PROVE  FALSE
  OBVIOUS
<1>1. IsFiniteSet(T)
  BY FS_Subset
<1>2. PICK s \in B : \A u \in SUBSET s : u # s => u \notin B
  <2>1. B \in SUBSET SUBSET T
    OBVIOUS
  <2> HIDE DEF B
  <2> QED
    BY <1>1, <2>1, MinimalSubset
<1>3. s \in SUBSET S /\ s \in SUBSET T
  OBVIOUS
<1>4. CASE s = {}
  <2>1. g[s] = 0
    BY <1>3, <1>4, AddsUpEmpty
  <2>2. k[s] = 0
    BY <1>3, <1>4, AddsUpEmpty
  <2> QED
    BY <2>1, <2>2
<1>5. CASE s # {}
  <2>1. First(s) \in s
    BY <1>5, FirstIn
  <2>2. g[s \ {First(s)}] = k[s \ {First(s)}]
    BY <1>2, <1>3, <2>1
  <2>3. g[s] = f[First(s)] + g[s \ {First(s)}]
    BY <1>3, <1>5, <1>6 DEF TakesFirst
  <2>4. k[s] = h[First(s)] + k[s \ {First(s)}]
    BY <1>3, <1>5, <1>6 DEF TakesFirst
  <2> QED
    BY <1>3, <2>1, <2>2, <2>3, <2>4
<1> QED
  BY <1>4, <1>5

\* So the sum of a subset is what the recursion for the whole set says of it.
LEMMA SumValue ==
  ASSUME NEW S, IsFiniteSet(S), NEW f, NEW g, AddsUp(f, S, g),
         NEW T \in SUBSET S
  PROVE  SumFunctionOnSet(f, T) = g[T]
<1>1. IsFiniteSet(T)
  BY FS_Subset
<1> DEFINE k == CHOOSE k : AddsUp(f, T, k)
<1>2. AddsUp(f, T, k)
  BY <1>1, AddsUpExists
<1>3. SumFunctionOnSet(f, T) = k[T]
  BY SumIsChosen
<1> HIDE DEF k
<1>4. \A x \in T : f[x] = f[x]
  OBVIOUS
<1>5. g[T] = k[T]
  BY <1>2, <1>4, AddsUpUnique, SMT
<1> QED
  BY <1>3, <1>5

-----------------------------------------------------------------------------
(***************************************************************************)
(* What proofs about the models cite.                                      *)
(***************************************************************************)
LEMMA SumOfNothing ==
  ASSUME NEW f
  PROVE  SumFunctionOnSet(f, {}) = 0
<1>1. PICK g : AddsUp(f, {}, g)
  BY AddsUpExists, FS_EmptySet
<1>2. SumFunctionOnSet(f, {}) = g[{}]
  BY <1>1, SumValue, FS_EmptySet
<1> QED
  BY <1>1, <1>2, AddsUpEmpty

\* Only the values that are summed matter.
LEMMA SumSame ==
  ASSUME NEW S, IsFiniteSet(S), NEW f, NEW h, \A x \in S : f[x] = h[x]
  PROVE  SumFunctionOnSet(f, S) = SumFunctionOnSet(h, S)
<1>1. PICK g : AddsUp(f, S, g)
  BY AddsUpExists
<1>2. PICK k : AddsUp(h, S, k)
  BY AddsUpExists
<1>3. SumFunctionOnSet(f, S) = g[S] /\ SumFunctionOnSet(h, S) = k[S]
  BY <1>1, <1>2, SumValue
<1>4. S \in SUBSET S
  OBVIOUS
<1>5. g[S] = k[S]
  BY <1>1, <1>2, <1>4, AddsUpUnique, SMT
<1> QED
  BY <1>3, <1>5

\* A sum over a set that is closed under addition stays in it.
LEMMA SumType ==
  ASSUME NEW S, IsFiniteSet(S), NEW f, NEW N, 0 \in N,
         \A a, b \in N : a + b \in N, \A x \in S : f[x] \in N
  PROVE  SumFunctionOnSet(f, S) \in N
<1>1. PICK g : AddsUp(f, S, g)
  BY AddsUpExists
<1>2. SumFunctionOnSet(f, S) = g[S]
  BY <1>1, SumValue
<1>6. \A s \in SUBSET S : s # {} => g[s] = f[First(s)] + g[s \ {First(s)}]
  BY <1>1, AddsUpStep DEF TakesFirst
<1> DEFINE B == {s \in SUBSET S : g[s] \notin N}
<1> SUFFICES ASSUME B # {}
             PROVE  FALSE
  BY <1>2
<1>3. PICK s \in B : \A u \in SUBSET s : u # s => u \notin B
  <2>1. B \in SUBSET SUBSET S
    OBVIOUS
  <2> HIDE DEF B
  <2> QED
    BY <2>1, MinimalSubset
<1>4. CASE s = {}
  BY <1>1, <1>4, AddsUpEmpty
<1>5. CASE s # {}
  <2>1. First(s) \in s
    BY <1>5, FirstIn
  <2>2. g[s \ {First(s)}] \in N
    BY <1>3, <2>1
  <2>3. g[s] = f[First(s)] + g[s \ {First(s)}]
    BY <1>5, <1>6
  <2> QED
    BY <2>1, <2>2, <2>3
<1> QED
  BY <1>4, <1>5

\* A sum of integers is an integer.
LEMMA SumInt ==
  ASSUME NEW S, IsFiniteSet(S), NEW f, \A x \in S : f[x] \in Int
  PROVE  SumFunctionOnSet(f, S) \in Int
<1>1. 0 \in Int /\ \A a, b \in Int : a + b \in Int
  OBVIOUS
<1> QED
  BY <1>1, SumType, Zenon

\* A sum of naturals is a natural.
LEMMA SumNat ==
  ASSUME NEW S, IsFiniteSet(S), NEW f, \A x \in S : f[x] \in Nat
  PROVE  SumFunctionOnSet(f, S) \in Nat
<1>1. 0 \in Nat /\ \A a, b \in Nat : a + b \in Nat
  OBVIOUS
<1> QED
  BY <1>1, SumType, Zenon

\* A sum of zeros.
LEMMA SumOfZeros ==
  ASSUME NEW S, IsFiniteSet(S), NEW f, \A x \in S : f[x] = 0
  PROVE  SumFunctionOnSet(f, S) = 0
<1>1. \A x \in S : f[x] \in {0}
  OBVIOUS
<1>2. 0 \in {0} /\ \A a, b \in {0} : a + b \in {0}
  OBVIOUS
<1>3. SumFunctionOnSet(f, S) \in {0}
  BY <1>1, <1>2, SumType, Zenon
<1> QED
  BY <1>3

\* The order of addition does not matter: any element can be taken first.
LEMMA SumRemove ==
  ASSUME NEW S, IsFiniteSet(S), NEW f, \A x \in S : f[x] \in Int, NEW x \in S
  PROVE  SumFunctionOnSet(f, S) = f[x] + SumFunctionOnSet(f, S \ {x})
<1>1. PICK g : AddsUp(f, S, g)
  BY AddsUpExists
<1>2. \A s \in SUBSET S : SumFunctionOnSet(f, s) = g[s]
  BY <1>1, SumValue
<1>3. \A s \in SUBSET S : g[s] \in Int
  <2> TAKE s \in SUBSET S
  <2>1. IsFiniteSet(s)
    BY FS_Subset
  <2> QED
    BY <1>2, <2>1, SumInt
<1> DEFINE B == {s \in SUBSET S : \E y \in s : g[s] # f[y] + g[s \ {y}]}
<1> SUFFICES ASSUME B # {}
             PROVE  FALSE
  <2>1. S \ {x} \in SUBSET S /\ S \in SUBSET S
    OBVIOUS
  <2>2. B = {} => g[S] = f[x] + g[S \ {x}]
    OBVIOUS
  <2> QED
    BY <1>2, <2>1, <2>2
<1>4. PICK s \in B : \A u \in SUBSET s : u # s => u \notin B
  <2>1. B \in SUBSET SUBSET S
    OBVIOUS
  <2> HIDE DEF B
  <2> QED
    BY <2>1, MinimalSubset
<1>5. PICK y \in s : g[s] # f[y] + g[s \ {y}]
  OBVIOUS
<1> DEFINE c == First(s)
<1>6. c \in s
  BY <1>5, FirstIn
<1>7. g[s] = f[c] + g[s \ {c}]
  BY <1>1, <1>5, AddsUpStep DEF TakesFirst
<1> HIDE DEF c
<1>8. y # c
  BY <1>5, <1>7
<1>9. g[s \ {c}] = f[y] + g[(s \ {c}) \ {y}]
  <2>1. s \ {c} \in SUBSET s /\ s \ {c} # s /\ y \in s \ {c}
    BY <1>5, <1>6, <1>8
  <2> QED
    BY <1>4, <2>1
<1>10. g[s \ {y}] = f[c] + g[(s \ {y}) \ {c}]
  <2>1. s \ {y} \in SUBSET s /\ s \ {y} # s /\ c \in s \ {y}
    BY <1>5, <1>6, <1>8
  <2> QED
    BY <1>4, <2>1
<1>11. (s \ {y}) \ {c} = (s \ {c}) \ {y}
  OBVIOUS
<1>12. /\ f[y] \in Int
       /\ f[c] \in Int
       /\ g[(s \ {c}) \ {y}] \in Int
  BY <1>3, <1>6
<1>13. \A i, j, k \in Int : i + (j + k) = j + (i + k)
  OBVIOUS
<1>14. f[c] + (f[y] + g[(s \ {c}) \ {y}]) = f[y] + (f[c] + g[(s \ {c}) \ {y}])
  BY <1>12, <1>13
<1> QED
  BY <1>5, <1>7, <1>9, <1>10, <1>11, <1>14

\* The sum over a set with one element more.
LEMMA SumAdd ==
  ASSUME NEW S, IsFiniteSet(S), NEW f, NEW x, x \notin S,
         \A y \in S \cup {x} : f[y] \in Int
  PROVE  SumFunctionOnSet(f, S \cup {x}) = f[x] + SumFunctionOnSet(f, S)
<1>1. IsFiniteSet(S \cup {x})
  BY FS_AddElement
<1>2. (S \cup {x}) \ {x} = S
  OBVIOUS
<1> QED
  BY <1>1, <1>2, SumRemove

\* Changing one value of what is summed changes the sum by the difference.
LEMMA SumUpdate ==
  ASSUME NEW S, IsFiniteSet(S), NEW f, NEW h, NEW x \in S,
         \A y \in S : f[y] \in Int /\ h[y] \in Int,
         \A y \in S \ {x} : h[y] = f[y]
  PROVE  SumFunctionOnSet(h, S) = SumFunctionOnSet(f, S) + h[x] - f[x]
<1>1. IsFiniteSet(S \ {x})
  BY FS_RemoveElement
<1>2. SumFunctionOnSet(h, S \ {x}) = SumFunctionOnSet(f, S \ {x})
  BY <1>1, SumSame
<1>3. SumFunctionOnSet(f, S \ {x}) \in Int
  BY <1>1, SumInt
<1>4. /\ SumFunctionOnSet(f, S) = f[x] + SumFunctionOnSet(f, S \ {x})
      /\ SumFunctionOnSet(h, S) = h[x] + SumFunctionOnSet(h, S \ {x})
  BY SumRemove
<1> QED
  BY <1>2, <1>3, <1>4
=============================================================================
