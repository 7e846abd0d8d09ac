-------------------------- MODULE ArithmeticFacts --------------------------
(***************************************************************************)
(* What the proofs need of natural numbers and of sums over finite sets.   *)
(***************************************************************************)
EXTENDS Integers, Functions, FiniteSetTheorems, WellFoundedInduction, TLAPS

\* A set of naturals has a least member.
LEMMA LeastNatural ==
    ASSUME NEW T \in SUBSET Nat, T # {}
    PROVE  \E n \in T : \A m \in T : n <= m
<1> DEFINE R == OpToRel(<, Nat)
<1>1. \A x, y \in Nat : <<y, x>> \in R <=> y < x
  BY DEF OpToRel
<1>2. IsWellFoundedOn(R, Nat)
  BY NatLessThanWellFounded
<1> HIDE DEF R
<1>3. PICK n \in T : \A m \in T : ~(<<m, n>> \in R)
  BY <1>2, WFMin
<1>4. n \in Nat /\ \A m \in T : m \in Nat /\ ~(m < n)
  BY <1>1, <1>3
<1>5. \A m \in T : n <= m
  BY <1>4
<1>6. QED
  BY <1>5

\* What holds of a subset of a finite set when it holds of all that are strictly
\* smaller holds of the set.
LEMMA SubsetInduction ==
    ASSUME NEW S, IsFiniteSet(S), NEW G,
           \A T \in SUBSET S : (\A U \in SUBSET T : U # T => U \in G) => T \in G
    PROVE  \A T \in SUBSET S : T \in G
<1> DEFINE Bad == {T \in SUBSET S : T \notin G}
           Sizes == {Cardinality(T) : T \in Bad}
<1>1. SUFFICES ASSUME Bad # {} PROVE FALSE
  OBVIOUS
<1>2. \A T \in SUBSET S : IsFiniteSet(T) /\ Cardinality(T) \in Nat
  BY FS_Subset, FS_CardinalityType
<1>3. PICK n \in Sizes : \A m \in Sizes : n <= m
  <2>1. Sizes \in SUBSET Nat /\ Sizes # {}
    BY <1>1, <1>2
  <2> HIDE DEF Sizes
  <2> QED
    BY <2>1, LeastNatural
<1>4. PICK T \in Bad : Cardinality(T) = n
  OBVIOUS
<1>5. ASSUME NEW U \in SUBSET T, U # T PROVE U \in G
  <2>1. Cardinality(U) < Cardinality(T)
    BY <1>2, <1>5, FS_Subset
  <2>2. U \notin Bad
    BY <2>1, <1>2, <1>3, <1>4
  <2> QED
    BY <2>2
<1> QED
  BY <1>4, <1>5

\* A finite set of naturals has a greatest member.
LEMMA GreatestNatural ==
    ASSUME NEW S, IsFiniteSet(S), S \in SUBSET Nat, S # {}
    PROVE  \E m \in S : \A n \in S : n <= m
<1> DEFINE G == {T \in SUBSET S : T # {} => \E m \in T : \A n \in T : n <= m}
<1>1. ASSUME NEW T \in SUBSET S, \A U \in SUBSET T : U # T => U \in G
      PROVE  T \in G
  <2> SUFFICES ASSUME T # {} PROVE \E m \in T : \A n \in T : n <= m
    OBVIOUS
  <2>1. PICK x \in T : TRUE
    OBVIOUS
  <2>2. T \ {x} \in G
    BY <1>1
  <2>3. CASE T \ {x} = {}
    BY <2>1, <2>3
  <2>4. CASE T \ {x} # {}
    <3>1. PICK m \in T \ {x} : \A n \in T \ {x} : n <= m
      BY <2>2, <2>4
    <3>2. m \in Nat /\ x \in Nat
      OBVIOUS
    <3>3. CASE m <= x
      BY <3>1, <3>2, <3>3
    <3>4. CASE x <= m
      BY <3>1, <3>2, <3>4
    <3> QED
      BY <3>2, <3>3, <3>4
  <2> QED
    BY <2>3, <2>4
<1> HIDE DEF G
<1>2. \A T \in SUBSET S : T \in G
  BY <1>1, SubsetInduction
<1> QED
  BY <1>2 DEF G

\* What a function takes the members of a finite set to is finite.
LEMMA ImageFinite ==
    ASSUME NEW f, NEW S, IsFiniteSet(S)
    PROVE  IsFiniteSet({f[x] : x \in S})
<1> DEFINE T == {f[x] : x \in S}
           g == [x \in S |-> f[x]]
<1>1. g \in Surjection(S, T)
  BY DEF Surjection
<1> HIDE DEF g, T
<1>2. IsFiniteSet(T)
  BY <1>1, FS_Surjection
<1> QED
  BY <1>2 DEF T

\* What holds of 0, and of k + 1 when it holds of k, holds of the numbers up to n.
LEMMA RangeInduction ==
    ASSUME NEW n \in Nat, NEW G \in SUBSET Nat, 0 \in G, \A k \in 0..(n - 1) : k \in G => k + 1 \in G
    PROVE  \A k \in 0..n : k \in G
<1> DEFINE Bad == {k \in 0..n : k \notin G}
<1> SUFFICES ASSUME Bad # {} PROVE FALSE
  OBVIOUS
<1>1. Bad \in SUBSET Nat
  OBVIOUS
<1>2. PICK m \in Bad : \A k \in Bad : m <= k
  BY <1>1, LeastNatural
<1>3. m \in 0..n /\ m \notin G /\ m # 0
  OBVIOUS
<1>4. m - 1 \in 0..(n - 1) /\ m - 1 \in 0..n /\ (m - 1) + 1 = m
  BY <1>3
<1>5. m - 1 \notin Bad
  BY <1>2, <1>4
<1> QED
  BY <1>3, <1>4, <1>5

-----------------------------------------------------------------------------
(* SumFunctionOnSet(f, S) adds f[x] for the x in S, one chosen x after another *)

AnyOf(s) == CHOOSE x \in s : TRUE

\* g adds f over the subsets of S that g is defined on.
Adds(g, f, D) ==
    g = [s \in D |-> IF s = {} THEN 0 ELSE f[AnyOf(s)] + g[s \ {AnyOf(s)}]]

LEMMA SumUnfolds ==
    ASSUME NEW f, NEW S
    PROVE  SumFunctionOnSet(f, S) = (CHOOSE g : Adds(g, f, SUBSET S))[S]
BY DEF SumFunctionOnSet, FoldFunctionOnSet, MapThenFoldSet, Adds, AnyOf

\* The subsets of S with at most n members.
Upto(S, n) == {s \in SUBSET S : Cardinality(s) <= n}

LEMMA SmallerUpto ==
    ASSUME NEW S, IsFiniteSet(S), NEW s \in SUBSET S, s # {}, NEW n \in Nat, Cardinality(s) <= n + 1
    PROVE  /\ AnyOf(s) \in s
           /\ s \ {AnyOf(s)} \in Upto(S, n)
<1>1. AnyOf(s) \in s
  BY DEF AnyOf
<1>2. IsFiniteSet(s)
  BY FS_Subset
<1>3. Cardinality(s \ {AnyOf(s)}) = Cardinality(s) - 1 /\ Cardinality(s) \in Nat
  BY <1>1, <1>2, FS_RemoveElement, FS_CardinalityType
<1>4. QED
  BY <1>1, <1>3 DEF Upto

\* By induction on the size of the subsets, there is a function that adds f over them.
LEMMA AdderExists ==
    ASSUME NEW f, NEW S, IsFiniteSet(S)
    PROVE  \E g : Adds(g, f, SUBSET S)
<1> DEFINE P(n) == \E g : Adds(g, f, Upto(S, n))
           Bad == {n \in Nat : ~P(n)}
<1>1. P(0)
  <2> DEFINE g == [s \in Upto(S, 0) |-> 0]
  <2>1. \A s \in Upto(S, 0) : s = {}
    BY FS_Subset, FS_EmptySet, FS_CardinalityType DEF Upto
  <2>2. Adds(g, f, Upto(S, 0))
    BY <2>1 DEF Adds
  <2> QED
    BY <2>2
<1>2. ASSUME NEW n \in Nat, P(n) PROVE P(n + 1)
  <2>1. PICK g : Adds(g, f, Upto(S, n))
    BY <1>2
  <2> DEFINE h == [s \in Upto(S, n + 1) |-> IF s = {} THEN 0 ELSE f[AnyOf(s)] + g[s \ {AnyOf(s)}]]
  <2>2. Upto(S, n) \subseteq Upto(S, n + 1)
    BY FS_Subset, FS_CardinalityType DEF Upto
  <2>3. \A s \in Upto(S, n) : h[s] = g[s]
    BY <2>1, <2>2 DEF Adds
  <2>4. \A s \in Upto(S, n + 1) : s # {} => h[s \ {AnyOf(s)}] = g[s \ {AnyOf(s)}]
    BY <2>3, SmallerUpto DEF Upto
  <2>5. h = [s \in Upto(S, n + 1) |-> IF s = {} THEN 0 ELSE f[AnyOf(s)] + h[s \ {AnyOf(s)}]]
    BY <2>4
  <2> HIDE DEF h
  <2> QED
    BY <2>5 DEF Adds
<1> HIDE DEF P
<1>3. Bad = {}
  <2> SUFFICES ASSUME Bad # {} PROVE FALSE
    OBVIOUS
  <2>1. PICK n \in Bad : \A m \in Bad : n <= m
    BY LeastNatural
  <2>2. n \in Nat /\ n # 0 /\ n - 1 \in Nat /\ n - 1 \notin Bad
    BY <2>1, <1>1
  <2>3. P(n - 1)
    BY <2>2
  <2>4. P((n - 1) + 1)
    BY <2>2, <2>3, <1>2
  <2>5. (n - 1) + 1 = n
    BY <2>2
  <2> QED
    BY <2>1, <2>4, <2>5
<1>4. P(Cardinality(S))
  BY <1>3, FS_CardinalityType
<1>5. Upto(S, Cardinality(S)) = SUBSET S
  BY FS_Subset DEF Upto
<1> QED
  BY <1>4, <1>5 DEF P

\* Functions that add what agrees agree.
LEMMA AddersAgree ==
    ASSUME NEW f, NEW e, NEW S, IsFiniteSet(S), NEW T \in SUBSET S, \A x \in T : f[x] = e[x]
    PROVE  \A g, h : Adds(g, f, SUBSET S) /\ Adds(h, e, SUBSET T) => g[T] = h[T]
<1> SUFFICES ASSUME NEW g, Adds(g, f, SUBSET S), NEW h, Adds(h, e, SUBSET T)
             PROVE  g[T] = h[T]
  OBVIOUS
<1> DEFINE G == {s \in SUBSET T : g[s] = h[s]}
<1>1. ASSUME NEW s \in SUBSET T, \A u \in SUBSET s : u # s => u \in G PROVE s \in G
  <2>1. CASE s = {}
    BY <2>1 DEF Adds
  <2>2. CASE s # {}
    <3>1. AnyOf(s) \in s
      BY <2>2 DEF AnyOf
    <3>2. g[s \ {AnyOf(s)}] = h[s \ {AnyOf(s)}]
      BY <3>1, <1>1
    <3>3. g[s] = f[AnyOf(s)] + g[s \ {AnyOf(s)}] /\ h[s] = e[AnyOf(s)] + h[s \ {AnyOf(s)}]
      BY <2>2 DEF Adds
    <3> QED
      BY <3>1, <3>2, <3>3
  <2> QED
    BY <2>1, <2>2
<1>2. IsFiniteSet(T)
  BY FS_Subset
<1> HIDE DEF G
<1>3. T \in G
  BY <1>1, <1>2, SubsetInduction
<1> QED
  BY <1>3 DEF G

\* The sum that the operator chooses is the sum of any such function.
LEMMA SumIsAdder ==
    ASSUME NEW f, NEW S, IsFiniteSet(S)
    PROVE  \E g : Adds(g, f, SUBSET S) /\ SumFunctionOnSet(f, S) = g[S]
<1> DEFINE g == CHOOSE g : Adds(g, f, SUBSET S)
<1>1. Adds(g, f, SUBSET S)
  BY AdderExists
<1> HIDE DEF g
<1>2. SumFunctionOnSet(f, S) = g[S]
  BY SumUnfolds DEF g
<1> QED
  BY <1>1, <1>2

\* Sums of functions that agree on a set are equal.
LEMMA SumSame ==
    ASSUME NEW f, NEW e, NEW S, IsFiniteSet(S), \A x \in S : f[x] = e[x]
    PROVE  SumFunctionOnSet(f, S) = SumFunctionOnSet(e, S)
<1>1. PICK g : Adds(g, f, SUBSET S) /\ SumFunctionOnSet(f, S) = g[S]
  BY SumIsAdder
<1>2. PICK h : Adds(h, e, SUBSET S) /\ SumFunctionOnSet(e, S) = h[S]
  BY SumIsAdder
<1>3. S \in SUBSET S
  OBVIOUS
<1> HIDE DEF Adds
<1>4. \A a, b : Adds(a, f, SUBSET S) /\ Adds(b, e, SUBSET S) => a[S] = b[S]
  BY <1>3, AddersAgree
<1> QED
  BY <1>1, <1>2, <1>4

LEMMA SumEmpty ==
    ASSUME NEW f
    PROVE  SumFunctionOnSet(f, {}) = 0
<1>1. PICK g : Adds(g, f, SUBSET {}) /\ SumFunctionOnSet(f, {}) = g[{}]
  BY SumIsAdder, FS_EmptySet
<1> QED
  BY <1>1 DEF Adds

LEMMA SumTakesOne ==
    ASSUME NEW f, NEW S, IsFiniteSet(S), S # {}
    PROVE  /\ AnyOf(S) \in S
           /\ SumFunctionOnSet(f, S) = f[AnyOf(S)] + SumFunctionOnSet(f, S \ {AnyOf(S)})
<1> DEFINE T == S \ {AnyOf(S)}
<1>1. AnyOf(S) \in S
  BY DEF AnyOf
<1>2. PICK g : Adds(g, f, SUBSET S) /\ SumFunctionOnSet(f, S) = g[S]
  BY SumIsAdder
<1>3. T \in SUBSET S /\ IsFiniteSet(T)
  BY FS_Subset
<1>4. PICK h : Adds(h, f, SUBSET T) /\ SumFunctionOnSet(f, T) = h[T]
  BY <1>3, SumIsAdder
<1>5. g[T] = h[T]
  <2>1. \A x \in T : f[x] = f[x]
    OBVIOUS
  <2> HIDE DEF T
  <2>2. \A a, b : Adds(a, f, SUBSET S) /\ Adds(b, f, SUBSET T) => a[T] = b[T]
    BY <1>3, <2>1, AddersAgree
  <2> QED
    BY <1>2, <1>4, <2>2
<1>6. g[S] = f[AnyOf(S)] + g[T]
  BY <1>2 DEF Adds
<1> QED
  BY <1>1, <1>2, <1>4, <1>5, <1>6

LEMMA SumType ==
    ASSUME NEW f, NEW S, IsFiniteSet(S), \A x \in S : f[x] \in Int
    PROVE  SumFunctionOnSet(f, S) \in Int
<1> DEFINE G == {T \in SUBSET S : SumFunctionOnSet(f, T) \in Int}
<1>1. ASSUME NEW T \in SUBSET S, \A U \in SUBSET T : U # T => U \in G PROVE T \in G
  <2>1. CASE T = {}
    BY <2>1, SumEmpty
  <2>2. CASE T # {}
    <3>1. IsFiniteSet(T)
      BY FS_Subset
    <3>2. AnyOf(T) \in T /\ SumFunctionOnSet(f, T) = f[AnyOf(T)] + SumFunctionOnSet(f, T \ {AnyOf(T)})
      BY <2>2, <3>1, SumTakesOne
    <3>3. T \ {AnyOf(T)} \in G
      BY <3>2, <1>1
    <3> QED
      BY <3>2, <3>3
  <2> QED
    BY <2>1, <2>2
<1> HIDE DEF G
<1>2. S \in G
  BY <1>1, SubsetInduction
<1> QED
  BY <1>2 DEF G

\* One more member adds its value, whichever member the sum takes first.
LEMMA SumAddWithin ==
    ASSUME NEW f, NEW S, IsFiniteSet(S), \A y \in S : f[y] \in Int
    PROVE  \A T \in SUBSET S : \A x \in S \ T :
              SumFunctionOnSet(f, T \cup {x}) = SumFunctionOnSet(f, T) + f[x]
<1> DEFINE Sum(T) == SumFunctionOnSet(f, T)
           G == {T \in SUBSET S : \A x \in S \ T : Sum(T \cup {x}) = Sum(T) + f[x]}
<1>1. \A T \in SUBSET S : IsFiniteSet(T) /\ Sum(T) \in Int
  BY FS_Subset, SumType
<1>2. ASSUME NEW T \in SUBSET S, \A U \in SUBSET T : U # T => U \in G PROVE T \in G
  <2> SUFFICES ASSUME NEW x \in S \ T PROVE Sum(T \cup {x}) = Sum(T) + f[x]
    BY <1>2
  <2> DEFINE y == AnyOf(T \cup {x})
  <2>1. y \in T \cup {x} /\ Sum(T \cup {x}) = f[y] + Sum((T \cup {x}) \ {y})
    BY <1>1, SumTakesOne
  <2> HIDE DEF y
  <2>2. CASE y = x
    <3>1. (T \cup {x}) \ {y} = T
      BY <2>2
    <3> QED
      BY <2>1, <2>2, <3>1, <1>1
  <2>3. CASE y # x
    <3>1. y \in T /\ (T \cup {x}) \ {y} = (T \ {y}) \cup {x} /\ (T \ {y}) \cup {y} = T
      BY <2>1, <2>3
    <3>2. T \ {y} \in G
      BY <3>1, <1>2
    <3>3. Sum((T \ {y}) \cup {x}) = Sum(T \ {y}) + f[x] /\ Sum(T) = Sum(T \ {y}) + f[y]
      BY <3>1, <3>2
    <3>4. Sum(T \ {y}) \in Int /\ f[x] \in Int /\ f[y] \in Int
      BY <1>1, <3>1
    <3>5. Sum(T \cup {x}) = f[y] + Sum((T \ {y}) \cup {x})
      BY <2>1, <3>1
    <3> HIDE DEF Sum
    <3> QED
      BY <3>3, <3>4, <3>5
  <2> QED
    BY <2>2, <2>3
<1> HIDE DEF G
<1>3. \A T \in SUBSET S : T \in G
  BY <1>2, SubsetInduction
<1> QED
  BY <1>3 DEF G

LEMMA SumAdd ==
    ASSUME NEW f, NEW S, IsFiniteSet(S), NEW x, x \notin S, \A y \in S \cup {x} : f[y] \in Int
    PROVE  SumFunctionOnSet(f, S \cup {x}) = SumFunctionOnSet(f, S) + f[x]
<1>1. IsFiniteSet(S \cup {x})
  BY FS_AddElement
<1> QED
  BY <1>1, SumAddWithin

LEMMA SumRemove ==
    ASSUME NEW f, NEW S, IsFiniteSet(S), NEW x \in S, \A y \in S : f[y] \in Int
    PROVE  SumFunctionOnSet(f, S \ {x}) = SumFunctionOnSet(f, S) - f[x]
<1>1. S = (S \ {x}) \cup {x} /\ IsFiniteSet(S \ {x})
  BY FS_Subset
<1>2. SumFunctionOnSet(f, S) = SumFunctionOnSet(f, S \ {x}) + f[x]
  BY <1>1, SumAdd
<1>3. SumFunctionOnSet(f, S \ {x}) \in Int /\ f[x] \in Int
  BY <1>1, SumType
<1> QED
  BY <1>2, <1>3

\* The sum over two sets without a common member.
LEMMA SumUnion ==
    ASSUME NEW f, NEW S, IsFiniteSet(S), NEW T, IsFiniteSet(T), S \cap T = {},
           \A y \in S \cup T : f[y] \in Int
    PROVE  SumFunctionOnSet(f, S \cup T) = SumFunctionOnSet(f, S) + SumFunctionOnSet(f, T)
<1> DEFINE Sum(U) == SumFunctionOnSet(f, U)
           G == {U \in SUBSET T : Sum(S \cup U) = Sum(S) + Sum(U)}
<1>1. \A U \in SUBSET T : IsFiniteSet(U) /\ IsFiniteSet(S \cup U) /\ Sum(U) \in Int
  BY FS_Subset, FS_Union, SumType
<1>0. Sum(S) \in Int
  BY SumType
<1>2. ASSUME NEW U \in SUBSET T, \A V \in SUBSET U : V # U => V \in G PROVE U \in G
  <2>1. CASE U = {}
    <3>1. S \cup U = S /\ Sum(U) = 0
      BY <2>1, SumEmpty
    <3>2. Sum(S \cup U) = Sum(S) + Sum(U)
      BY <3>1, <1>0
    <3> QED
      BY <3>2
  <2>2. CASE U # {}
    <3>1. PICK x : x \in U
      BY <2>2
    <3>2. U \ {x} \in G /\ x \in T /\ x \notin S /\ f[x] \in Int
      BY <3>1, <1>2
    <3>3. /\ (S \cup (U \ {x})) \cup {x} = S \cup U
          /\ (U \ {x}) \cup {x} = U
          /\ x \notin S \cup (U \ {x})
      BY <3>1, <3>2
    <3>4. Sum(S \cup U) = Sum(S \cup (U \ {x})) + f[x]
      BY <3>2, <3>3, <1>1, SumAdd
    <3>5. Sum(U) = Sum(U \ {x}) + f[x]
      BY <3>2, <3>3, <1>1, SumAdd
    <3>6. Sum(U \ {x}) \in Int /\ Sum(S \cup (U \ {x})) = Sum(S) + Sum(U \ {x})
      BY <3>2, <1>1
    <3>7. Sum(S \cup U) = Sum(S) + Sum(U)
      <4> HIDE DEF Sum
      <4> QED
        BY <3>2, <3>4, <3>5, <3>6, <1>0
    <3> QED
      BY <3>7
  <2> QED
    BY <2>1, <2>2
<1> HIDE DEF G
<1>3. T \in G
  BY <1>2, SubsetInduction
<1> QED
  BY <1>3 DEF G

\* The sum of what is nowhere negative is not negative, and a part sums to no more.
LEMMA SumNat ==
    ASSUME NEW f, NEW S, IsFiniteSet(S), \A y \in S : f[y] \in Nat
    PROVE  SumFunctionOnSet(f, S) \in Nat
<1> DEFINE G == {T \in SUBSET S : SumFunctionOnSet(f, T) \in Nat}
<1>1. ASSUME NEW T \in SUBSET S, \A U \in SUBSET T : U # T => U \in G PROVE T \in G
  <2>1. CASE T = {}
    BY <2>1, SumEmpty
  <2>2. CASE T # {}
    <3>1. IsFiniteSet(T)
      BY FS_Subset
    <3>2. AnyOf(T) \in T /\ SumFunctionOnSet(f, T) = f[AnyOf(T)] + SumFunctionOnSet(f, T \ {AnyOf(T)})
      BY <2>2, <3>1, SumTakesOne
    <3>3. T \ {AnyOf(T)} \in G
      BY <3>2, <1>1
    <3> QED
      BY <3>2, <3>3
  <2> QED
    BY <2>1, <2>2
<1> HIDE DEF G
<1>2. S \in G
  BY <1>1, SubsetInduction
<1> QED
  BY <1>2 DEF G

LEMMA SumMonotone ==
    ASSUME NEW f, NEW S, IsFiniteSet(S), NEW T \in SUBSET S,
           \A y \in S : f[y] \in Int, \A y \in S \ T : f[y] >= 0
    PROVE  SumFunctionOnSet(f, T) <= SumFunctionOnSet(f, S)
<1>1. IsFiniteSet(T) /\ IsFiniteSet(S \ T) /\ S = T \cup (S \ T)
  BY FS_Subset
<1>2. SumFunctionOnSet(f, S) = SumFunctionOnSet(f, T) + SumFunctionOnSet(f, S \ T)
  BY <1>1, SumUnion
<1>3. SumFunctionOnSet(f, T) \in Int /\ SumFunctionOnSet(f, S \ T) \in Nat
  BY <1>1, SumType, SumNat
<1> QED
  BY <1>2, <1>3

\* A function that is nowhere larger adds to no more.
LEMMA SumPointwise ==
    ASSUME NEW f, NEW g, NEW S, IsFiniteSet(S), \A y \in S : f[y] \in Int /\ g[y] \in Int /\ f[y] <= g[y]
    PROVE  SumFunctionOnSet(f, S) <= SumFunctionOnSet(g, S)
<1> DEFINE G == {T \in SUBSET S : SumFunctionOnSet(f, T) <= SumFunctionOnSet(g, T)}
<1>1. ASSUME NEW T \in SUBSET S, \A U \in SUBSET T : U # T => U \in G PROVE T \in G
  <2>1. CASE T = {}
    <3>1. SumFunctionOnSet(f, T) = 0 /\ SumFunctionOnSet(g, T) = 0
      BY <2>1, SumEmpty
    <3> QED
      BY <3>1
  <2>2. CASE T # {}
    <3>1. IsFiniteSet(T)
      BY FS_Subset
    <3>2. PICK x \in T : TRUE
      BY <2>2
    <3>3. T \ {x} \in G /\ IsFiniteSet(T \ {x})
      BY <1>1, <3>1, <3>2, FS_RemoveElement
    <3>4. /\ SumFunctionOnSet(f, T \ {x}) = SumFunctionOnSet(f, T) - f[x]
          /\ SumFunctionOnSet(g, T \ {x}) = SumFunctionOnSet(g, T) - g[x]
      BY <3>1, <3>2, SumRemove
    <3>5. SumFunctionOnSet(f, T) \in Int /\ SumFunctionOnSet(g, T) \in Int
      BY <3>1, SumType
    <3>6. SumFunctionOnSet(f, T \ {x}) <= SumFunctionOnSet(g, T \ {x})
      BY <3>3
    <3>7. f[x] \in Int /\ g[x] \in Int /\ f[x] <= g[x]
      BY <3>2
    <3> QED
      BY <3>4, <3>5, <3>6, <3>7
  <2> QED
    BY <2>1, <2>2
<1> HIDE DEF G
<1>2. S \in G
  BY <1>1, SubsetInduction
<1> QED
  BY <1>2 DEF G

\* One value that grows makes the sum grow by as much.
LEMMA SumOneChanged ==
    ASSUME NEW f, NEW g, NEW S, IsFiniteSet(S), NEW x \in S, NEW d \in Int,
           \A y \in S : f[y] \in Int, g[x] = f[x] + d, \A y \in S \ {x} : g[y] = f[y]
    PROVE  SumFunctionOnSet(g, S) = SumFunctionOnSet(f, S) + d
<1>1. IsFiniteSet(S \ {x})
  BY FS_RemoveElement
<1>2. \A y \in S : g[y] \in Int
  OBVIOUS
<1>3. SumFunctionOnSet(g, S \ {x}) = SumFunctionOnSet(f, S \ {x})
  BY <1>1, SumSame
<1>4. /\ SumFunctionOnSet(f, S \ {x}) = SumFunctionOnSet(f, S) - f[x]
      /\ SumFunctionOnSet(g, S \ {x}) = SumFunctionOnSet(g, S) - g[x]
  BY <1>2, SumRemove
<1>5. SumFunctionOnSet(f, S) \in Int /\ SumFunctionOnSet(g, S) \in Int
  BY <1>2, SumType
<1>6. f[x] \in Int /\ g[x] \in Int /\ g[x] = f[x] + d
  BY <1>2
<1> QED
  BY <1>3, <1>4, <1>5, <1>6

\* Functions that differ in one place have sums that differ by as much.
LEMMA SumDiffers ==
    ASSUME NEW S, NEW f, NEW g, NEW x, IsFiniteSet(S), f \in [S -> Int], g \in [S -> Int], x \in S,
           \A y \in S \ {x} : g[y] = f[y]
    PROVE  SumFunctionOnSet(g, S) = SumFunctionOnSet(f, S) + (g[x] - f[x])
<1>1. IsFiniteSet(S \ {x})
  BY FS_RemoveElement
<1>2. SumFunctionOnSet(g, S \ {x}) = SumFunctionOnSet(f, S \ {x})
  BY <1>1, SumSame
<1>3. /\ SumFunctionOnSet(f, S \ {x}) = SumFunctionOnSet(f, S) - f[x]
      /\ SumFunctionOnSet(g, S \ {x}) = SumFunctionOnSet(g, S) - g[x]
  BY SumRemove
<1>4. SumFunctionOnSet(f, S) \in Int /\ SumFunctionOnSet(g, S) \in Int
  BY SumType
<1>5. f[x] \in Int /\ g[x] \in Int
  OBVIOUS
<1> QED
  BY <1>2, <1>3, <1>4, <1>5

\* What moves from one place to an empty one is not lost.
LEMMA SumMoved ==
    ASSUME NEW S, NEW f, NEW g, NEW x, NEW y, IsFiniteSet(S), f \in [S -> Int], g \in [S -> Int],
           x \in S, y \in S, x # y, f[y] = 0, g[x] = 0, g[y] = f[x],
           \A z \in S \ {x, y} : g[z] = f[z]
    PROVE  SumFunctionOnSet(g, S) = SumFunctionOnSet(f, S)
<1>0. PICK h : h = [z \in S |-> IF z = x THEN 0 ELSE f[z]]
  OBVIOUS
<1>1. /\ h \in [S -> Int]
      /\ h[x] = 0 /\ h[y] = 0 /\ \A z \in S \ {x} : h[z] = f[z]
  BY <1>0
<1>2. \A z \in S \ {y} : g[z] = h[z]
  BY <1>1
<1>3. SumFunctionOnSet(h, S) = SumFunctionOnSet(f, S) + (h[x] - f[x])
  BY <1>1, SumDiffers
<1>4. SumFunctionOnSet(g, S) = SumFunctionOnSet(h, S) + (g[y] - h[y])
  BY <1>1, <1>2, SumDiffers
<1>5. SumFunctionOnSet(f, S) \in Int /\ SumFunctionOnSet(g, S) \in Int /\ SumFunctionOnSet(h, S) \in Int
  <2>1. /\ \A z \in S : f[z] \in Int
        /\ \A z \in S : g[z] \in Int
        /\ \A z \in S : h[z] \in Int
    BY <1>1
  <2> QED
  BY <2>1, SumType
<1>6. f[x] \in Int /\ g[y] = f[x] /\ h[x] = 0 /\ h[y] = 0
  BY <1>1
<1> QED
  BY <1>3, <1>4, <1>5, <1>6
=============================================================================
