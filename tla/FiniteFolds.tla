---------------------------- MODULE FiniteFolds ----------------------------
(***************************************************************************)
(* Lemmas for proofs about folds: induction over the subsets of a finite   *)
(* set, stated for sets and not for predicates, and what it says of the    *)
(* recursive functions behind SumFunction and its kind. Only proofs use    *)
(* this module.                                                            *)
(***************************************************************************)
EXTENDS Integers, FiniteSets, Functions, FiniteSetTheorems, TLAPS
-----------------------------------------------------------------------------
(* Induction *)

\* Among subsets of a finite set one has none of the others below it.
LEMMA MinimalSubset ==
  ASSUME NEW S, IsFiniteSet(S), NEW T \in SUBSET (SUBSET S), T # {}
  PROVE  \E x \in T : \A y \in T : y \subseteq x => y = x
<1>1. T \subseteq FiniteSubsetsOf(S)
  BY FS_Subset DEF FiniteSubsetsOf
<1>2. \E x \in T : \A y \in T : ~(<<y, x>> \in StrictSubsetOrdering(S))
  BY <1>1, WFMin, FS_StrictSubsetOrderingWellFounded
<1> QED
  BY <1>2 DEF StrictSubsetOrdering

\* A set of naturals has a least element.
LEMMA LeastNumber ==
  ASSUME NEW T \in SUBSET Nat, T # {}
  PROVE  \E m \in T : \A n \in T : m <= n
<1>1. PICK n \in T : TRUE
  OBVIOUS
<1> DEFINE Initials == {0 .. k : k \in {k \in T : k <= n}}
           Upto == 0 .. n
<1>2. Initials \in SUBSET (SUBSET Upto) /\ Initials # {}
  BY <1>1
<1>3. IsFiniteSet(Upto)
  BY FS_Interval
<1>4. \E x \in Initials : \A y \in Initials : y \subseteq x => y = x
  <2> HIDE DEF Initials, Upto
  <2> QED
    BY <1>2, <1>3, MinimalSubset
<1>5. PICK x \in Initials : \A y \in Initials : y \subseteq x => y = x
  BY <1>4
<1>6. PICK m \in T : m <= n /\ x = 0 .. m
  BY <1>5
<1>7. ASSUME NEW k \in T, k < m PROVE FALSE
  <2>1. k <= n /\ 0 .. k \in Initials
    BY <1>6, <1>7
  <2>2. 0 .. k \subseteq x
    BY <1>6, <1>7
  <2>3. m \in x /\ m \notin 0 .. k
    BY <1>6, <1>7
  <2> QED
    BY <2>1, <2>2, <2>3, <1>5
<1> QED
  BY <1>6, <1>7

-----------------------------------------------------------------------------
(* Recursion over the subsets of a set *)

\* g takes one element after the other out of a subset, as pick says.
Folded(g, S, base, step, pick) ==
  g = [s \in SUBSET S |->
         IF s = {} THEN base ELSE step[<<pick[s], g[s \ {pick[s]}]>>]]

\* Two folds that take out the same elements agree where both are defined.
LEMMA FoldsAgree ==
  ASSUME NEW S, IsFiniteSet(S), NEW base, NEW step, NEW pick,
         \A s \in SUBSET S : s # {} => pick[s] \in s,
         NEW U \in SUBSET S, NEW W \in SUBSET S, NEW g, NEW h,
         Folded(g, U, base, step, pick), Folded(h, W, base, step, pick),
         NEW s \in SUBSET (U \cap W)
  PROVE  g[s] = h[s]
<1> DEFINE T == {t \in SUBSET (U \cap W) : g[t] # h[t]}
<1>1. SUFFICES ASSUME T # {} PROVE FALSE
  OBVIOUS
<1>2. T \in SUBSET (SUBSET S)
  OBVIOUS
<1> HIDE DEF T
<1>3. PICK t \in T : \A u \in T : u \subseteq t => u = t
  BY <1>1, <1>2, MinimalSubset
<1>4. t \in SUBSET U /\ t \in SUBSET W /\ t \in SUBSET S /\ g[t] # h[t]
  BY <1>3 DEF T
<1>5. g[t] = (IF t = {} THEN base ELSE step[<<pick[t], g[t \ {pick[t]}]>>])
  BY <1>4 DEF Folded
<1>6. h[t] = (IF t = {} THEN base ELSE step[<<pick[t], h[t \ {pick[t]}]>>])
  BY <1>4 DEF Folded
<1>7. t # {} /\ pick[t] \in t
  BY <1>4, <1>5, <1>6
<1>8. t \ {pick[t]} \notin T
  BY <1>3, <1>7
<1>9. g[t \ {pick[t]}] = h[t \ {pick[t]}]
  BY <1>8, <1>4 DEF T
<1> QED
  BY <1>4, <1>5, <1>6, <1>7, <1>9

\* There is a fold: the recursive function of MapThenFoldSet exists.
LEMMA FoldExists ==
  ASSUME NEW S, IsFiniteSet(S), NEW V, NEW base \in V, NEW step, NEW pick,
         \A s \in SUBSET S : s # {} => pick[s] \in s,
         \A x \in S, v \in V : step[<<x, v>>] \in V
  PROVE  \E g \in [SUBSET S -> V] : Folded(g, S, base, step, pick)
<1> DEFINE Sol(U) == {g \in [SUBSET U -> V] : Folded(g, U, base, step, pick)}
           T == {U \in SUBSET S : Sol(U) = {}}
<1>1. SUFFICES ASSUME T # {} PROVE FALSE
  OBVIOUS
<1>2. T \in SUBSET (SUBSET S)
  OBVIOUS
<1>3. PICK U \in T : \A W \in T : W \subseteq U => W = U
  <2> HIDE DEF T
  <2> QED
    BY <1>1, <1>2, MinimalSubset
<1>4. U \in SUBSET S /\ Sol(U) = {}
  BY <1>3
<1>5. \A W \in SUBSET U : W # U => Sol(W) # {}
  BY <1>3
<1> DEFINE best(s) == (CHOOSE g \in Sol(s) : TRUE)[s]
<1>6. ASSUME NEW s \in SUBSET U, s # U
      PROVE  /\ best(s) \in V
             /\ s = {} => best(s) = base
             /\ s # {} => best(s) = step[<<pick[s], best(s \ {pick[s]})>>]
  <2> DEFINE g == CHOOSE g \in Sol(s) : TRUE
  <2>1. g \in Sol(s)
    BY <1>5, <1>6
  <2>2. g \in [SUBSET s -> V] /\ Folded(g, s, base, step, pick)
    BY <2>1
  <2>3. best(s) = g[s]
    OBVIOUS
  <2> HIDE DEF g
  <2>4. best(s) \in V
    BY <2>2, <2>3
  <2>5. g[s] = (IF s = {} THEN base ELSE step[<<pick[s], g[s \ {pick[s]}]>>])
    BY <2>2 DEF Folded
  <2>6. ASSUME s # {} PROVE best(s) = step[<<pick[s], best(s \ {pick[s]})>>]
    <3> DEFINE r == s \ {pick[s]}
               h == CHOOSE h \in Sol(r) : TRUE
    <3>1. r \in SUBSET U /\ r # U /\ r \subseteq s
      BY <1>6
    <3>2. h \in Sol(r)
      BY <3>1, <1>5
    <3>3. Folded(h, r, base, step, pick)
      BY <3>2
    <3>4. best(r) = h[r]
      OBVIOUS
    <3> HIDE DEF h, r
    <3>5. g[r] = h[r]
      <4>1. s \in SUBSET S /\ r \in SUBSET S /\ r \in SUBSET (s \cap r)
        BY <1>4, <3>1
      <4> HIDE DEF Sol, best
      <4> QED
        BY <4>1, <2>2, <3>3, FoldsAgree
    <3> HIDE DEF best
    <3> QED
      BY <2>3, <2>5, <2>6, <3>4, <3>5 DEF r
  <2> QED
    BY <2>3, <2>4, <2>5, <2>6
<1>7. CASE U = {}
  <2> DEFINE g == [s \in SUBSET U |-> base]
  <2>1. g \in [SUBSET U -> V]
    OBVIOUS
  <2>2. Folded(g, U, base, step, pick)
    BY <1>7 DEF Folded
  <2> QED
    BY <2>1, <2>2, <1>4
<1>8. CASE U # {}
  <2> DEFINE p == pick[U]
             W == U \ {p}
             g == [s \in SUBSET U |-> IF s = U THEN step[<<p, best(W)>>] ELSE best(s)]
  <2>1. p \in U /\ p \in S /\ W \in SUBSET U /\ W # U
    BY <1>4, <1>8
  <2> HIDE DEF Sol, best
  <2>2. best(W) \in V
    BY <1>6, <2>1
  <2>3. g \in [SUBSET U -> V]
    BY <1>6, <2>1, <2>2
  <2>4. ASSUME NEW s \in SUBSET U
        PROVE  g[s] = (IF s = {} THEN base ELSE step[<<pick[s], g[s \ {pick[s]}]>>])
    <3>1. CASE s = U
      <4>1. g[s] = step[<<p, best(W)>>]
        BY <3>1
      <4>2. g[W] = best(W)
        BY <2>1
      <4> QED
        BY <1>8, <3>1, <4>1, <4>2
    <3>2. CASE s # U
      <4>1. g[s] = best(s)
        BY <3>2
      <4>2. CASE s = {}
        BY <4>1, <4>2, <3>2, <1>6
      <4>3. CASE s # {}
        <5>1. s \ {pick[s]} \in SUBSET U /\ s \ {pick[s]} # U
          BY <3>2
        <5>2. g[s \ {pick[s]}] = best(s \ {pick[s]})
          BY <5>1
        <5>3. best(s) = step[<<pick[s], best(s \ {pick[s]})>>]
          BY <1>6, <3>2, <4>3
        <5> HIDE DEF g
        <5> QED
          BY <4>1, <4>3, <5>2, <5>3
      <4> QED
        BY <4>2, <4>3
    <3> QED
      BY <3>1, <3>2
  <2>5. Folded(g, U, base, step, pick)
    <3>1. g = [s \in SUBSET U |-> g[s]]
      OBVIOUS
    <3> HIDE DEF g
    <3> QED
      BY <3>1, <2>4 DEF Folded
  <2>6. g \in Sol(U)
    <3> HIDE DEF g
    <3> QED
      BY <2>3, <2>5 DEF Sol
  <2> QED
    BY <2>6, <1>4
<1> QED
  BY <1>7, <1>8

-----------------------------------------------------------------------------
(* Sums *)

\* The recursion of SumFunctionOnSet.
Iterated(iter, f, S) ==
  iter = [s \in SUBSET S |->
            IF s = {} THEN 0 ELSE LET x == CHOOSE x \in s : TRUE IN f[x] + iter[s \ {x}]]

\* Two such recursions agree where both are defined.
LEMMA IteratedAgree ==
  ASSUME NEW S, IsFiniteSet(S), NEW f, NEW g, NEW h,
         NEW U \in SUBSET S, NEW W \in SUBSET S,
         Iterated(g, f, U), Iterated(h, f, W),
         NEW s \in SUBSET (U \cap W)
  PROVE  g[s] = h[s]
<1> DEFINE T == {t \in SUBSET (U \cap W) : g[t] # h[t]}
<1>1. SUFFICES ASSUME T # {} PROVE FALSE
  OBVIOUS
<1>2. T \in SUBSET (SUBSET S)
  OBVIOUS
<1> HIDE DEF T
<1>3. PICK t \in T : \A u \in T : u \subseteq t => u = t
  BY <1>1, <1>2, MinimalSubset
<1>4. t \in SUBSET U /\ t \in SUBSET W /\ g[t] # h[t]
  BY <1>3 DEF T
<1> DEFINE x == CHOOSE x \in t : TRUE
<1>5. g[t] = (IF t = {} THEN 0 ELSE f[x] + g[t \ {x}])
  BY <1>4 DEF Iterated
<1>6. h[t] = (IF t = {} THEN 0 ELSE f[x] + h[t \ {x}])
  BY <1>4 DEF Iterated
<1>7. t # {} /\ x \in t
  BY <1>4, <1>5, <1>6
<1>8. t \ {x} \notin T
  BY <1>3, <1>7
<1>9. g[t \ {x}] = h[t \ {x}]
  BY <1>8, <1>4 DEF T
<1> QED
  BY <1>4, <1>5, <1>6, <1>7, <1>9

\* A sum is what the recursion yields.
LEMMA SumIterates ==
  ASSUME NEW S, IsFiniteSet(S), NEW f, \A x \in S : f[x] \in Int
  PROVE  \E g \in [SUBSET S -> Int] : Iterated(g, f, S) /\ SumFunctionOnSet(f, S) = g[S]
<1> DEFINE step == [p \in S \X Int |-> f[p[1]] + p[2]]
           pick == [s \in SUBSET S |-> CHOOSE x \in s : TRUE]
<1>1. \A s \in SUBSET S : s # {} => pick[s] \in s
  OBVIOUS
<1>2. \A x \in S, v \in Int : step[<<x, v>>] = f[x] + v
  OBVIOUS
<1>9. \A x \in S, v \in Int : step[<<x, v>>] \in Int
  OBVIOUS
<1>3. \E g \in [SUBSET S -> Int] : Folded(g, S, 0, step, pick)
  <2> HIDE DEF step, pick
  <2>1. 0 \in Int
    OBVIOUS
  <2> QED
    BY <1>1, <1>9, <2>1, FoldExists, Zenon
<1>4. PICK g \in [SUBSET S -> Int] : Folded(g, S, 0, step, pick)
  BY <1>3
<1>5. Iterated(g, f, S)
  <2> DEFINE G(s) == IF s = {} THEN 0 ELSE LET x == CHOOSE x \in s : TRUE IN f[x] + g[s \ {x}]
  <2>1. ASSUME NEW s \in SUBSET S PROVE g[s] = G(s)
    <3>1. g[s] = IF s = {} THEN 0 ELSE step[<<pick[s], g[s \ {pick[s]}]>>]
      <4> HIDE DEF step, pick
      <4> QED
        BY <1>4 DEF Folded
    <3>2. CASE s = {}
      BY <3>1, <3>2
    <3>3. CASE s # {}
      <4>1. pick[s] = (CHOOSE x \in s : TRUE) /\ pick[s] \in S
        BY <3>3
      <4>2. g[s \ {pick[s]}] \in Int
        BY <1>4
      <4>3. g[s] = f[pick[s]] + g[s \ {pick[s]}]
        <5> HIDE DEF step, pick
        <5> QED
          BY <3>1, <3>3, <4>1, <4>2, <1>2
      <4> HIDE DEF pick, step
      <4> QED
        BY <3>3, <4>1, <4>3
    <3> QED
      BY <3>2, <3>3
  <2>2. g = [s \in SUBSET S |-> g[s]]
    OBVIOUS
  <2> QED
    BY <2>1, <2>2 DEF Iterated
<1> DEFINE it == CHOOSE it : Iterated(it, f, S)
<1>6. Iterated(it, f, S)
  BY <1>5
<1>7. SumFunctionOnSet(f, S) = it[S]
  BY DEF SumFunctionOnSet, FoldFunctionOnSet, MapThenFoldSet, Iterated
<1>8. it[S] = g[S]
  <2> HIDE DEF it
  <2> S \in SUBSET S /\ S \in SUBSET (S \cap S)
    OBVIOUS
  <2> QED
    BY <1>5, <1>6, IteratedAgree
<1> QED
  BY <1>5, <1>7, <1>8


\* Nothing sums up to 0.
LEMMA SumOfNone == ASSUME NEW f PROVE SumFunctionOnSet(f, {}) = 0
<1>1. PICK g \in [SUBSET {} -> Int] : Iterated(g, f, {}) /\ SumFunctionOnSet(f, {}) = g[{}]
  BY SumIterates, FS_EmptySet
<1> QED
  BY <1>1 DEF Iterated

\* Integers sum up to an integer.
LEMMA SumType ==
  ASSUME NEW S, IsFiniteSet(S), NEW f, \A x \in S : f[x] \in Int
  PROVE  SumFunctionOnSet(f, S) \in Int
<1>1. PICK g \in [SUBSET S -> Int] : SumFunctionOnSet(f, S) = g[S]
  BY SumIterates
<1> QED
  BY <1>1

\* A sum is one element and the sum of the rest.
LEMMA SumTakesFirst ==
  ASSUME NEW S, IsFiniteSet(S), NEW f, \A x \in S : f[x] \in Int, S # {}
  PROVE  \E x \in S : SumFunctionOnSet(f, S) = f[x] + SumFunctionOnSet(f, S \ {x})
<1>1. PICK g \in [SUBSET S -> Int] : Iterated(g, f, S) /\ SumFunctionOnSet(f, S) = g[S]
  BY SumIterates
<1> DEFINE x == CHOOSE x \in S : TRUE
           R == S \ {x}
<1>2. x \in S
  OBVIOUS
<1>3. g[S] = f[x] + g[R]
  BY <1>1 DEF Iterated
<1>4. IsFiniteSet(R) /\ \A y \in R : f[y] \in Int
  BY FS_Subset
<1> HIDE DEF R, x
<1>5. PICK h \in [SUBSET R -> Int] : Iterated(h, f, R) /\ SumFunctionOnSet(f, R) = h[R]
  BY <1>4, SumIterates
<1>6. g[R] = h[R]
  <2>1. S \in SUBSET S /\ R \in SUBSET S /\ R \in SUBSET (S \cap R)
    BY DEF R
  <2> QED
    BY <2>1, <1>1, <1>5, IteratedAgree
<1> QED
  BY <1>1, <1>2, <1>3, <1>5, <1>6 DEF R

\* It is any element and the sum of the rest: the order makes no difference.
LEMMA SumTakesAny ==
  ASSUME NEW S, IsFiniteSet(S), NEW f, \A x \in S : f[x] \in Int, NEW y \in S
  PROVE  SumFunctionOnSet(f, S) = f[y] + SumFunctionOnSet(f, S \ {y})
<1> DEFINE Sum(t) == SumFunctionOnSet(f, t)
           T == {t \in SUBSET S : \E z \in t : Sum(t) # f[z] + Sum(t \ {z})}
<1>1. SUFFICES ASSUME T # {} PROVE FALSE
  OBVIOUS
<1>2. T \in SUBSET (SUBSET S)
  OBVIOUS
<1>3. PICK t \in T : \A u \in T : u \subseteq t => u = t
  <2> HIDE DEF T
  <2> QED
    BY <1>1, <1>2, MinimalSubset
<1>4. PICK z \in t : Sum(t) # f[z] + Sum(t \ {z})
  OBVIOUS
<1>5. \A u \in SUBSET S : IsFiniteSet(u) /\ Sum(u) \in Int
  BY FS_Subset, SumType
<1>6. PICK x \in t : Sum(t) = f[x] + Sum(t \ {x})
  BY <1>4, <1>5, SumTakesFirst
<1>7. x # z
  BY <1>4, <1>6
<1>8. t \ {x} \notin T /\ t \ {z} \notin T
  BY <1>3
<1>9. Sum(t \ {x}) = f[z] + Sum((t \ {x}) \ {z})
  BY <1>7, <1>8
<1>10. Sum(t \ {z}) = f[x] + Sum((t \ {z}) \ {x})
  BY <1>7, <1>8
<1>11. Sum((t \ {x}) \ {z}) = Sum((t \ {z}) \ {x})
  <2>1. (t \ {x}) \ {z} = (t \ {z}) \ {x}
    OBVIOUS
  <2> QED
    BY <2>1
<1>12. f[x] \in Int /\ f[z] \in Int /\ Sum((t \ {z}) \ {x}) \in Int
  BY <1>5
<1> HIDE DEF Sum
<1> QED
  BY <1>4, <1>6, <1>9, <1>10, <1>11, <1>12

\* Smaller elements sum up to a smaller sum.
LEMMA SumMonotonic ==
  ASSUME NEW S, IsFiniteSet(S), NEW f, NEW g,
         \A x \in S : f[x] \in Int /\ g[x] \in Int /\ f[x] <= g[x]
  PROVE  SumFunctionOnSet(f, S) <= SumFunctionOnSet(g, S)
<1> DEFINE F(t) == SumFunctionOnSet(f, t)
           G(t) == SumFunctionOnSet(g, t)
           T == {t \in SUBSET S : ~(F(t) <= G(t))}
<1>1. SUFFICES ASSUME T # {} PROVE FALSE
  OBVIOUS
<1>2. T \in SUBSET (SUBSET S)
  OBVIOUS
<1>3. PICK t \in T : \A u \in T : u \subseteq t => u = t
  <2> HIDE DEF T
  <2> QED
    BY <1>1, <1>2, MinimalSubset
<1>4. \A u \in SUBSET S : IsFiniteSet(u) /\ F(u) \in Int /\ G(u) \in Int
  BY FS_Subset, SumType
<1>5. t # {}
  BY SumOfNone
<1>6. PICK x : x \in t
  BY <1>5
<1>7. F(t) = f[x] + F(t \ {x}) /\ G(t) = g[x] + G(t \ {x})
  BY <1>4, <1>6, SumTakesAny
<1>8. F(t \ {x}) <= G(t \ {x})
  BY <1>3, <1>6
<1>9. F(t \ {x}) \in Int /\ G(t \ {x}) \in Int /\ f[x] \in Int /\ g[x] \in Int /\ f[x] <= g[x] /\ ~(F(t) <= G(t))
  BY <1>4, <1>6
<1> HIDE DEF F, G, T
<1> QED
  BY <1>7, <1>8, <1>9

\* Equal elements sum up to one sum.
LEMMA SumsEqual ==
  ASSUME NEW S, IsFiniteSet(S), NEW f, NEW g,
         \A x \in S : f[x] \in Int /\ g[x] = f[x]
  PROVE  SumFunctionOnSet(f, S) = SumFunctionOnSet(g, S)
<1>1. \A x \in S : f[x] \in Int /\ g[x] \in Int /\ f[x] <= g[x] /\ g[x] <= f[x]
  OBVIOUS
<1>2. SumFunctionOnSet(f, S) <= SumFunctionOnSet(g, S)
  BY <1>1, SumMonotonic
<1>3. SumFunctionOnSet(g, S) <= SumFunctionOnSet(f, S)
  BY <1>1, SumMonotonic
<1>4. SumFunctionOnSet(f, S) \in Int /\ SumFunctionOnSet(g, S) \in Int
  BY <1>1, SumType
<1> QED
  BY <1>2, <1>3, <1>4

\* Zeros sum up to 0.
LEMMA SumOfZeros ==
  ASSUME NEW S, IsFiniteSet(S), NEW f, \A x \in S : f[x] = 0
  PROVE  SumFunctionOnSet(f, S) = 0
<1> DEFINE T == {t \in SUBSET S : SumFunctionOnSet(f, t) # 0}
<1>1. SUFFICES ASSUME T # {} PROVE FALSE
  OBVIOUS
<1>2. T \in SUBSET (SUBSET S)
  OBVIOUS
<1>3. PICK t \in T : \A u \in T : u \subseteq t => u = t
  <2> HIDE DEF T
  <2> QED
    BY <1>1, <1>2, MinimalSubset
<1>4. PICK x : x \in t
  BY SumOfNone
<1>5. SumFunctionOnSet(f, t) = f[x] + SumFunctionOnSet(f, t \ {x})
  <2>1. IsFiniteSet(t) /\ \A y \in t : f[y] \in Int
    BY FS_Subset
  <2> QED
    BY <1>4, <2>1, SumTakesAny
<1>6. SumFunctionOnSet(f, t \ {x}) = 0
  BY <1>3, <1>4
<1> QED
  BY <1>4, <1>5, <1>6

\* Naturals sum up to a natural.
LEMMA SumOfNaturals ==
  ASSUME NEW S, IsFiniteSet(S), NEW f, \A x \in S : f[x] \in Nat
  PROVE  SumFunctionOnSet(f, S) \in Nat
<1> DEFINE zero == [x \in S |-> 0]
<1>1. SumFunctionOnSet(zero, S) = 0
  BY SumOfZeros
<1>2. \A x \in S : zero[x] \in Int /\ f[x] \in Int /\ zero[x] <= f[x]
  OBVIOUS
<1> HIDE DEF zero
<1>3. SumFunctionOnSet(zero, S) <= SumFunctionOnSet(f, S)
  BY <1>2, SumMonotonic
<1>4. SumFunctionOnSet(f, S) \in Int
  BY SumType
<1> QED
  BY <1>1, <1>3, <1>4

\* When one element becomes 0, the sum falls by it.
LEMMA SumWithout ==
  ASSUME NEW S, IsFiniteSet(S), NEW f, NEW g, NEW y \in S, f[y] \in Int, g[y] = 0,
         \A x \in S : x # y => f[x] \in Int /\ g[x] = f[x]
  PROVE  SumFunctionOnSet(g, S) = SumFunctionOnSet(f, S) - f[y]
<1> DEFINE R == S \ {y}
<1>1. IsFiniteSet(R) /\ \A x \in R : f[x] \in Int /\ g[x] = f[x]
  BY FS_Subset
<1>2. SumFunctionOnSet(f, R) = SumFunctionOnSet(g, R)
  <2> HIDE DEF R
  <2> QED
    BY <1>1, SumsEqual
<1>3. SumFunctionOnSet(f, R) \in Int
  <2> HIDE DEF R
  <2> QED
    BY <1>1, SumType
<1>4. SumFunctionOnSet(f, S) = f[y] + SumFunctionOnSet(f, R)
  BY SumTakesAny
<1>5. SumFunctionOnSet(g, S) = g[y] + SumFunctionOnSet(g, R)
  <2>1. \A x \in S : g[x] \in Int
    OBVIOUS
  <2> QED
    BY <2>1, SumTakesAny
<1> HIDE DEF R
<1> QED
  BY <1>2, <1>3, <1>4, <1>5
-----------------------------------------------------------------------------
(* The elements of a sequence *)

\* What n indices enumerate is finite, of no more than n elements, and of
\* exactly n if no element comes twice.
LEMMA EnumeratedSet ==
  ASSUME NEW n \in Nat, NEW S, NEW s \in [1 .. n -> S],
         \A x \in S : \E i \in 1 .. n : s[i] = x
  PROVE  /\ IsFiniteSet(S)
         /\ Cardinality(S) \in Nat /\ Cardinality(S) <= n
         /\ (\A i, j \in 1 .. n : i # j => s[i] # s[j]) => Cardinality(S) = n
<1>1. s \in Surjection(1 .. n, S)
  BY DEF Surjection
<1>2. IsFiniteSet(1 .. n) /\ Cardinality(1 .. n) = n
  BY FS_Interval
<1>3. /\ IsFiniteSet(S)
      /\ Cardinality(S) <= n
      /\ Cardinality(S) = n <=> s \in Injection(1 .. n, S)
  BY <1>1, <1>2, FS_Surjection
<1>4. Cardinality(S) \in Nat
  BY <1>3, FS_CardinalityType
<1>5. (\A i, j \in 1 .. n : i # j => s[i] # s[j]) => s \in Injection(1 .. n, S)
  BY DEF Injection, IsInjective
<1> QED
  BY <1>3, <1>4, <1>5
-----------------------------------------------------------------------------
(* Sorting *)

\* q lists the indices 1 .. n in the order of their keys.
SortsBy(q, n, keys) ==
  /\ q \in [1 .. n -> 1 .. n]
  /\ \A i, j \in 1 .. n : q[i] = q[j] => i = j
  /\ \A i, j \in 1 .. n : i < j => keys[q[i]] <= keys[q[j]]

\* An index is inserted before the first with a greater key.
LEMMA SortedOneMore ==
  ASSUME NEW n \in Nat, NEW keys \in [1 .. n + 1 -> Int], NEW q, SortsBy(q, n, keys)
  PROVE  \E r : SortsBy(r, n + 1, keys)
<1> DEFINE later == {k \in 1 .. n : keys[q[k]] > keys[n + 1]} \cup {n + 1}
<1>1. PICK m \in later : \A k \in later : m <= k
  <2>1. later \in SUBSET Nat /\ later # {}
    OBVIOUS
  <2> HIDE DEF later
  <2> QED
    BY <2>1, LeastNumber
<1>2. m \in 1 .. n + 1 /\ (m # n + 1 => keys[q[m]] > keys[n + 1])
  BY <1>1
<1>3. \A k \in 1 .. n : k < m => keys[q[k]] <= keys[n + 1]
  <2> SUFFICES ASSUME NEW k \in 1 .. n, k < m, keys[q[k]] > keys[n + 1] PROVE FALSE
    BY DEF SortsBy
  <2>1. k \in later
    OBVIOUS
  <2> QED
    BY <1>1, <1>2, <2>1
<1> HIDE DEF later
<1>4. \A k \in 1 .. n : k >= m => keys[n + 1] <= keys[q[k]]
  <2> SUFFICES ASSUME NEW k \in 1 .. n, k >= m PROVE keys[n + 1] <= keys[q[k]]
    OBVIOUS
  <2>1. q[m] \in 1 .. n /\ q[k] \in 1 .. n
    BY <1>2 DEF SortsBy
  <2>2. keys[q[m]] \in Int /\ keys[q[k]] \in Int /\ keys[n + 1] \in Int
    BY <2>1
  <2>3. keys[q[m]] <= keys[q[k]]
    <3>1. m \in 1 .. n /\ (m < k \/ m = k)
      BY <1>2
    <3>2. CASE m < k
      BY <3>1, <3>2 DEF SortsBy
    <3>3. CASE m = k
      BY <2>2, <3>3
    <3> QED
      BY <3>1, <3>2, <3>3
  <2> QED
    BY <1>2, <2>2, <2>3
<1> DEFINE r == [i \in 1 .. n + 1 |-> IF i < m THEN q[i] ELSE IF i = m THEN n + 1 ELSE q[i - 1]]
<1>5. \A i \in 1 .. n + 1 :
        /\ i < m => i \in 1 .. n /\ r[i] = q[i] /\ q[i] \in 1 .. n
        /\ i = m => r[i] = n + 1
        /\ i > m => i - 1 \in 1 .. n /\ i - 1 >= m /\ r[i] = q[i - 1] /\ q[i - 1] \in 1 .. n
  <2>1. \A i \in 1 .. n + 1 : (i < m => i \in 1 .. n) /\ (i > m => i - 1 \in 1 .. n /\ i - 1 >= m)
    BY <1>2
  <2>2. \A i \in 1 .. n : q[i] \in 1 .. n
    BY DEF SortsBy
  <2>3. \A i \in 1 .. n + 1 :
          r[i] = IF i < m THEN q[i] ELSE IF i = m THEN n + 1 ELSE q[i - 1]
    OBVIOUS
  <2>4. \A i \in 1 .. n + 1 : (i = m => ~(i < m)) /\ (i > m => ~(i < m) /\ i # m)
    BY <1>2
  <2> HIDE DEF r
  <2> QED
    BY <2>1, <2>2, <2>3, <2>4
<1>6. r \in [1 .. n + 1 -> 1 .. n + 1]
  <2>1. \A i \in 1 .. n + 1 : r[i] \in 1 .. n + 1
    <3>1. \A i \in 1 .. n + 1 : i < m \/ i = m \/ i > m
      BY <1>2
    <3>2. n + 1 \in 1 .. n + 1 /\ \A k \in 1 .. n : k \in 1 .. n + 1
      OBVIOUS
    <3> HIDE DEF r
    <3> QED
      BY <1>5, <3>1, <3>2
  <2> QED
    BY <2>1
<1> HIDE DEF r
<1>7. ASSUME NEW i \in 1 .. n + 1, NEW j \in 1 .. n + 1, i < j
      PROVE  r[i] # r[j] /\ keys[r[i]] <= keys[r[j]]
  <2>1. CASE j < m
    <3>1. i < m /\ i \in 1 .. n /\ j \in 1 .. n /\ i # j /\ r[i] = q[i] /\ r[j] = q[j]
      BY <1>2, <1>5, <1>7, <2>1
    <3> QED
      BY <1>7, <3>1 DEF SortsBy
  <2>2. CASE j = m
    <3>1. i < m /\ i \in 1 .. n /\ r[i] = q[i] /\ q[i] \in 1 .. n /\ r[j] = n + 1
      BY <1>2, <1>5, <1>7, <2>2
    <3> QED
      BY <1>3, <3>1
  <2>3. CASE j > m /\ i < m
    <3>1. i \in 1 .. n /\ j - 1 \in 1 .. n /\ j - 1 >= m /\ r[i] = q[i] /\ r[j] = q[j - 1]
      BY <1>5, <2>3
    <3>2. i < j - 1
      BY <1>2, <2>3, <3>1
    <3> QED
      BY <3>1, <3>2 DEF SortsBy
  <2>4. CASE j > m /\ i = m
    <3>1. /\ j - 1 \in 1 .. n /\ j - 1 >= m /\ r[j] = q[j - 1] /\ q[j - 1] \in 1 .. n
          /\ r[i] = n + 1
      BY <1>5, <2>4
    <3> QED
      BY <1>4, <3>1
  <2>5. CASE i > m
    <3>1. j > m
      BY <1>2, <1>7, <2>5
    <3>2. /\ i - 1 \in 1 .. n /\ j - 1 \in 1 .. n
          /\ r[i] = q[i - 1] /\ r[j] = q[j - 1]
      BY <1>5, <2>5, <3>1
    <3>3. i - 1 < j - 1 /\ i - 1 # j - 1
      BY <1>7
    <3> QED
      BY <3>2, <3>3 DEF SortsBy
  <2> QED
    BY <1>2, <1>7, <2>1, <2>2, <2>3, <2>4, <2>5
<1>8. \A i, j \in 1 .. n + 1 : i < j \/ i = j \/ j < i
  OBVIOUS
<1>9. SortsBy(r, n + 1, keys)
  BY <1>6, <1>7, <1>8 DEF SortsBy
<1> QED
  BY <1>9

LEMMA SortedExists ==
  ASSUME NEW n \in Nat, NEW keys \in [1 .. n -> Int]
  PROVE  \E q : SortsBy(q, n, keys)
<1> DEFINE Unsorted == {k \in Nat : \E f \in [1 .. k -> Int] : \A q : ~SortsBy(q, k, f)}
<1>1. ASSUME Unsorted # {} PROVE FALSE
  <2>1. PICK k \in Unsorted : \A j \in Unsorted : k <= j
    <3>1. Unsorted \in SUBSET Nat
      OBVIOUS
    <3> HIDE DEF Unsorted
    <3> QED
      BY <1>1, <3>1, LeastNumber
  <2>2. PICK f \in [1 .. k -> Int] : \A q : ~SortsBy(q, k, f)
    OBVIOUS
  <2>3. k # 0
    <3>1. 1 .. 0 = {}
      OBVIOUS
    <3>2. SortsBy([i \in 1 .. 0 |-> i], 0, f)
      BY <3>1 DEF SortsBy
    <3> QED
      BY <2>2, <3>2
  <2>4. PICK j \in Nat : k = j + 1
    <3>1. k \in Nat
      OBVIOUS
    <3>2. k - 1 \in Nat /\ k = (k - 1) + 1
      BY <2>3, <3>1
    <3> QED
      BY <3>2
  <2> DEFINE g == [i \in 1 .. j |-> f[i]]
  <2>5. j \notin Unsorted
    <3>1. ~(k <= j)
      BY <2>4
    <3> HIDE DEF Unsorted
    <3> QED
      BY <2>1, <3>1
  <2>6. g \in [1 .. j -> Int]
    BY <2>4
  <2>7. PICK q : SortsBy(q, j, g)
    BY <2>5, <2>6
  <2>8. SortsBy(q, j, f)
    <3>1. \A i \in 1 .. j : q[i] \in 1 .. j /\ g[q[i]] = f[q[i]]
      BY <2>7 DEF SortsBy
    <3> HIDE DEF g
    <3> QED
      BY <2>7, <3>1 DEF SortsBy
  <2>9. \E r : SortsBy(r, j + 1, f)
    BY <2>2, <2>4, <2>8, SortedOneMore
  <2> QED
    BY <2>2, <2>4, <2>9
<1> QED
  BY <1>1

\* A list of all indices without repetition has each of them.
LEMMA IndicesOnto ==
  ASSUME NEW n \in Nat, NEW q \in [1 .. n -> 1 .. n],
         \A i, j \in 1 .. n : q[i] = q[j] => i = j
  PROVE  \A k \in 1 .. n : \E i \in 1 .. n : q[i] = k
<1>1. IsFiniteSet(1 .. n)
  BY FS_Interval
<1>2. q \in Injection(1 .. n, 1 .. n)
  BY DEF Injection, IsInjective
<1>3. q \in Surjection(1 .. n, 1 .. n)
  BY <1>1, <1>2, FS_Injection
<1> QED
  BY <1>3 DEF Surjection
=============================================================================
