------------------------------- MODULE Induction -------------------------------
(***************************************************************************)
(* Induction over the natural numbers in a form without an operator        *)
(* parameter: for sets instead of predicates; and what it proves of sums   *)
(* over finite sets.                                                       *)
(***************************************************************************)
EXTENDS Integers, FiniteSetTheorems, WellFoundedInduction, TLAPS

LEMMA LessThan ==
  \E R : IsWellFoundedOn(R, Nat) /\ \A x, y \in Nat : x < y => <<x, y>> \in R
<1>1. IsWellFoundedOn(OpToRel(<, Nat), Nat)
  BY NatLessThanWellFounded
<1>2. \A x, y \in Nat : x < y => <<x, y>> \in OpToRel(<, Nat)
  BY DEF OpToRel
<1> QED
  BY <1>1, <1>2, Zenon

(* A set of natural numbers that is not empty has a least element.         *)
LEMMA LeastNumber ==
  ASSUME NEW T, T \subseteq Nat, T # {}
  PROVE  \E m \in T : \A k \in T : m <= k
<1>1. PICK R : IsWellFoundedOn(R, Nat) /\ \A x, y \in Nat : x < y => <<x, y>> \in R
  BY LessThan
<1>2. IsWellFoundedOn(R, Nat)
  BY <1>1
<1>3. \E m \in T : \A k \in T : ~ (<<k, m>> \in R)
  BY <1>2, WFMin
<1>4. PICK m \in T : \A k \in T : ~ (<<k, m>> \in R)
  BY <1>3
<1>5. \A k \in T : ~(k < m)
  BY <1>1, <1>4
<1> QED
  BY <1>5

(* A set with 0, and with n + 1 whenever it has n, has every number.       *)
LEMMA SetInduction ==
  ASSUME NEW T, 0 \in T, \A n \in Nat : n \in T => n + 1 \in T
  PROVE  Nat \subseteq T
<1> SUFFICES ASSUME Nat \ T # {} PROVE FALSE
  OBVIOUS
<1>1. PICK m \in Nat \ T : \A k \in Nat \ T : m <= k
  BY LeastNumber
<1>2. m # 0 /\ m - 1 \in Nat
  BY <1>1
<1>3. m - 1 \in T
  BY <1>1, <1>2
<1> QED
  BY <1>1, <1>2, <1>3

(* A finite set of natural numbers that is not empty has a greatest one.   *)
LEMMA GreatestNumber ==
  ASSUME NEW T, T \subseteq Nat, T # {}, IsFiniteSet(T)
  PROVE  \E m \in T : \A k \in T : k <= m
<1> DEFINE Bounded == {n \in Nat : \A S \in SUBSET Nat :
             (IsFiniteSet(S) /\ Cardinality(S) = n) => \E b \in Nat : \A k \in S : k <= b}
<1>0. \A n \in Nat : n \in Bounded <=> \A S \in SUBSET Nat :
        (IsFiniteSet(S) /\ Cardinality(S) = n) => \E b \in Nat : \A k \in S : k <= b
  OBVIOUS
<1> HIDE DEF Bounded
<1>1. 0 \in Bounded
  <2>1. ASSUME NEW S \in SUBSET Nat, IsFiniteSet(S), Cardinality(S) = 0
        PROVE  \E b \in Nat : \A k \in S : k <= b
    BY <2>1, FS_EmptySet
  <2> QED
    BY <1>0, <2>1
<1>2. ASSUME NEW n \in Nat, n \in Bounded PROVE n + 1 \in Bounded
  <2>1. ASSUME NEW S \in SUBSET Nat, IsFiniteSet(S), Cardinality(S) = n + 1
        PROVE  \E b \in Nat : \A k \in S : k <= b
    <3>1. S # {}
      BY <1>2, <2>1, FS_EmptySet
    <3>2. PICK x \in S : TRUE
      BY <3>1
    <3>3. IsFiniteSet(S \ {x}) /\ Cardinality(S \ {x}) = n
      <4>1. Cardinality(S \ {x}) = Cardinality(S) - 1 /\ IsFiniteSet(S \ {x})
        BY <2>1, <3>2, FS_RemoveElement
      <4> QED
        BY <2>1, <4>1
    <3>4. PICK b \in Nat : \A k \in S \ {x} : k <= b
      BY <1>0, <1>2, <3>3
    <3>5. b + x \in Nat /\ \A k \in S : k <= b + x
      BY <3>2, <3>4
    <3> QED
      BY <3>5
  <2>2. n + 1 \in Nat
    OBVIOUS
  <2> QED
    BY <1>0, <2>1, <2>2, Zenon
<1>3. Nat \subseteq Bounded
  BY <1>1, <1>2, SetInduction
<1>4. PICK b \in Nat : \A k \in T : k <= b
  <2>1. Cardinality(T) \in Bounded
    BY <1>3, FS_CardinalityType
  <2> QED
    BY <1>0, <2>1, FS_CardinalityType
<1> DEFINE Gaps == {g \in Nat : b - g \in T}
<1>5. Gaps \subseteq Nat /\ Gaps # {}
  <2>1. PICK x \in T : TRUE
    OBVIOUS
  <2>2. b - x \in Nat /\ b - (b - x) = x
    BY <1>4, <2>1
  <2> QED
    BY <2>1, <2>2
<1>6. PICK g \in Gaps : \A h \in Gaps : g <= h
  BY <1>5, LeastNumber
<1>7. ASSUME NEW k \in T PROVE k <= b - g
  <2>1. b - k \in Nat /\ b - (b - k) = k
    BY <1>4, <1>7
  <2>2. g <= b - k
    BY <1>6, <2>1
  <2> QED
    BY <1>4, <1>6, <2>1, <2>2
<1> QED
  BY <1>6, <1>7

(***************************************************************************)
(* Sums over finite sets, in the shape the folds of the community modules  *)
(* have: g[s] is the sum of f over s, for the subsets s of U, by taking    *)
(* away the element that CHOOSE names.                                     *)
(***************************************************************************)
Pick(s) == CHOOSE x \in s : TRUE

SumsOver(g, f, U) ==
  g = [s \in SUBSET U |-> IF s = {} THEN 0 ELSE f[Pick(s)] + g[s \ {Pick(s)}]]

SetSum(f, U) == (CHOOSE g : SumsOver(g, f, U))[U]

LEMMA PickIsIn ==
  ASSUME NEW s, s # {}
  PROVE  Pick(s) \in s
  BY DEF Pick

LEMMA SmallerSet ==
  ASSUME NEW U, IsFiniteSet(U), NEW s \in SUBSET U, NEW x \in s
  PROVE  /\ IsFiniteSet(s) /\ s \ {x} \in SUBSET U
         /\ Cardinality(s) \in Nat /\ Cardinality(s \ {x}) \in Nat
         /\ Cardinality(s \ {x}) = Cardinality(s) - 1
<1>1. IsFiniteSet(s)
  BY FS_Subset
<1>2. IsFiniteSet(s \ {x}) /\ Cardinality(s \ {x}) = Cardinality(s) - 1
  BY <1>1, FS_RemoveElement
<1> QED
  BY <1>1, <1>2, FS_CardinalityType

(* The recursion has a solution: sizes 0, 1, 2, ... in turn.               *)
LEMMA SumsExist ==
  ASSUME NEW U, IsFiniteSet(U), NEW f
  PROVE  \E g : SumsOver(g, f, U)
<1> DEFINE Sub(n) == {s \in SUBSET U : Cardinality(s) <= n}
           Rec(g, s) == IF s = {} THEN 0 ELSE f[Pick(s)] + g[s \ {Pick(s)}]
           Good(g, n) == g = [s \in Sub(n) |-> Rec(g, s)]
           T == {n \in Nat : \E g : Good(g, n)}
<1>1. 0 \in T
  <2> DEFINE g == [s \in Sub(0) |-> 0]
  <2>1. \A s \in Sub(0) : s = {}
    <3> SUFFICES ASSUME NEW s \in Sub(0) PROVE s = {}
      OBVIOUS
    <3>1. IsFiniteSet(s) /\ Cardinality(s) \in Nat
      BY FS_Subset, FS_CardinalityType
    <3> QED
      BY <3>1, FS_EmptySet
  <2>2. \A s \in Sub(0) : g[s] = Rec(g, s)
    BY <2>1
  <2>3. Good(g, 0)
    BY <2>2
  <2> QED
    BY <2>3
<1>2. \A n \in Nat : n \in T => n + 1 \in T
  <2> SUFFICES ASSUME NEW n \in Nat, n \in T PROVE n + 1 \in T
    OBVIOUS
  <2> PICK h : Good(h, n)
    OBVIOUS
  <2> DEFINE g == [s \in Sub(n + 1) |-> Rec(h, s)]
  <2>1. \A s \in Sub(n) : s \in Sub(n + 1) /\ g[s] = h[s]
    <3> SUFFICES ASSUME NEW s \in Sub(n) PROVE s \in Sub(n + 1) /\ g[s] = h[s]
      OBVIOUS
    <3>1. Cardinality(s) \in Nat
      BY FS_Subset, FS_CardinalityType
    <3>2. s \in Sub(n + 1)
      BY <3>1
    <3> QED
      BY <3>2
  <2>2. \A s \in Sub(n + 1) : s # {} => s \ {Pick(s)} \in Sub(n)
    BY PickIsIn, SmallerSet
  <2>3. \A s \in Sub(n + 1) : g[s] = Rec(g, s)
    BY <2>1, <2>2
  <2>4. Good(g, n + 1)
    BY <2>3
  <2> HIDE DEF Good, g
  <2> QED
    BY <2>4
<1> HIDE DEF T
<1>3. Nat \subseteq T
  BY <1>1, <1>2, SetInduction
<1> USE DEF T
<1>4. Cardinality(U) \in Nat
  BY FS_CardinalityType
<1> PICK g : Good(g, Cardinality(U))
  BY <1>3, <1>4
<1>5. Sub(Cardinality(U)) = SUBSET U
  BY FS_Subset
<1> QED
  BY <1>5 DEF SumsOver

(* Two solutions agree wherever what they add does.                        *)
LEMMA SumsAgree ==
  ASSUME NEW U, IsFiniteSet(U), NEW V \in SUBSET U, NEW f, NEW e, NEW g, NEW h,
         SumsOver(g, f, U), SumsOver(h, e, V), \A x \in V : f[x] = e[x]
  PROVE  \A s \in SUBSET V : g[s] = h[s]
<1> DEFINE T == {n \in Nat : \A s \in SUBSET V : Cardinality(s) = n => g[s] = h[s]}
<1>1. \A s \in SUBSET V :
        /\ g[s] = IF s = {} THEN 0 ELSE f[Pick(s)] + g[s \ {Pick(s)}]
        /\ h[s] = IF s = {} THEN 0 ELSE e[Pick(s)] + h[s \ {Pick(s)}]
  BY DEF SumsOver
<1>2. 0 \in T
  <2> SUFFICES ASSUME NEW s \in SUBSET V, Cardinality(s) = 0 PROVE g[s] = h[s]
    OBVIOUS
  <2>1. s = {}
    BY FS_Subset, FS_EmptySet
  <2> QED
    BY <1>1, <2>1
<1>3. \A n \in Nat : n \in T => n + 1 \in T
  <2> SUFFICES ASSUME NEW n \in Nat, n \in T,
                      NEW s \in SUBSET V, Cardinality(s) = n + 1
               PROVE  g[s] = h[s]
    OBVIOUS
  <2>1. s # {}
    BY FS_EmptySet
  <2>2. Pick(s) \in s /\ s \ {Pick(s)} \in SUBSET V /\ Cardinality(s \ {Pick(s)}) = n
    BY <2>1, PickIsIn, SmallerSet
  <2>3. g[s \ {Pick(s)}] = h[s \ {Pick(s)}]
    BY <2>2
  <2> QED
    BY <1>1, <2>1, <2>2, <2>3
<1> HIDE DEF T
<1>4. Nat \subseteq T
  BY <1>2, <1>3, SetInduction
<1> USE DEF T
<1>5. \A s \in SUBSET V : Cardinality(s) \in Nat
  BY FS_Subset, FS_CardinalityType
<1> QED
  BY <1>4, <1>5

(* A sum of integers is an integer.                                        *)
LEMMA SumsAreIntegers ==
  ASSUME NEW U, IsFiniteSet(U), NEW f, \A x \in U : f[x] \in Int,
         NEW g, SumsOver(g, f, U)
  PROVE  \A s \in SUBSET U : g[s] \in Int
<1> DEFINE T == {n \in Nat : \A s \in SUBSET U : Cardinality(s) = n => g[s] \in Int}
<1>1. \A s \in SUBSET U : g[s] = IF s = {} THEN 0 ELSE f[Pick(s)] + g[s \ {Pick(s)}]
  BY DEF SumsOver
<1>2. 0 \in T
  <2> SUFFICES ASSUME NEW s \in SUBSET U, Cardinality(s) = 0 PROVE g[s] \in Int
    OBVIOUS
  <2>1. s = {}
    BY FS_Subset, FS_EmptySet
  <2>2. g[s] = 0
    BY <1>1, <2>1
  <2> QED
    BY <2>2
<1>3. \A n \in Nat : n \in T => n + 1 \in T
  <2> SUFFICES ASSUME NEW n \in Nat, n \in T,
                      NEW s \in SUBSET U, Cardinality(s) = n + 1
               PROVE  g[s] \in Int
    OBVIOUS
  <2>1. s # {}
    BY FS_EmptySet
  <2>2. Pick(s) \in s /\ f[Pick(s)] \in Int
    BY <2>1, PickIsIn
  <2>3. s \ {Pick(s)} \in SUBSET U /\ Cardinality(s \ {Pick(s)}) = n
    BY <2>2, SmallerSet
  <2>4. g[s \ {Pick(s)}] \in Int
    BY <2>3
  <2>5. g[s] = f[Pick(s)] + g[s \ {Pick(s)}]
    BY <1>1, <2>1
  <2> QED
    BY <2>2, <2>4, <2>5
<1> HIDE DEF T
<1>4. Nat \subseteq T
  BY <1>2, <1>3, SetInduction
<1> USE DEF T
<1>5. \A s \in SUBSET U : Cardinality(s) \in Nat
  BY FS_Subset, FS_CardinalityType
<1> QED
  BY <1>4, <1>5

(* It does not matter which element is taken away.                         *)
LEMMA SumsTakeAny ==
  ASSUME NEW U, IsFiniteSet(U), NEW f, \A x \in U : f[x] \in Int,
         NEW g, SumsOver(g, f, U), NEW V \in SUBSET U, NEW y \in V
  PROVE  g[V] = f[y] + g[V \ {y}]
<1> DEFINE Any(s) == \A x \in s : g[s] = f[x] + g[s \ {x}]
           T == {n \in Nat : \A s \in SUBSET U : Cardinality(s) = n => Any(s)}
<1>1. \A s \in SUBSET U : g[s] \in Int
  BY SumsAreIntegers
<1>2. 0 \in T
  <2> SUFFICES ASSUME NEW s \in SUBSET U, Cardinality(s) = 0 PROVE Any(s)
    OBVIOUS
  <2>1. s = {}
    BY FS_Subset, FS_EmptySet
  <2> QED
    BY <2>1
<1>3. \A n \in Nat : n \in T => n + 1 \in T
  <2> SUFFICES ASSUME NEW n \in Nat, n \in T,
                      NEW s \in SUBSET U, Cardinality(s) = n + 1,
                      NEW x \in s
               PROVE  g[s] = f[x] + g[s \ {x}]
    OBVIOUS
  <2> DEFINE p == Pick(s)
  <2>1. p \in s /\ g[s] = f[p] + g[s \ {p}]
    BY PickIsIn DEF SumsOver
  <2>2. \A z \in s : s \ {z} \in SUBSET U /\ Cardinality(s \ {z}) = n
    BY SmallerSet
  <2>3. \A z \in s : Any(s \ {z})
    BY <2>2
  <2> HIDE DEF p, T
  <2>4. CASE x = p
    BY <2>1, <2>4
  <2>5. CASE x # p
    <3>1. x \in s \ {p} /\ p \in s \ {x} /\ (s \ {p}) \ {x} = (s \ {x}) \ {p}
      BY <2>1, <2>5
    <3>2. g[s \ {p}] = f[x] + g[(s \ {p}) \ {x}]
      BY <2>1, <2>3, <3>1
    <3>3. g[s \ {x}] = f[p] + g[(s \ {x}) \ {p}]
      BY <2>3, <3>1
    <3>4. (s \ {x}) \ {p} \in SUBSET U
      OBVIOUS
    <3>5. g[(s \ {x}) \ {p}] \in Int /\ f[x] \in Int /\ f[p] \in Int
      BY <1>1, <2>1, <3>4
    <3>6. /\ g[s] = f[p] + (f[x] + g[(s \ {x}) \ {p}])
          /\ g[s \ {x}] = f[p] + g[(s \ {x}) \ {p}]
      BY <2>1, <3>1, <3>2, <3>3
    <3> QED
      BY <3>5, <3>6
  <2> QED
    BY <2>4, <2>5
<1> HIDE DEF T
<1>4. Nat \subseteq T
  BY <1>2, <1>3, SetInduction
<1>5. Cardinality(V) \in Nat
  BY FS_Subset, FS_CardinalityType
<1>6. Cardinality(V) \in T
  BY <1>4, <1>5
<1> QED
  BY <1>6 DEF T

(***************************************************************************)
(* What a user of sums needs.                                              *)
(***************************************************************************)
LEMMA SetSumIs ==
  ASSUME NEW U, IsFiniteSet(U), NEW f, NEW h, SumsOver(h, f, U)
  PROVE  SetSum(f, U) = h[U]
<1> DEFINE g == CHOOSE g : SumsOver(g, f, U)
<1>1. SumsOver(g, f, U)
  OBVIOUS
<1> HIDE DEF g
<1>2. g[U] = h[U]
  BY <1>1, SumsAgree
<1> QED
  BY <1>2 DEF SetSum, g

LEMMA SetSumEmpty ==
  ASSUME NEW f
  PROVE  SetSum(f, {}) = 0
<1> DEFINE g == CHOOSE g : SumsOver(g, f, {})
<1>1. SumsOver(g, f, {})
  BY SumsExist, FS_EmptySet
<1> HIDE DEF g
<1>2. g[{}] = 0
  BY <1>1 DEF SumsOver
<1> QED
  BY <1>2 DEF SetSum, g

LEMMA SetSumZero ==
  ASSUME NEW U, IsFiniteSet(U), NEW f, \A x \in U : f[x] = 0
  PROVE  SetSum(f, U) = 0
<1> DEFINE h == [s \in SUBSET U |-> 0]
<1>1. SumsOver(h, f, U)
  <2>1. \A s \in SUBSET U : s # {} => f[Pick(s)] = 0 /\ s \ {Pick(s)} \in SUBSET U
    BY PickIsIn
  <2>2. \A s \in SUBSET U : h[s] = IF s = {} THEN 0 ELSE f[Pick(s)] + h[s \ {Pick(s)}]
    BY <2>1
  <2> QED
    BY <2>2 DEF SumsOver
<1> HIDE DEF h
<1>2. SetSum(f, U) = h[U]
  BY <1>1, SetSumIs
<1> QED
  BY <1>2 DEF h

LEMMA SetSumSame ==
  ASSUME NEW U, IsFiniteSet(U), NEW f, NEW e, \A x \in U : f[x] = e[x]
  PROVE  SetSum(f, U) = SetSum(e, U)
<1> DEFINE g == CHOOSE g : SumsOver(g, f, U)
           h == CHOOSE h : SumsOver(h, e, U)
<1>1. SumsOver(g, f, U) /\ SumsOver(h, e, U)
  BY SumsExist
<1> HIDE DEF g, h
<1>2. g[U] = h[U]
  BY <1>1, SumsAgree
<1> QED
  BY <1>2 DEF SetSum, g, h

LEMMA SetSumAdd ==
  ASSUME NEW U, IsFiniteSet(U), NEW f, \A x \in U : f[x] \in Int, NEW y \in U
  PROVE  /\ SetSum(f, U) = f[y] + SetSum(f, U \ {y})
         /\ SetSum(f, U) \in Int /\ SetSum(f, U \ {y}) \in Int
<1> DEFINE g == CHOOSE g : SumsOver(g, f, U)
           h == CHOOSE h : SumsOver(h, f, U \ {y})
<1>1. SumsOver(g, f, U)
  BY SumsExist
<1>2. IsFiniteSet(U \ {y}) /\ U \ {y} \in SUBSET U
  BY FS_RemoveElement
<1>3. SumsOver(h, f, U \ {y})
  BY <1>2, SumsExist
<1> HIDE DEF g, h
<1>4. g[U \ {y}] = h[U \ {y}]
  <2>1. \A s \in SUBSET (U \ {y}) : g[s] = h[s]
    <3> DEFINE V == U \ {y}
    <3>1. V \in SUBSET U /\ SumsOver(h, f, V)
      BY <1>2, <1>3
    <3> HIDE DEF V
    <3>2. \A s \in SUBSET V : g[s] = h[s]
      BY <1>1, <3>1, SumsAgree
    <3> QED
      BY <3>2 DEF V
  <2> QED
    BY <2>1
<1>5. \A s \in SUBSET U : g[s] \in Int
  BY <1>1, SumsAreIntegers
<1>6. g[U] = f[y] + g[U \ {y}]
  BY <1>1, SumsTakeAny
<1>7. g[U] \in Int /\ g[U \ {y}] \in Int
  BY <1>2, <1>5
<1> QED
  BY <1>4, <1>6, <1>7 DEF SetSum, g, h

LEMMA SetSumInt ==
  ASSUME NEW U, IsFiniteSet(U), NEW f, \A x \in U : f[x] \in Int
  PROVE  SetSum(f, U) \in Int
<1>1. PICK g : SumsOver(g, f, U)
  BY SumsExist
<1>2. g[U] \in Int
  BY <1>1, SumsAreIntegers
<1> QED
  BY <1>1, <1>2, SetSumIs

(* What covers two disjoint sums element by element covers them in total.  *)
LEMMA SetSumCovers ==
  ASSUME NEW U, IsFiniteSet(U), NEW f, \A x \in U : f[x] \in Nat,
         NEW S \in SUBSET U, NEW c, \A x \in S : c[x] \in Int /\ c[x] <= f[x],
         NEW P \in SUBSET U, NEW d, \A x \in P : d[x] \in Int /\ d[x] <= f[x],
         S \intersect P = {}
  PROVE  SetSum(c, S) + SetSum(d, P) <= SetSum(f, U)
<1> DEFINE Total(V) == SetSum(c, V \intersect S) + SetSum(d, V \intersect P)
           T == {n \in Nat : \A V \in SUBSET U :
                   Cardinality(V) = n => Total(V) <= SetSum(f, V)}
<1>1. 0 \in T
  <2> SUFFICES ASSUME NEW V \in SUBSET U, Cardinality(V) = 0
               PROVE  Total(V) <= SetSum(f, V)
    OBVIOUS
  <2>1. V = {} /\ V \intersect S = {} /\ V \intersect P = {}
    BY FS_Subset, FS_EmptySet
  <2>2. SetSum(c, {}) = 0 /\ SetSum(d, {}) = 0 /\ SetSum(f, {}) = 0
    BY SetSumEmpty
  <2> QED
    BY <2>1, <2>2
<1>2. \A n \in Nat : n \in T => n + 1 \in T
  <2> SUFFICES ASSUME NEW n \in Nat, n \in T,
                      NEW V \in SUBSET U, Cardinality(V) = n + 1
               PROVE  Total(V) <= SetSum(f, V)
    OBVIOUS
  <2>0. V # {}
    <3>1. Cardinality({}) = 0
      BY FS_EmptySet
    <3>2. Cardinality(V) # 0
      OBVIOUS
    <3> QED
      BY <3>1, <3>2
  <2>1. PICK x \in V : TRUE
    BY <2>0
  <2> DEFINE W == V \ {x}
             VS == V \intersect S
             VP == V \intersect P
             WS == W \intersect S
             WP == W \intersect P
  <2>2. /\ IsFiniteSet(V) /\ W \in SUBSET U /\ Cardinality(W) = n
        /\ IsFiniteSet(VS) /\ IsFiniteSet(VP) /\ IsFiniteSet(WS) /\ IsFiniteSet(WP)
    BY <2>1, SmallerSet, FS_Subset
  <2>3. SetSum(c, WS) + SetSum(d, WP) <= SetSum(f, W)
    BY <2>2
  <2>4. SetSum(f, V) = f[x] + SetSum(f, W) /\ SetSum(f, W) \in Int /\ f[x] \in Nat
    BY <2>1, <2>2, SetSumAdd
  <2>5. \A y \in S : c[y] \in Int /\ c[y] <= f[y]
    OBVIOUS
  <2>6. \A y \in P : d[y] \in Int /\ d[y] <= f[y]
    OBVIOUS
  <2>7. SetSum(c, WS) \in Int /\ SetSum(d, WP) \in Int
    BY <2>2, <2>5, <2>6, SetSumInt
  <2>8. /\ \A y \in VS : c[y] \in Int /\ c[y] <= f[y]
        /\ x \in S => x \in VS /\ VS \ {x} = WS /\ VP = WP
        /\ x \notin S => VS = WS
    BY <2>5
  <2>9. /\ \A y \in VP : d[y] \in Int /\ d[y] <= f[y]
        /\ x \in P => x \in VP /\ VP \ {x} = WP /\ VS = WS
        /\ x \notin P => VP = WP
    BY <2>6
  <2>10. x \in S => SetSum(c, VS) = c[x] + SetSum(c, WS) /\ c[x] \in Int /\ c[x] <= f[x]
    <3> HIDE DEF VS, VP, WS, WP
    <3> QED
      BY <2>2, <2>8, SetSumAdd
  <2>11. x \in P => SetSum(d, VP) = d[x] + SetSum(d, WP) /\ d[x] \in Int /\ d[x] <= f[x]
    <3> HIDE DEF VS, VP, WS, WP
    <3> QED
      BY <2>2, <2>9, SetSumAdd
  <2>12. SetSum(c, VS) + SetSum(d, VP) <= SetSum(f, V)
    <3> HIDE DEF VS, VP, WS, WP, W, T
    <3>1. CASE x \in S
      BY <2>3, <2>4, <2>7, <2>8, <2>10, <3>1
    <3>2. CASE x \in P
      BY <2>3, <2>4, <2>7, <2>9, <2>11, <3>2
    <3>3. CASE x \notin S /\ x \notin P
      BY <2>3, <2>4, <2>7, <2>8, <2>9, <3>3
    <3> QED
      BY <3>1, <3>2, <3>3
  <2> QED
    BY <2>12
<1> HIDE DEF T
<1>3. Nat \subseteq T
  BY <1>1, <1>2, SetInduction
<1>4. Cardinality(U) \in T
  BY <1>3, FS_CardinalityType
<1>5. Total(U) <= SetSum(f, U)
  BY <1>4 DEF T
<1>6. U \intersect S = S /\ U \intersect P = P
  OBVIOUS
<1> QED
  BY <1>5, <1>6
================================================================================
