------------------------------- MODULE Lemmas -------------------------------
(***************************************************************************)
(* What the proofs about several modules rest on: induction and recursion  *)
(* over the natural numbers, the sums that MapThenSumSet computes, and the *)
(* macros of lst.h.                                                        *)
(***************************************************************************)
EXTENDS LstOps, Integers, FiniteSets, FiniteSetsExt, FiniteSetTheorems,
        WellFoundedInduction, TLAPS

(* Induction over the natural numbers, for a set of them.                  *)
LEMMA AllNaturals ==
  ASSUME NEW U, 0 \in U, \A m \in Nat : m \in U => m + 1 \in U
  PROVE  \A m \in Nat : m \in U
<1> DEFINE T == Nat \ U
<1>1. SUFFICES ASSUME T # {} PROVE FALSE
  OBVIOUS
<1> DEFINE R == OpToRel(<, Nat)
<1>2. IsWellFoundedOn(R, Nat)
  BY NatLessThanWellFounded
<1>3. \A i, j \in Nat : i < j => <<i, j>> \in R
  BY DEF OpToRel
<1>4. T \subseteq Nat
  OBVIOUS
<1> HIDE DEF R, T
<1>5. PICK x \in T : \A y \in T : ~ (<<y, x>> \in R)
  BY <1>1, <1>2, <1>4, WFMin
<1> USE DEF T
<1>6. x \in Nat \ {0}
  BY <1>5
<1>7. x - 1 \in Nat /\ x - 1 < x /\ (x - 1) + 1 = x
  BY <1>6
<1>8. x - 1 \in U
  BY <1>3, <1>5, <1>6, <1>7
<1> QED
  BY <1>5, <1>7, <1>8

(* A set of natural numbers that is not empty has a least element.         *)
LEMMA LeastExists ==
  ASSUME NEW T, T \subseteq Nat, T # {}
  PROVE  \E x \in T : \A y \in T : x <= y
<1> DEFINE R == OpToRel(<, Nat)
<1>1. IsWellFoundedOn(R, Nat)
  BY NatLessThanWellFounded
<1>2. \A i, j \in Nat : i < j => <<i, j>> \in R
  BY DEF OpToRel
<1> HIDE DEF R
<1>3. PICK x \in T : \A y \in T : ~ (<<y, x>> \in R)
  BY <1>1, WFMin
<1>4. \A y \in T : ~ y < x
  BY <1>2, <1>3
<1> QED
  BY <1>3, <1>4

(* What is defined by recursion over the natural numbers exists: the       *)
(* values a, g[a], g[g[a]] and so on.  First up to n.                      *)
IteratesTo(f, n, S, a, g) ==
  f \in [0..n -> S] /\ f[0] = a /\ \A k \in 0..(n - 1) : f[k + 1] = g[f[k]]

LEMMA IteratesToAll ==
  ASSUME NEW S, NEW a \in S, NEW g \in [S -> S]
  PROVE  \A n \in Nat : \E f : IteratesTo(f, n, S, a, g)
<1> DEFINE U == {n \in Nat : \E f : IteratesTo(f, n, S, a, g)}
<1>1. 0 \in U
  <2>1. PICK f : f = [k \in 0..0 |-> a]
    OBVIOUS
  <2>2. f \in [0..0 -> S] /\ f[0] = a /\ \A k \in 0..(0 - 1) : f[k + 1] = g[f[k]]
    BY <2>1
  <2> QED
    BY <2>2 DEF IteratesTo
<1>2. ASSUME NEW n \in Nat, n \in U PROVE n + 1 \in U
  <2>1. PICK f : IteratesTo(f, n, S, a, g)
    BY <1>2
  <2>2. f \in [0..n -> S] /\ f[0] = a /\ \A k \in 0..(n - 1) : f[k + 1] = g[f[k]]
    BY <2>1 DEF IteratesTo
  <2>3. PICK e : e = [k \in 0..(n + 1) |-> IF k <= n THEN f[k] ELSE g[f[n]]]
    OBVIOUS
  <2>4. f[n] \in S /\ g[f[n]] \in S /\ \A k \in 0..(n + 1) : k <= n => f[k] \in S
    BY <2>2
  <2>5. e \in [0..(n + 1) -> S] /\ e[0] = a
    BY <2>2, <2>3, <2>4
  <2>6. ASSUME NEW k \in 0..((n + 1) - 1) PROVE e[k + 1] = g[e[k]]
    <3>1. k \in 0..n /\ k \in 0..(n + 1) /\ k + 1 \in 0..(n + 1) /\ k <= n
      OBVIOUS
    <3>2. e[k] = f[k] /\ e[k + 1] = IF k + 1 <= n THEN f[k + 1] ELSE g[f[n]]
      BY <2>3, <3>1
    <3>3. CASE k + 1 <= n
      BY <2>2, <3>1, <3>2, <3>3
    <3>4. CASE ~ k + 1 <= n
      <4>1. k = n
        BY <3>1, <3>4
      <4> QED
        BY <3>2, <3>4, <4>1
    <3> QED
      BY <3>3, <3>4
  <2> QED
    BY <2>5, <2>6 DEF IteratesTo
<1>3. \A n \in Nat : n \in U => n + 1 \in U
  BY <1>2
<1> HIDE DEF U
<1>4. \A n \in Nat : n \in U
  BY <1>1, <1>3, AllNaturals
<1> USE DEF U
<1> QED
  BY <1>4

LEMMA IteratesAgree ==
  ASSUME NEW S, NEW a, NEW g, NEW n \in Nat, NEW m \in Nat, NEW e, NEW f,
         IteratesTo(e, n, S, a, g), IteratesTo(f, m, S, a, g)
  PROVE  \A k \in Nat : k <= n /\ k <= m => e[k] = f[k]
<1> DEFINE U == {k \in Nat : k <= n /\ k <= m => e[k] = f[k]}
<1>1. 0 \in U
  BY DEF IteratesTo
<1>2. ASSUME NEW k \in Nat, k \in U PROVE k + 1 \in U
  <2> SUFFICES ASSUME k + 1 <= n, k + 1 <= m PROVE e[k + 1] = f[k + 1]
    OBVIOUS
  <2>1. k \in 0..(n - 1) /\ k \in 0..(m - 1) /\ e[k] = f[k]
    BY <1>2
  <2>2. e[k + 1] = g[e[k]] /\ f[k + 1] = g[f[k]]
    BY <2>1 DEF IteratesTo
  <2> QED
    BY <2>1, <2>2
<1>3. \A k \in Nat : k \in U => k + 1 \in U
  BY <1>2
<1> HIDE DEF U
<1>4. \A k \in Nat : k \in U
  BY <1>1, <1>3, AllNaturals
<1> USE DEF U
<1> QED
  BY <1>4

LEMMA Iterates ==
  ASSUME NEW S, NEW a \in S, NEW g \in [S -> S]
  PROVE  \E f \in [Nat -> S] : f[0] = a /\ \A k \in Nat : f[k + 1] = g[f[k]]
<1>1. PICK e : e = [n \in Nat |-> CHOOSE f : IteratesTo(f, n, S, a, g)]
  OBVIOUS
<1>2. \A n \in Nat : IteratesTo(e[n], n, S, a, g)
  BY <1>1, IteratesToAll
<1>3. \A n \in Nat : e[n][n] \in S
  BY <1>2 DEF IteratesTo
<1>4. e[0][0] = a
  BY <1>2 DEF IteratesTo
<1>5. ASSUME NEW k \in Nat PROVE e[k + 1][k + 1] = g[e[k][k]]
  <2>1. k + 1 \in Nat /\ k \in 0..((k + 1) - 1) /\ k <= k /\ k <= k + 1
    OBVIOUS
  <2>2. IteratesTo(e[k], k, S, a, g) /\ IteratesTo(e[k + 1], k + 1, S, a, g)
    BY <1>2, <2>1
  <2>3. e[k + 1][k + 1] = g[e[k + 1][k]]
    BY <2>1, <2>2 DEF IteratesTo
  <2>4. e[k][k] = e[k + 1][k]
    BY <2>1, <2>2, IteratesAgree
  <2> QED
    BY <2>3, <2>4
<1>6. PICK f : f = [n \in Nat |-> e[n][n]]
  OBVIOUS
<1>7. f \in [Nat -> S] /\ f[0] = a /\ \A k \in Nat : f[k + 1] = g[f[k]]
  BY <1>3, <1>4, <1>5, <1>6
<1> QED
  BY <1>7

(* What is defined by recursion up to a number n exists, too, and its step *)
(* may look at how far it has come.                                        *)
Computes(f, n, S, a, g) ==
  f \in [0..n -> S] /\ f = [k \in 0..n |-> IF k = 0 THEN a ELSE g[<<k, f[k - 1]>>]]

LEMMA Recursion ==
  ASSUME NEW S, NEW a \in S, NEW n \in Nat, NEW g \in [(1..n) \X S -> S]
  PROVE  \E f : Computes(f, n, S, a, g)
<1> DEFINE U == {m \in Nat : m <= n => \E f : Computes(f, m, S, a, g)}
<1>1. 0 \in U
  <2>1. PICK f : f = [k \in 0..0 |-> a]
    OBVIOUS
  <2>2. f \in [0..0 -> S] /\ f = [k \in 0..0 |-> IF k = 0 THEN a ELSE g[<<k, f[k - 1]>>]]
    BY <2>1
  <2> QED
    BY <2>2 DEF Computes
<1>2. ASSUME NEW m \in Nat, m \in U PROVE m + 1 \in U
  <2> SUFFICES ASSUME m + 1 <= n PROVE \E f : Computes(f, m + 1, S, a, g)
    OBVIOUS
  <2>1. PICK e : Computes(e, m, S, a, g)
    BY <1>2
  <2>2. e \in [0..m -> S] /\ e = [k \in 0..m |-> IF k = 0 THEN a ELSE g[<<k, e[k - 1]>>]]
    BY <2>1 DEF Computes
  <2>3. PICK f : f = [k \in 0..(m + 1) |-> IF k <= m THEN e[k] ELSE g[<<m + 1, e[m]>>]]
    OBVIOUS
  <2>4. e[m] \in S /\ g[<<m + 1, e[m]>>] \in S
    BY <2>2
  <2>5. f \in [0..(m + 1) -> S]
    BY <2>2, <2>3, <2>4
  <2>6. ASSUME NEW k \in 0..(m + 1) PROVE f[k] = IF k = 0 THEN a ELSE g[<<k, f[k - 1]>>]
    <3>1. CASE k = 0
      BY <2>2, <2>3, <3>1
    <3>2. CASE k # 0 /\ k <= m
      <4>1. k - 1 \in 0..(m + 1) /\ k - 1 <= m /\ k \in 0..m
        BY <3>2
      <4>2. f[k] = e[k] /\ f[k - 1] = e[k - 1]
        BY <2>3, <3>2, <4>1
      <4> QED
        BY <2>2, <3>2, <4>1, <4>2
    <3>3. CASE k = m + 1
      <4>1. m \in 0..(m + 1) /\ m <= m /\ k - 1 = m /\ ~ k <= m /\ k # 0
        BY <3>3
      <4>2. f[k] = g[<<m + 1, e[m]>>] /\ f[m] = e[m]
        BY <2>3, <4>1
      <4> QED
        BY <3>3, <4>1, <4>2
    <3> QED
      BY <3>1, <3>2, <3>3
  <2>7. f = [k \in 0..(m + 1) |-> f[k]]
    BY <2>5
  <2>8. f = [k \in 0..(m + 1) |-> IF k = 0 THEN a ELSE g[<<k, f[k - 1]>>]]
    BY <2>6, <2>7
  <2> QED
    BY <2>5, <2>8 DEF Computes
<1>3. \A m \in Nat : m \in U => m + 1 \in U
  BY <1>2
<1> HIDE DEF U
<1>4. \A m \in Nat : m \in U
  BY <1>1, <1>3, AllNaturals
<1> USE DEF U
<1> QED
  BY <1>4

-----------------------------------------------------------------------------
(***************************************************************************)
(* The sum of the values of f on a finite set: what the recursion behind   *)
(* MapThenSumSet computes does not depend on the order of the elements.    *)
(***************************************************************************)
SumOf(f, T) == MapThenSumSet(LAMBDA b : f[b], T)

(* f has a number for every element of T, which is the one e has.          *)
Lengths(f, T) == \A x \in T : f[x] \in Nat

SameLengths(f, e, T) == \A x \in T : f[x] = e[x]

Sums(g, f, T) ==
  g = [s \in SUBSET T |->
         IF s = {} THEN 0 ELSE f[CHOOSE x \in s : TRUE] + g[s \ {CHOOSE x \in s : TRUE}]]

LEMMA SumUnfolds ==
  ASSUME NEW f, NEW T
  PROVE  SumOf(f, T) = (CHOOSE g : Sums(g, f, T))[T]
BY DEF SumOf, MapThenSumSet, MapThenFoldSet, Sums

LEMMA OneLess ==
  ASSUME NEW S, IsFiniteSet(S), NEW x \in S
  PROVE  IsFiniteSet(S \ {x}) /\ Cardinality(S \ {x}) = Cardinality(S) - 1
BY FS_RemoveElement

LEMMA SumExists ==
  ASSUME NEW T, IsFiniteSet(T), NEW f, Lengths(f, T)
  PROVE  \E g : Sums(g, f, T)
<1> DEFINE Upto(g, m) ==
      g = [s \in SUBSET T |->
             IF Cardinality(s) <= m
             THEN IF s = {} THEN 0
                  ELSE f[CHOOSE x \in s : TRUE] + g[s \ {CHOOSE x \in s : TRUE}]
             ELSE 0]
    U == {m \in Nat : \E g : Upto(g, m)}
<1>1. \A s \in SUBSET T : IsFiniteSet(s) /\ Cardinality(s) \in Nat
  BY FS_Subset, FS_CardinalityType
<1>2. \A s \in SUBSET T : s # {} =>
        LET x == CHOOSE x \in s : TRUE
        IN  x \in s /\ s \ {x} \in SUBSET T /\ Cardinality(s \ {x}) = Cardinality(s) - 1
  <2> SUFFICES ASSUME NEW s \in SUBSET T, s # {}, NEW x, x = CHOOSE y \in s : TRUE
               PROVE  x \in s /\ s \ {x} \in SUBSET T
                      /\ Cardinality(s \ {x}) = Cardinality(s) - 1
    OBVIOUS
  <2>1. x \in s
    OBVIOUS
  <2> QED
    BY <1>1, <2>1, OneLess
<1>3. 0 \in U
  <2>1. PICK g : g = [s \in SUBSET T |-> 0]
    OBVIOUS
  <2>2. \A s \in SUBSET T : Cardinality(s) <= 0 => s = {}
    BY <1>1, FS_EmptySet
  <2>3. Upto(g, 0)
    BY <2>1, <2>2
  <2> QED
    BY <2>3
<1>4. ASSUME NEW m \in Nat, m \in U PROVE m + 1 \in U
  <2>1. PICK g : Upto(g, m)
    BY <1>4
  <2>2. PICK h : h = [s \in SUBSET T |->
                        IF Cardinality(s) <= m THEN g[s]
                        ELSE IF Cardinality(s) = m + 1
                             THEN f[CHOOSE x \in s : TRUE] + g[s \ {CHOOSE x \in s : TRUE}]
                             ELSE 0]
    OBVIOUS
  <2>3. ASSUME NEW s \in SUBSET T
        PROVE  h[s] = IF Cardinality(s) <= m + 1
                      THEN IF s = {} THEN 0
                           ELSE f[CHOOSE x \in s : TRUE] + h[s \ {CHOOSE x \in s : TRUE}]
                      ELSE 0
    <3>1. Cardinality(s) \in Nat /\ Cardinality({}) = 0
      BY <1>1, FS_EmptySet
    <3>2. CASE s = {}
      BY <2>1, <2>2, <3>1, <3>2
    <3>3. CASE s # {}
      <4>1. PICK x : x = CHOOSE y \in s : TRUE
        OBVIOUS
      <4>2. s \ {x} \in SUBSET T /\ Cardinality(s \ {x}) = Cardinality(s) - 1
        BY <1>2, <3>3, <4>1
      <4>3. Cardinality(s) <= m + 1 => h[s \ {x}] = g[s \ {x}]
        BY <2>2, <3>1, <4>2
      <4>4. Cardinality(s) <= m => g[s] = f[x] + g[s \ {x}]
        BY <2>1, <3>3, <4>1
      <4>5. h[s] = IF Cardinality(s) <= m THEN g[s]
                   ELSE IF Cardinality(s) = m + 1 THEN f[x] + g[s \ {x}] ELSE 0
        BY <2>2, <4>1
      <4> QED
        BY <3>1, <3>3, <4>1, <4>3, <4>4, <4>5
    <3> QED
      BY <3>2, <3>3
  <2>4. Upto(h, m + 1)
    BY <2>2, <2>3
  <2> HIDE DEF Upto
  <2>5. \E x : Upto(x, m + 1)
    BY <2>4
  <2> QED
    BY <2>5
<1>5. \A m \in Nat : m \in U
  <2> HIDE DEF U
  <2> QED
    BY <1>3, <1>4, AllNaturals
<1>6. PICK g : Upto(g, Cardinality(T))
  BY <1>1, <1>5
<1>7. \A s \in SUBSET T : Cardinality(s) <= Cardinality(T)
  BY FS_Subset
<1>8. Sums(g, f, T)
  BY <1>6, <1>7 DEF Sums
<1> QED
  BY <1>8

AgreeAt(g, h, S) == g[S] = h[S]

LEMMA SumsAgree ==
  ASSUME NEW R, IsFiniteSet(R), NEW T \in SUBSET R,
         NEW f, NEW g, Sums(g, f, T), NEW e, NEW h, Sums(h, e, R),
         SameLengths(f, e, T), NEW S \in SUBSET T
  PROVE  AgreeAt(g, h, S)
<1> DEFINE U == {m \in Nat : \A s \in SUBSET T : Cardinality(s) = m => g[s] = h[s]}
<1>1. \A s \in SUBSET R : IsFiniteSet(s) /\ Cardinality(s) \in Nat
  BY FS_Subset, FS_CardinalityType
<1>2. 0 \in U
  <2>1. \A s \in SUBSET T : Cardinality(s) = 0 => s = {}
    BY <1>1, FS_EmptySet
  <2>2. g[{}] = 0 /\ h[{}] = 0
    BY DEF Sums
  <2> QED
    BY <2>1, <2>2
<1>3. ASSUME NEW m \in Nat, m \in U PROVE m + 1 \in U
  <2>1. SUFFICES ASSUME NEW s \in SUBSET T, Cardinality(s) = m + 1 PROVE g[s] = h[s]
    OBVIOUS
  <2>2. s # {} /\ s \in SUBSET R
    BY <2>1, FS_EmptySet
  <2>3. PICK x : x = CHOOSE y \in s : TRUE
    OBVIOUS
  <2>4. x \in s /\ s \ {x} \in SUBSET T
    BY <2>2, <2>3
  <2>5. Cardinality(s \ {x}) = m
    <3>1. IsFiniteSet(s)
      BY <1>1, <2>2
    <3> QED
      BY <2>1, <2>4, <3>1, OneLess
  <2>6. g[s \ {x}] = h[s \ {x}]
    BY <1>3, <2>4, <2>5
  <2>7. g[s] = f[x] + g[s \ {x}]
    BY <2>2, <2>3 DEF Sums
  <2>8. h[s] = e[x] + h[s \ {x}]
    BY <2>2, <2>3 DEF Sums
  <2> QED
    BY <2>4, <2>6, <2>7, <2>8 DEF SameLengths
<1>4. \A m \in Nat : m \in U
  <2> HIDE DEF U
  <2> QED
    BY <1>2, <1>3, AllNaturals
<1> QED
  BY <1>1, <1>4 DEF AgreeAt

LEMMA SumIsNumber ==
  ASSUME NEW T, IsFiniteSet(T), NEW f, Lengths(f, T), NEW g, Sums(g, f, T)
  PROVE  \A s \in SUBSET T : g[s] \in Nat
<1> DEFINE U == {m \in Nat : \A s \in SUBSET T : Cardinality(s) = m => g[s] \in Nat}
<1>1. \A s \in SUBSET T : IsFiniteSet(s) /\ Cardinality(s) \in Nat
  BY FS_Subset, FS_CardinalityType
<1>2. 0 \in U
  <2>1. \A s \in SUBSET T : Cardinality(s) = 0 => s = {}
    BY <1>1, FS_EmptySet
  <2>2. g[{}] = 0
    BY DEF Sums
  <2> QED
    BY <2>1, <2>2
<1>3. ASSUME NEW m \in Nat, m \in U PROVE m + 1 \in U
  <2>1. SUFFICES ASSUME NEW s \in SUBSET T, Cardinality(s) = m + 1 PROVE g[s] \in Nat
    OBVIOUS
  <2>2. s # {}
    <3>1. Cardinality({}) = 0
      BY FS_EmptySet
    <3> QED
      BY <2>1, <3>1
  <2>3. PICK c : c = CHOOSE y \in s : TRUE
    OBVIOUS
  <2>4. c \in s /\ g[s] = f[c] + g[s \ {c}]
    BY <2>2, <2>3 DEF Sums
  <2>5. s \ {c} \in SUBSET T /\ Cardinality(s \ {c}) = m
    <3>1. IsFiniteSet(s)
      BY <1>1
    <3> QED
      BY <2>1, <2>4, <3>1, OneLess
  <2>6. g[s \ {c}] \in Nat /\ f[c] \in Nat
    BY <1>3, <2>4, <2>5 DEF Lengths
  <2> QED
    BY <2>4, <2>6
<1>4. \A m \in Nat : m \in U
  <2> HIDE DEF U
  <2> QED
    BY <1>2, <1>3, AllNaturals
<1> QED
  BY <1>1, <1>4

LEMMA SumWithout ==
  ASSUME NEW T, IsFiniteSet(T), NEW f, Lengths(f, T), NEW g, Sums(g, f, T),
         NEW S \in SUBSET T, NEW z \in S
  PROVE  g[S] = f[z] + g[S \ {z}]
<1> DEFINE U == {m \in Nat : \A s \in SUBSET T : Cardinality(s) = m =>
                   \A x \in s : g[s] = f[x] + g[s \ {x}]}
<1>1. \A s \in SUBSET T : IsFiniteSet(s) /\ Cardinality(s) \in Nat
  BY FS_Subset, FS_CardinalityType
<1>2. 0 \in U
  <2>1. \A s \in SUBSET T : Cardinality(s) = 0 => s = {}
    BY <1>1, FS_EmptySet
  <2>2. g[{}] = 0
    BY DEF Sums
  <2> QED
    BY <2>1, <2>2
<1>3. ASSUME NEW m \in Nat, m \in U PROVE m + 1 \in U
  <2>1. \A s \in SUBSET T : Cardinality(s) = m => \A x \in s : g[s] = f[x] + g[s \ {x}]
    BY <1>3
  <2> HIDE DEF U
  <2>2. ASSUME NEW s \in SUBSET T, Cardinality(s) = m + 1, NEW x \in s
        PROVE  g[s] = f[x] + g[s \ {x}]
    <3>1. \A y \in s : s \ {y} \in SUBSET T /\ Cardinality(s \ {y}) = m
      <4>1. IsFiniteSet(s)
        BY <1>1
      <4> QED
        BY <2>2, <4>1, OneLess
    <3>2. PICK c : c = CHOOSE y \in s : TRUE
      OBVIOUS
    <3>3. c \in s /\ g[s] = f[c] + g[s \ {c}]
      BY <2>2, <3>2 DEF Sums
    <3>4. CASE x = c
      BY <3>3, <3>4
    <3>5. CASE x # c
      <4>1. PICK w : w = (s \ {c}) \ {x}
        OBVIOUS
      <4>2. x \in s \ {c} /\ c \in s \ {x} /\ w = (s \ {x}) \ {c} /\ w \in SUBSET T
        BY <2>2, <3>3, <3>5, <4>1
      <4>3. g[s \ {c}] = f[x] + g[w]
        BY <2>1, <3>1, <3>3, <4>1, <4>2
      <4>4. g[s \ {x}] = f[c] + g[w]
        BY <2>1, <2>2, <3>1, <4>2
      <4>5. f[x] \in Nat /\ f[c] \in Nat /\ g[w] \in Nat
        BY <2>2, <3>3, <4>2, SumIsNumber DEF Lengths
      <4> QED
        BY <3>3, <4>3, <4>4, <4>5
    <3> QED
      BY <3>4, <3>5
  <2> QED
    BY <2>2 DEF U
<1>4. \A m \in Nat : m \in U
  <2> HIDE DEF U
  <2> QED
    BY <1>2, <1>3, AllNaturals
<1> QED
  BY <1>1, <1>4

(* One element more adds its number.                                       *)
SetsAt(e, f, x, v) == e = [f EXCEPT ![x] = v]

Joins(R, S, x) == R = S \cup {x}

LEMMA SumGrows ==
  ASSUME NEW T, IsFiniteSet(T), NEW S \in SUBSET T, NEW x \in T, x \notin S,
         NEW f \in [T -> Nat], NEW v \in Nat, NEW e, SetsAt(e, f, x, v),
         NEW R, Joins(R, S, x)
  PROVE  SumOf(e, R) = SumOf(f, S) + v
<1>1. e = [f EXCEPT ![x] = v]
  BY DEF SetsAt
<1>2. R = S \cup {x}
  BY DEF Joins
<1>3. R \in SUBSET T /\ S \in SUBSET R /\ R \in SUBSET R /\ x \in R /\ R \ {x} = S
  BY <1>2
<1>4. IsFiniteSet(R) /\ IsFiniteSet(S)
  BY <1>3, FS_Subset
<1>5. e \in [T -> Nat] /\ e[x] = v
  BY <1>1
<1>6. SameLengths(f, e, S)
  BY <1>1 DEF SameLengths
<1>7. Lengths(f, S)
  BY DEF Lengths
<1>8. Lengths(e, R)
  BY <1>3, <1>5 DEF Lengths
<1>9. PICK g : g = (CHOOSE h : Sums(h, f, S)) /\ Sums(g, f, S)
  BY <1>4, <1>7, SumExists
<1>10. PICK h : h = (CHOOSE p : Sums(p, e, R)) /\ Sums(h, e, R)
  BY <1>4, <1>8, SumExists
<1>11. SumOf(f, S) = g[S] /\ SumOf(e, R) = h[R]
  BY <1>9, <1>10, SumUnfolds
<1>12. Sums(g, f, S) /\ Sums(h, e, R) /\ S \in SUBSET S
  BY <1>9, <1>10
<1>16. AgreeAt(g, h, S)
  BY <1>3, <1>4, <1>6, <1>12, SumsAgree
<1>13. g[S] = h[S]
  BY <1>16 DEF AgreeAt
<1>14. h[R] = v + h[S]
  <2>1. h[R] = e[x] + h[R \ {x}]
    BY <1>3, <1>4, <1>8, <1>12, SumWithout
  <2> QED
    BY <1>3, <1>5, <2>1
<1>15. \A s \in SUBSET S : g[s] \in Nat
  BY <1>4, <1>7, <1>9, SumIsNumber
<1> QED
  BY <1>1, <1>2, <1>11, <1>13, <1>14, <1>15

LEMMA SumOfNone == ASSUME NEW f PROVE SumOf(f, {}) = 0
<1>1. IsFiniteSet({}) /\ Lengths(f, {})
  BY FS_EmptySet DEF Lengths
<1>2. PICK g : g = (CHOOSE h : Sums(h, f, {})) /\ Sums(g, f, {})
  BY <1>1, SumExists
<1>3. g[{}] = 0
  BY <1>2 DEF Sums
<1> QED
  BY <1>2, <1>3, SumUnfolds

-----------------------------------------------------------------------------
(***************************************************************************)
(* The macros of lst.h as operators on a path.                             *)
(*                                                                         *)
(* A path of n nodes is a function s on 0..(n + 1), with null at both ends *)
(* and the nodes of the list between them, so that the links of s[i] are   *)
(* s[i - 1] and s[i + 1] and the header names s[1] and s[n] whatever n is. *)
(* Every macro that adds a node widens the path somewhere, LIST_REMOVE     *)
(* narrows it.  The loops over a list visit its path.                      *)
(***************************************************************************)
Link(S)  == [prev : S \cup {NoNode}, next : S \cup {NoNode}]
Links(S) == [S -> Link(S)]

(* The null before the first node and after the last, the nodes between.   *)
Path(s, n, S) ==
  /\ s \in [0..(n + 1) -> S \cup {NoNode}]
  /\ s[0] = NoNode /\ s[n + 1] = NoNode
  /\ \A i \in 1..n : s[i] \in S
  /\ \A i, j \in 1..n : s[i] = s[j] => i = j

(* The links in the nodes follow the path.                                 *)
Threaded(s, n, k) ==
  \A i \in 1..n : k[s[i]].prev = s[i - 1] /\ k[s[i]].next = s[i + 1]

HeaderOf(s, n) == [count |-> n, first |-> s[1], last |-> s[n]]

NodesOf(s, n) == {s[i] : i \in 1..n}

(* The header l and the links k are those of a list along the path s.      *)
Along(s, n, S, l, k) ==
  /\ Path(s, n, S)
  /\ Threaded(s, n, k)
  /\ l = HeaderOf(s, n)

(* w is s with y put behind its p-th node, or s without its p-th node.     *)
Widens(w, s, n, p, y) ==
  w = [i \in 0..(n + 2) |-> IF i <= p THEN s[i] ELSE IF i = p + 1 THEN y ELSE s[i - 1]]

Narrows(w, s, n, p) == w = [i \in 0..n |-> IF i < p THEN s[i] ELSE s[i + 1]]

-----------------------------------------------------------------------------
(* One field of one node changes, or none when the node is null.           *)
SetsPrev(m, k, x, v, S) ==
  /\ \A z \in S : m[z].prev = IF z = x THEN v ELSE k[z].prev
  /\ \A z \in S : m[z].next = k[z].next

SetsNext(m, k, x, v, S) ==
  /\ \A z \in S : m[z].prev = k[z].prev
  /\ \A z \in S : m[z].next = IF z = x THEN v ELSE k[z].next

SetsBoth(m, k, x, v, w, S) ==
  /\ \A z \in S : m[z].prev = IF z = x THEN v ELSE k[z].prev
  /\ \A z \in S : m[z].next = IF z = x THEN w ELSE k[z].next

LEMMA PrevSet ==
  ASSUME NEW S, NoNode \notin S, NEW k \in Links(S),
         NEW x \in S \cup {NoNode}, NEW v \in S \cup {NoNode},
         NEW m, m = SetPrev(k, x, v)
  PROVE  m \in Links(S) /\ SetsPrev(m, k, x, v, S)
BY DEF SetPrev, SetsPrev, Links, Link

LEMMA NextSet ==
  ASSUME NEW S, NoNode \notin S, NEW k \in Links(S),
         NEW x \in S \cup {NoNode}, NEW v \in S \cup {NoNode},
         NEW m, m = SetNext(k, x, v)
  PROVE  m \in Links(S) /\ SetsNext(m, k, x, v, S)
BY DEF SetNext, SetsNext, Links, Link

LEMMA NodeSet ==
  ASSUME NEW S, NEW k \in Links(S), NEW x \in S,
         NEW v \in S \cup {NoNode}, NEW w \in S \cup {NoNode},
         NEW m, m = [k EXCEPT ![x] = [prev |-> v, next |-> w]]
  PROVE  m \in Links(S) /\ SetsBoth(m, k, x, v, w, S)
BY DEF SetsBoth, Links, Link

-----------------------------------------------------------------------------
(* What a node is on a path that was widened or narrowed.                  *)
LEMMA WidenedPath ==
  ASSUME NEW S, NEW n \in Nat, NEW s, Path(s, n, S), NoNode \notin S,
         NEW p \in 0..n, NEW y \in S, y \notin NodesOf(s, n),
         NEW w, Widens(w, s, n, p, y)
  PROVE  Path(w, n + 1, S) /\ NodesOf(w, n + 1) = NodesOf(s, n) \cup {y}
<1>1. n + 1 \in Nat /\ p \in Nat /\ p <= n
  OBVIOUS
<1>2. \A i \in 0..(n + 2) : w[i] = IF i <= p THEN s[i] ELSE IF i = p + 1 THEN y ELSE s[i - 1]
  BY DEF Widens
<1>3. \A i \in 1..(n + 1) : /\ i <= p => i \in 1..n /\ w[i] = s[i]
                            /\ i = p + 1 => w[i] = y
                            /\ i > p + 1 => i - 1 \in 1..n /\ w[i] = s[i - 1]
  BY <1>1, <1>2
<1>4. w[0] = NoNode /\ w[n + 2] = NoNode /\ (n + 1) + 1 = n + 2
  BY <1>1, <1>2 DEF Path
<1>5. w \in [0..(n + 2) -> S \cup {NoNode}]
  BY <1>1 DEF Widens, Path
<1>6. \A i \in 1..(n + 1) : w[i] \in S
  BY <1>1, <1>3 DEF Path
<1>7. \A i \in 1..n : s[i] # y
  BY DEF NodesOf
<1>8. ASSUME NEW i \in 1..(n + 1), NEW j \in 1..(n + 1), w[i] = w[j] PROVE i = j
  <2>1. CASE i = p + 1 \/ j = p + 1
    <3>1. \A h \in 1..(n + 1) : h # p + 1 => w[h] # y
      BY <1>1, <1>3, <1>7
    <3> QED
      BY <1>1, <1>3, <1>8, <2>1, <3>1
  <2>2. CASE i # p + 1 /\ j # p + 1
    <3>1. PICK a \in 1..n : w[i] = s[a] /\ i = IF a <= p THEN a ELSE a + 1
      BY <1>1, <1>3, <2>2
    <3>2. PICK b \in 1..n : w[j] = s[b] /\ j = IF b <= p THEN b ELSE b + 1
      BY <1>1, <1>3, <2>2
    <3>3. a = b
      BY <1>8, <3>1, <3>2 DEF Path
    <3> QED
      BY <3>1, <3>2, <3>3
  <2> QED
    BY <2>1, <2>2
<1>9. NodesOf(w, n + 1) \subseteq NodesOf(s, n) \cup {y}
  BY <1>1, <1>3 DEF NodesOf
<1>10. y \in NodesOf(w, n + 1)
  BY <1>1, <1>3 DEF NodesOf
<1>11. ASSUME NEW i \in 1..n PROVE s[i] \in NodesOf(w, n + 1)
  <2>1. CASE i <= p
    BY <1>1, <1>3, <2>1 DEF NodesOf
  <2>2. CASE i > p
    <3>1. i + 1 \in 1..(n + 1) /\ (i + 1) - 1 = i /\ i + 1 > p + 1
      BY <1>1, <2>2
    <3> QED
      BY <1>3, <3>1 DEF NodesOf
  <2> QED
    BY <1>1, <2>1, <2>2
<1>12. NodesOf(w, n + 1) = NodesOf(s, n) \cup {y}
  BY <1>9, <1>10, <1>11 DEF NodesOf
<1> QED
  BY <1>1, <1>4, <1>5, <1>6, <1>8, <1>12 DEF Path

LEMMA WidenedThreads ==
  ASSUME NEW S, NEW n \in Nat, NEW s, Path(s, n, S), NoNode \notin S,
         NEW p \in 0..n, NEW y \in S, y \notin NodesOf(s, n),
         NEW w, Widens(w, s, n, p, y),
         NEW k, Threaded(s, n, k), NEW m,
         m[y].prev = s[p], m[y].next = s[p + 1],
         \A z \in NodesOf(s, n) :
           /\ m[z].prev = IF z = s[p + 1] THEN y ELSE k[z].prev
           /\ m[z].next = IF z = s[p] THEN y ELSE k[z].next
  PROVE  Threaded(w, n + 1, m)
<1>1. p \in Nat /\ p <= n
  OBVIOUS
<1>2. \A i \in 0..(n + 2) : w[i] = IF i <= p THEN s[i] ELSE IF i = p + 1 THEN y ELSE s[i - 1]
  BY DEF Widens
<1>3. \A i \in 0..(n + 1) : /\ i <= p => w[i] = s[i]
                            /\ i > p => w[i + 1] = s[i]
  BY <1>1, <1>2
<1>4. w[p + 1] = y
  BY <1>1, <1>2
<1>5. \A i \in 1..n, j \in 0..(n + 1) : s[i] = s[j] => i = j
  BY <1>1 DEF Path
<1>6. \A i \in 1..n : /\ m[s[i]].prev = IF i = p + 1 THEN y ELSE s[i - 1]
                      /\ m[s[i]].next = IF i = p THEN y ELSE s[i + 1]
  BY <1>1, <1>5 DEF NodesOf, Threaded
<1>7. ASSUME NEW i \in 1..(n + 1)
      PROVE  m[w[i]].prev = w[i - 1] /\ m[w[i]].next = w[i + 1]
  <2>1. CASE i <= p
    <3>1. i \in 1..n /\ i - 1 \in 0..(n + 1) /\ i - 1 <= p /\ i # p + 1
      BY <1>1, <2>1
    <3>2. w[i] = s[i] /\ w[i - 1] = s[i - 1]
      BY <1>3, <2>1, <3>1
    <3>3. w[i + 1] = IF i = p THEN y ELSE s[i + 1]
      BY <1>1, <1>3, <1>4, <2>1, <3>1
    <3> QED
      BY <1>6, <3>1, <3>2, <3>3
  <2>2. CASE i = p + 1
    <3>1. w[i - 1] = s[p] /\ w[i + 1] = s[p + 1]
      BY <1>1, <1>3, <2>2
    <3> QED
      BY <1>4, <2>2, <3>1
  <2>3. CASE i > p + 1
    <3>1. i - 1 \in 1..n /\ i - 2 \in 0..n /\ i - 1 # p
      BY <1>1, <2>3
    <3>2. w[i] = s[i - 1] /\ w[i + 1] = s[i]
      BY <1>1, <1>3, <2>3, <3>1
    <3>3. w[i - 1] = IF i - 1 = p + 1 THEN y ELSE s[i - 2]
      BY <1>1, <1>3, <1>4, <2>3, <3>1
    <3> QED
      BY <1>1, <1>6, <3>1, <3>2, <3>3
  <2> QED
    BY <1>1, <2>1, <2>2, <2>3
<1> QED
  BY <1>7 DEF Threaded

(* The path without its p-th node.                                         *)
LEMMA NarrowedPath ==
  ASSUME NEW S, NEW n \in Nat, NEW s, Path(s, n, S), NoNode \notin S,
         NEW p \in 1..n, NEW w, Narrows(w, s, n, p)
  PROVE  Path(w, n - 1, S) /\ NodesOf(w, n - 1) = NodesOf(s, n) \ {s[p]}
<1>1. n \in Nat \ {0} /\ n - 1 \in Nat /\ p \in Nat \ {0} /\ p <= n /\ (n - 1) + 1 = n
  OBVIOUS
<1>2. \A i \in 0..n : w[i] = IF i < p THEN s[i] ELSE s[i + 1]
  BY DEF Narrows
<1>3. \A i \in 1..(n - 1) : /\ i < p => i \in 1..n /\ w[i] = s[i]
                            /\ i >= p => i + 1 \in 1..n /\ w[i] = s[i + 1]
  BY <1>1, <1>2
<1>4. w[0] = NoNode /\ w[n] = NoNode
  BY <1>1, <1>2 DEF Path
<1>5. w \in [0..n -> S \cup {NoNode}]
  BY <1>1 DEF Narrows, Path
<1>6. \A i \in 1..(n - 1) : w[i] \in S
  BY <1>1, <1>3 DEF Path
<1>7. \A i, j \in 1..(n - 1) : w[i] = w[j] => i = j
  BY <1>1, <1>3 DEF Path
<1>8. \A i \in 1..(n - 1) : w[i] \in NodesOf(s, n) \ {s[p]}
  BY <1>1, <1>3 DEF NodesOf, Path
<1>9. ASSUME NEW i \in 1..n, i # p PROVE s[i] \in NodesOf(w, n - 1)
  <2>1. CASE i < p
    <3>1. i \in 1..(n - 1) /\ w[i] = s[i]
      BY <1>1, <1>3, <2>1
    <3> QED
      BY <3>1 DEF NodesOf
  <2>2. CASE i > p
    <3>1. i - 1 \in 1..(n - 1) /\ (i - 1) + 1 = i /\ i - 1 >= p
      BY <1>1, <2>2
    <3>2. w[i - 1] = s[i]
      BY <1>3, <3>1
    <3> QED
      BY <3>1, <3>2 DEF NodesOf
  <2> QED
    BY <1>1, <1>9, <2>1, <2>2
<1>10. NodesOf(w, n - 1) = NodesOf(s, n) \ {s[p]}
  BY <1>8, <1>9 DEF NodesOf
<1> QED
  BY <1>1, <1>4, <1>5, <1>6, <1>7, <1>10 DEF Path

LEMMA NarrowedThreads ==
  ASSUME NEW S, NEW n \in Nat, NEW s, Path(s, n, S), NoNode \notin S,
         NEW p \in 1..n, NEW w, Narrows(w, s, n, p),
         NEW k, Threaded(s, n, k), NEW m,
         \A z \in NodesOf(s, n) \ {s[p]} :
           /\ m[z].prev = IF z = s[p + 1] THEN s[p - 1] ELSE k[z].prev
           /\ m[z].next = IF z = s[p - 1] THEN s[p + 1] ELSE k[z].next
  PROVE  Threaded(w, n - 1, m)
<1>1. n \in Nat \ {0} /\ n - 1 \in Nat /\ p \in Nat \ {0} /\ p <= n
  OBVIOUS
<1>2. \A i \in 0..n : w[i] = IF i < p THEN s[i] ELSE s[i + 1]
  BY DEF Narrows
<1>3. \A i \in 1..n, j \in 0..(n + 1) : s[i] = s[j] => i = j
  BY <1>1 DEF Path
<1>4. \A i \in 1..n :
        i # p => /\ m[s[i]].prev = IF i = p + 1 THEN s[p - 1] ELSE s[i - 1]
                 /\ m[s[i]].next = IF i = p - 1 THEN s[p + 1] ELSE s[i + 1]
  <2> SUFFICES ASSUME NEW i \in 1..n, i # p
               PROVE  /\ m[s[i]].prev = IF i = p + 1 THEN s[p - 1] ELSE s[i - 1]
                      /\ m[s[i]].next = IF i = p - 1 THEN s[p + 1] ELSE s[i + 1]
    OBVIOUS
  <2>1. s[i] \in NodesOf(s, n) \ {s[p]}
    BY <1>3 DEF NodesOf
  <2>2. (s[i] = s[p + 1] <=> i = p + 1) /\ (s[i] = s[p - 1] <=> i = p - 1)
    BY <1>1, <1>3
  <2> QED
    BY <2>1, <2>2 DEF Threaded
<1>5. ASSUME NEW i \in 1..(n - 1)
      PROVE  m[w[i]].prev = w[i - 1] /\ m[w[i]].next = w[i + 1]
  <2>1. CASE i < p
    <3>1. i \in 1..n /\ i # p /\ i # p + 1 /\ i - 1 < p
      BY <1>1, <2>1
    <3>2. w[i] = s[i] /\ w[i - 1] = s[i - 1]
      BY <1>1, <1>2, <2>1
    <3>3. w[i + 1] = IF i = p - 1 THEN s[p + 1] ELSE s[i + 1]
      BY <1>1, <1>2, <2>1
    <3> QED
      BY <1>4, <3>1, <3>2, <3>3
  <2>2. CASE i >= p
    <3>1. i + 1 \in 1..n /\ i + 1 # p /\ i + 1 # p - 1 /\ (i + 1) - 1 = i
      BY <1>1, <2>2
    <3>2. w[i] = s[i + 1] /\ w[i + 1] = s[(i + 1) + 1]
      BY <1>1, <1>2, <2>2
    <3>3. w[i - 1] = IF i + 1 = p + 1 THEN s[p - 1] ELSE s[i]
      BY <1>1, <1>2, <2>2
    <3> QED
      BY <1>4, <3>1, <3>2, <3>3
  <2> QED
    BY <1>1, <2>1, <2>2
<1> QED
  BY <1>5 DEF Threaded

-----------------------------------------------------------------------------
(* The header in which a node was put behind the p-th.                     *)
LEMMA WidenedHeader ==
  ASSUME NEW S, NEW n \in Nat, NEW s, Path(s, n, S),
         NEW p \in 0..n, NEW y, NEW w, Widens(w, s, n, p, y)
  PROVE  HeaderOf(w, n + 1) = [count |-> n + 1,
                               first |-> IF p = 0 THEN y ELSE s[1],
                               last  |-> IF p = n THEN y ELSE s[n]]
<1>1. w[1] = IF p = 0 THEN y ELSE s[1]
  BY DEF Widens
<1>2. w[n + 1] = IF p = n THEN y ELSE s[n]
  BY DEF Widens
<1> QED
  BY <1>1, <1>2 DEF HeaderOf

LEMMA NarrowedHeader ==
  ASSUME NEW S, NEW n \in Nat, NEW s, Path(s, n, S),
         NEW p \in 1..n, NEW w, Narrows(w, s, n, p)
  PROVE  HeaderOf(w, n - 1) = [count |-> n - 1,
                               first |-> IF p = 1 THEN s[2] ELSE s[1],
                               last  |-> IF p = n THEN s[n - 1] ELSE s[n]]
<1>1. n >= 1 /\ 1 \in 0..n /\ n - 1 \in 0..n
  OBVIOUS
<1>2. w[1] = IF p = 1 THEN s[2] ELSE s[1]
  BY <1>1 DEF Narrows
<1>3. w[n - 1] = IF p = n THEN s[n - 1] ELSE s[n]
  BY <1>1 DEF Narrows
<1> QED
  BY <1>2, <1>3 DEF HeaderOf

-----------------------------------------------------------------------------
(* LIST_ADD_FIRST, LIST_ADD_LAST, LIST_INSERT_AFTER and LIST_REMOVE.       *)
LEMMA AddFirstWidens ==
  ASSUME NEW S, NoNode \notin S, NEW n \in Nat, NEW s, NEW l, NEW k \in Links(S),
         Along(s, n, S, l, k), NEW y \in S, y \notin NodesOf(s, n),
         NEW w, Widens(w, s, n, 0, y), NEW r, r = ListAddFirst(l, k, y)
  PROVE  r.links \in Links(S) /\ Along(w, n + 1, S, r.list, r.links)
<1>1. /\ Path(s, n, S) /\ Threaded(s, n, k) /\ 0 \in 0..n
      /\ l.count = n /\ l.first = s[1] /\ l.last = s[n]
  BY DEF Along, HeaderOf
<1>2. /\ s[0] = NoNode /\ s[1] \in S \cup {NoNode} /\ s[n] \in S \cup {NoNode}
      /\ n > 0 => s[1] # NoNode /\ s[n] # NoNode
      /\ n = 0 => s[1] = NoNode
  BY <1>1 DEF Path
<1>3. PICK j : j = [k EXCEPT ![y] = [prev |-> NoNode, next |-> s[1]]]
  OBVIOUS
<1>4. j \in Links(S) /\ SetsBoth(j, k, y, NoNode, s[1], S)
  BY <1>2, <1>3, NodeSet
<1>5. r.links = SetPrev(j, s[1], y)
  BY <1>1, <1>3 DEF ListAddFirst
<1>6. r.links \in Links(S) /\ SetsPrev(r.links, j, s[1], y, S)
  BY <1>2, <1>4, <1>5, PrevSet
<1>7. \A z \in NodesOf(s, n) : z \in S /\ z # y /\ z # s[0]
  BY <1>1, <1>2 DEF NodesOf, Path
<1>8. y # s[1]
  BY <1>2 DEF NodesOf
<1>9. Threaded(w, n + 1, r.links)
  <2>1. r.links[y].prev = s[0] /\ r.links[y].next = s[0 + 1]
    BY <1>2, <1>4, <1>6, <1>8 DEF SetsPrev, SetsNext, SetsBoth
  <2>2. \A z \in NodesOf(s, n) :
          /\ r.links[z].prev = IF z = s[0 + 1] THEN y ELSE k[z].prev
          /\ r.links[z].next = IF z = s[0] THEN y ELSE k[z].next
    BY <1>4, <1>6, <1>7 DEF SetsPrev, SetsNext, SetsBoth
  <2> QED
    BY <1>1, <2>1, <2>2, WidenedThreads
<1>10. r.list = HeaderOf(w, n + 1)
  <2>1. r.list = [count |-> n + 1, first |-> y, last |-> Or(s[n], y)]
    BY <1>1 DEF ListAddFirst
  <2>2. Or(s[n], y) = IF 0 = n THEN y ELSE s[n]
    BY <1>2 DEF Or
  <2>3. HeaderOf(w, n + 1) = [count |-> n + 1,
                              first |-> IF 0 = 0 THEN y ELSE s[1],
                              last  |-> IF 0 = n THEN y ELSE s[n]]
    BY <1>1, WidenedHeader
  <2> QED
    BY <2>1, <2>2, <2>3
<1>11. Path(w, n + 1, S)
  BY <1>1, WidenedPath
<1> QED
  BY <1>6, <1>9, <1>10, <1>11 DEF Along

LEMMA AddLastWidens ==
  ASSUME NEW S, NoNode \notin S, NEW n \in Nat, NEW s, NEW l, NEW k \in Links(S),
         Along(s, n, S, l, k), NEW y \in S, y \notin NodesOf(s, n),
         NEW w, Widens(w, s, n, n, y), NEW r, r = ListAddLast(l, k, y)
  PROVE  r.links \in Links(S) /\ Along(w, n + 1, S, r.list, r.links)
<1>1. /\ Path(s, n, S) /\ Threaded(s, n, k) /\ n \in 0..n
      /\ l.count = n /\ l.first = s[1] /\ l.last = s[n]
  BY DEF Along, HeaderOf
<1>2. /\ s[n + 1] = NoNode /\ s[1] \in S \cup {NoNode} /\ s[n] \in S \cup {NoNode}
      /\ n > 0 => s[1] # NoNode /\ s[n] # NoNode
      /\ n = 0 => s[1] = NoNode /\ s[n] = NoNode
  BY <1>1 DEF Path
<1>3. PICK j, a : a = s[n] /\ j = [k EXCEPT ![y] = [prev |-> a, next |-> NoNode]]
  OBVIOUS
<1>a. a \in S \cup {NoNode}
  BY <1>2, <1>3
<1>4. j \in Links(S) /\ SetsBoth(j, k, y, a, NoNode, S)
  BY <1>3, <1>a, NodeSet
<1>5. r.links = SetNext(j, a, y)
  BY <1>1, <1>3 DEF ListAddLast
<1>6. r.links \in Links(S) /\ SetsNext(r.links, j, a, y, S)
  BY <1>4, <1>5, <1>a, NextSet
<1>7. \A z \in NodesOf(s, n) : z \in S /\ z # y /\ z # s[n + 1]
  BY <1>1, <1>2 DEF NodesOf, Path
<1>8. y # s[n]
  BY <1>2 DEF NodesOf
<1>9. Threaded(w, n + 1, r.links)
  <2>1. r.links[y].prev = s[n] /\ r.links[y].next = s[n + 1]
    BY <1>2, <1>3, <1>4, <1>6, <1>8 DEF SetsPrev, SetsNext, SetsBoth
  <2>2. \A z \in NodesOf(s, n) :
          /\ r.links[z].prev = IF z = s[n + 1] THEN y ELSE k[z].prev
          /\ r.links[z].next = IF z = s[n] THEN y ELSE k[z].next
    BY <1>3, <1>4, <1>6, <1>7 DEF SetsPrev, SetsNext, SetsBoth
  <2> QED
    BY <1>1, <2>1, <2>2, WidenedThreads
<1>10. r.list = HeaderOf(w, n + 1)
  <2>1. r.list = [count |-> n + 1, first |-> Or(s[1], y), last |-> y]
    BY <1>1 DEF ListAddLast
  <2>2. Or(s[1], y) = IF n = 0 THEN y ELSE s[1]
    BY <1>2 DEF Or
  <2>3. HeaderOf(w, n + 1) = [count |-> n + 1,
                              first |-> IF n = 0 THEN y ELSE s[1],
                              last  |-> IF n = n THEN y ELSE s[n]]
    BY <1>1, WidenedHeader
  <2> QED
    BY <2>1, <2>2, <2>3
<1>11. Path(w, n + 1, S)
  BY <1>1, WidenedPath
<1> QED
  BY <1>6, <1>9, <1>10, <1>11 DEF Along

LEMMA InsertAfterWidens ==
  ASSUME NEW S, NoNode \notin S, NEW n \in Nat, NEW s, NEW l, NEW k \in Links(S),
         Along(s, n, S, l, k), NEW p \in 1..n, NEW y \in S, y \notin NodesOf(s, n),
         NEW w, Widens(w, s, n, p, y), NEW r, r = ListInsertAfter(l, k, s[p], y)
  PROVE  r.links \in Links(S) /\ Along(w, n + 1, S, r.list, r.links)
<1>1. /\ Path(s, n, S) /\ Threaded(s, n, k) /\ p \in 0..n /\ p # 0
      /\ l = [count |-> n, first |-> s[1], last |-> s[n]]
      /\ k[s[p]].next = s[p + 1]
  BY DEF Along, HeaderOf, Threaded
<1>2. /\ s[p] \in S /\ s[p + 1] \in S \cup {NoNode}
      /\ s[p + 1] = NoNode <=> p = n
  BY <1>1 DEF Path
<1>3. PICK a, b : a = s[p] /\ b = s[p + 1]
  OBVIOUS
<1>a. a \in S /\ a \in S \cup {NoNode} /\ b \in S \cup {NoNode}
  BY <1>2, <1>3
<1>b. PICK j : j = [k EXCEPT ![y] = [prev |-> a, next |-> b]]
  OBVIOUS
<1>4. j \in Links(S) /\ SetsBoth(j, k, y, a, b, S)
  BY <1>a, <1>b, NodeSet
<1>5. PICK i : i = SetPrev(j, b, y)
  OBVIOUS
<1>6. i \in Links(S) /\ SetsPrev(i, j, b, y, S)
  BY <1>4, <1>5, <1>a, PrevSet
<1>7. r.links = SetNext(i, a, y)
  BY <1>1, <1>3, <1>5, <1>b DEF ListInsertAfter
<1>8. r.links \in Links(S) /\ SetsNext(r.links, i, a, y, S)
  BY <1>6, <1>7, <1>a, NextSet
<1>9. \A z \in NodesOf(s, n) : z \in S /\ z # y
  BY <1>1, <1>2 DEF NodesOf, Path
<1>10. y # s[p] /\ y # s[p + 1]
  <2>1. p + 1 \in 1..n \/ p = n
    OBVIOUS
  <2> QED
    BY <1>2, <2>1 DEF NodesOf
<1>11. Threaded(w, n + 1, r.links)
  <2>1. r.links[y].prev = s[p] /\ r.links[y].next = s[p + 1]
    BY <1>3, <1>4, <1>6, <1>8, <1>10 DEF SetsPrev, SetsNext, SetsBoth
  <2>2. \A z \in NodesOf(s, n) :
          /\ r.links[z].prev = IF z = s[p + 1] THEN y ELSE k[z].prev
          /\ r.links[z].next = IF z = s[p] THEN y ELSE k[z].next
    BY <1>3, <1>4, <1>6, <1>8, <1>9 DEF SetsPrev, SetsNext, SetsBoth
  <2> QED
    BY <1>1, <2>1, <2>2, WidenedThreads
<1>12. r.list = HeaderOf(w, n + 1)
  <2>1. r.list = [count |-> n + 1, first |-> s[1],
                  last |-> IF s[p + 1] = NoNode THEN y ELSE s[n]]
    BY <1>1 DEF ListInsertAfter
  <2>2. HeaderOf(w, n + 1) = [count |-> n + 1,
                              first |-> IF p = 0 THEN y ELSE s[1],
                              last  |-> IF p = n THEN y ELSE s[n]]
    BY <1>1, WidenedHeader
  <2> QED
    BY <1>1, <1>2, <2>1, <2>2
<1>13. Path(w, n + 1, S)
  BY <1>1, WidenedPath
<1> QED
  BY <1>8, <1>11, <1>12, <1>13 DEF Along

LEMMA RemoveNarrows ==
  ASSUME NEW S, NoNode \notin S, NEW n \in Nat, NEW s, NEW l, NEW k \in Links(S),
         Along(s, n, S, l, k), NEW p \in 1..n,
         NEW w, Narrows(w, s, n, p), NEW r, r = ListRemove(l, k, s[p])
  PROVE  r.links \in Links(S) /\ Along(w, n - 1, S, r.list, r.links)
<1>1. /\ Path(s, n, S) /\ Threaded(s, n, k)
      /\ l.count = n /\ l.first = s[1] /\ l.last = s[n]
      /\ k[s[p]].prev = s[p - 1] /\ k[s[p]].next = s[p + 1]
  BY DEF Along, HeaderOf, Threaded
<1>2. /\ s[p] \in S /\ s[p + 1] \in S \cup {NoNode} /\ s[p - 1] \in S \cup {NoNode}
      /\ s[p + 1] = NoNode <=> p = n
      /\ s[p - 1] = NoNode <=> p = 1
  BY <1>1 DEF Path
<1>3. PICK a, b, c : a = s[p - 1] /\ b = s[p + 1] /\ c = s[p]
  OBVIOUS
<1>a. a \in S \cup {NoNode} /\ b \in S \cup {NoNode} /\ c \in S
  BY <1>2, <1>3
<1>b. PICK j : j = SetPrev(k, b, a)
  OBVIOUS
<1>4. j \in Links(S) /\ SetsPrev(j, k, b, a, S)
  BY <1>a, <1>b, PrevSet
<1>5. PICK i : i = SetNext(j, a, b)
  OBVIOUS
<1>6. i \in Links(S) /\ SetsNext(i, j, a, b, S)
  BY <1>4, <1>5, <1>a, NextSet
<1>7. r.links = [i EXCEPT ![c] = [prev |-> NoNode, next |-> NoNode]]
  BY <1>1, <1>3, <1>5, <1>b DEF ListRemove, Detached
<1>8. r.links \in Links(S) /\ SetsBoth(r.links, i, c, NoNode, NoNode, S)
  BY <1>6, <1>7, <1>a, NodeSet
<1>9. Threaded(w, n - 1, r.links)
  <2>1. \A z \in NodesOf(s, n) : z \in S
    BY <1>1 DEF NodesOf, Path
  <2>2. \A z \in NodesOf(s, n) \ {s[p]} :
          /\ r.links[z].prev = IF z = s[p + 1] THEN s[p - 1] ELSE k[z].prev
          /\ r.links[z].next = IF z = s[p - 1] THEN s[p + 1] ELSE k[z].next
    BY <1>3, <1>4, <1>6, <1>8, <2>1 DEF SetsPrev, SetsNext, SetsBoth
  <2> QED
    BY <1>1, <2>2, NarrowedThreads
<1>10. r.list = HeaderOf(w, n - 1)
  <2>1. r.list = [count |-> n - 1,
                  first |-> IF s[p - 1] = NoNode THEN s[p + 1] ELSE s[1],
                  last |-> IF s[p + 1] = NoNode THEN s[p - 1] ELSE s[n]]
    BY <1>1 DEF ListRemove
  <2>2. HeaderOf(w, n - 1) = [count |-> n - 1,
                              first |-> IF p = 1 THEN s[2] ELSE s[1],
                              last  |-> IF p = n THEN s[n - 1] ELSE s[n]]
    BY <1>1, NarrowedHeader
  <2> QED
    BY <1>2, <2>1, <2>2
<1>11. Path(w, n - 1, S)
  BY <1>1, NarrowedPath
<1> QED
  BY <1>8, <1>9, <1>10, <1>11 DEF Along

-----------------------------------------------------------------------------
(* LIST_FOREACH visits the nodes of the path in their order.  The recursive*)
(* function is chosen among those that satisfy its equation: the path does,*)
(* and by induction over the position no other function does.              *)
LEMMA VisitedIsPath ==
  ASSUME NEW S, NEW n \in Nat, NEW s, NEW l, NEW k, Along(s, n, S, l, k)
  PROVE  Visited(l, k) = [i \in 1..n |-> s[i]]
<1>1. Path(s, n, S) /\ Threaded(s, n, k) /\ l.count = n /\ l.first = s[1]
  BY DEF Along, HeaderOf
<1> DEFINE Walks(f) == f = [i \in 1..n |-> IF i = 1 THEN s[1] ELSE k[f[i - 1]].next]
<1>2. PICK g : g = [i \in 1..n |-> s[i]]
  OBVIOUS
<1>3. Walks(g)
  <2>1. \A i \in 1..n : i # 1 => k[s[i - 1]].next = s[i] /\ i - 1 \in 1..n
    <3> SUFFICES ASSUME NEW i \in 1..n, i # 1
                 PROVE  k[s[i - 1]].next = s[i] /\ i - 1 \in 1..n
      OBVIOUS
    <3>1. i - 1 \in 1..n /\ (i - 1) + 1 = i
      OBVIOUS
    <3> QED
      BY <1>1, <3>1 DEF Threaded
  <2>2. \A i \in 1..n : s[i] = IF i = 1 THEN s[1] ELSE k[g[i - 1]].next
    BY <1>2, <2>1
  <2> QED
    BY <1>2, <2>2
<1>4. Visited(l, k) = CHOOSE f : Walks(f)
  BY <1>1 DEF Visited
<1>5. Walks(Visited(l, k))
  BY <1>3, <1>4
<1>6. PICK f : f = Visited(l, k)
  OBVIOUS
<1>7. f = [i \in 1..n |-> IF i = 1 THEN s[1] ELSE k[f[i - 1]].next]
  BY <1>5, <1>6
<1>8. \A i \in 1..n : f[i] = IF i = 1 THEN s[1] ELSE k[f[i - 1]].next
  BY <1>7
<1> DEFINE U == {m \in Nat : m \in 1..n => f[m] = s[m]}
<1>9. \A m \in Nat : m \in U => m + 1 \in U
  <2> SUFFICES ASSUME NEW m \in Nat, m \in 1..n => f[m] = s[m], m + 1 \in 1..n
               PROVE  f[m + 1] = s[m + 1]
    OBVIOUS
  <2>1. CASE m = 0
    BY <1>8, <2>1
  <2>2. CASE m \in 1..n
    <3>1. f[m + 1] = k[f[m]].next
      BY <1>8, <2>2
    <3> QED
      BY <1>1, <2>2, <3>1 DEF Threaded
  <2> QED
    BY <2>1, <2>2
<1>10. \A m \in Nat : m \in U
  <2>1. 0 \in U
    OBVIOUS
  <2> HIDE DEF U
  <2> QED
    BY <1>9, <2>1, AllNaturals
<1>11. \A i \in 1..n : f[i] = s[i]
  BY <1>10
<1> QED
  BY <1>6, <1>7, <1>11

(* The loop from the last node along prev visits them in reverse.          *)
LEMMA VisitedBackwardsIsPath ==
  ASSUME NEW S, NEW n \in Nat, NEW s, NEW l, NEW k, Along(s, n, S, l, k)
  PROVE  VisitedBackwards(l, k) = [i \in 1..n |-> s[n + 1 - i]]
<1>1. Path(s, n, S) /\ Threaded(s, n, k) /\ l.count = n /\ l.last = s[n]
  BY DEF Along, HeaderOf
<1> DEFINE Walks(f) == f = [i \in 1..n |-> IF i = 1 THEN s[n] ELSE k[f[i - 1]].prev]
<1>2. PICK g : g = [i \in 1..n |-> s[n + 1 - i]]
  OBVIOUS
<1>3. Walks(g)
  <2>1. ASSUME NEW i \in 1..n, i # 1
        PROVE  i - 1 \in 1..n /\ k[s[n + 1 - (i - 1)]].prev = s[n + 1 - i]
    <3>1. i - 1 \in 1..n /\ n + 1 - (i - 1) \in 1..n /\ (n + 1 - (i - 1)) - 1 = n + 1 - i
      BY <2>1
    <3> QED
      BY <1>1, <3>1 DEF Threaded
  <2>2. \A i \in 1..n : s[n + 1 - i] = IF i = 1 THEN s[n] ELSE k[g[i - 1]].prev
    BY <1>2, <2>1
  <2> QED
    BY <1>2, <2>2
<1>4. VisitedBackwards(l, k) = CHOOSE f : Walks(f)
  BY <1>1 DEF VisitedBackwards
<1>5. Walks(VisitedBackwards(l, k))
  BY <1>3, <1>4
<1>6. PICK f : f = VisitedBackwards(l, k)
  OBVIOUS
<1>7. f = [i \in 1..n |-> IF i = 1 THEN s[n] ELSE k[f[i - 1]].prev]
  BY <1>5, <1>6
<1>8. \A i \in 1..n : f[i] = IF i = 1 THEN s[n] ELSE k[f[i - 1]].prev
  BY <1>7
<1> DEFINE U == {m \in Nat : m \in 1..n => f[m] = s[n + 1 - m]}
<1>9. \A m \in Nat : m \in U => m + 1 \in U
  <2> SUFFICES ASSUME NEW m \in Nat, m \in 1..n => f[m] = s[n + 1 - m], m + 1 \in 1..n
               PROVE  f[m + 1] = s[n + 1 - (m + 1)]
    OBVIOUS
  <2>1. CASE m = 0
    BY <1>8, <2>1
  <2>2. CASE m \in 1..n
    <3>1. f[m + 1] = k[f[m]].prev
      BY <1>8, <2>2
    <3>2. n + 1 - m \in 1..n /\ (n + 1 - m) - 1 = n + 1 - (m + 1)
      BY <2>2
    <3> QED
      BY <1>1, <2>2, <3>1, <3>2 DEF Threaded
  <2> QED
    BY <2>1, <2>2
<1>10. \A m \in Nat : m \in U
  <2>1. 0 \in U
    OBVIOUS
  <2> HIDE DEF U
  <2> QED
    BY <1>9, <2>1, AllNaturals
<1>11. \A i \in 1..n : f[i] = s[n + 1 - i]
  BY <1>10
<1> QED
  BY <1>6, <1>7, <1>11

(* A path of n nodes has n nodes in it.                                    *)
LEMMA NodesCounted ==
  ASSUME NEW S, NEW n \in Nat, NEW s, Path(s, n, S)
  PROVE  IsFiniteSet(NodesOf(s, n)) /\ Cardinality(NodesOf(s, n)) = n
<1>1. IsFiniteSet(1..n) /\ Cardinality(1..n) = n
  <2>1. n - 1 + 1 = n /\ 1 \in Int /\ n \in Int
    OBVIOUS
  <2>2. IsFiniteSet(1..n) /\ Cardinality(1..n) = IF 1 > n THEN 0 ELSE n - 1 + 1
    BY <2>1, FS_Interval
  <2> QED
    BY <2>1, <2>2
<1>2. PICK f : f = [i \in 1..n |-> s[i]]
  OBVIOUS
<1>3. f \in Bijection(1..n, NodesOf(s, n))
  <2>1. f \in [1..n -> NodesOf(s, n)]
    BY <1>2 DEF NodesOf
  <2>2. \A i, j \in 1..n : f[i] = f[j] => i = j
    BY <1>2 DEF Path
  <2>3. \A z \in NodesOf(s, n) : \E i \in 1..n : f[i] = z
    BY <1>2 DEF NodesOf
  <2> QED
    BY <2>1, <2>2, <2>3 DEF Bijection, Injection, Surjection, IsInjective
<1> QED
  BY <1>1, <1>3, FS_Bijection DEF ExistsBijection
=============================================================================
