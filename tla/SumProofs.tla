----------------------------- MODULE SumProofs -----------------------------
(***************************************************************************)
(* Lemmas other proofs rest on.  Induction over the numbers in a set: the  *)
(* library's theorem takes an operator.  And sums: the library's folds     *)
(* take the elements of a set in an order of their own; with + every order *)
(* comes to the same, so that an element may be taken out of a sum         *)
(* wherever it stands.                                                     *)
(***************************************************************************)
EXTENDS Integers, FiniteSets, Functions, FiniteSetTheorems, WellFoundedInduction, TLAPS

(* A set of numbers that is not empty has a least element. *)
LEMMA LeastNatural == ASSUME NEW T, T \subseteq Nat, T # {}
                      PROVE  \E x \in T : \A y \in T : x <= y
<1> DEFINE R == {ss \in Nat \X Nat : ss[1] < ss[2]}
<1>1. R = OpToRel(<, Nat)
  BY Zenon DEF OpToRel
<1>2. IsWellFoundedOn(R, Nat)
  BY <1>1, NatLessThanWellFounded, Zenon
<1>3. PICK x \in T : \A y \in T : ~(<<y, x>> \in R)
  BY <1>2, WFMin
<1>4. \A y \in T : ~(y < x)
  BY <1>3
<1>5. QED
  BY <1>4

(* Induction, for a set of numbers. *)
LEMMA SetInduction ==
    ASSUME NEW P, 0 \in P, \A n \in Nat : n \in P => n + 1 \in P
    PROVE  \A n \in Nat : n \in P
<1>. SUFFICES ASSUME NEW m \in Nat, m \notin P
              PROVE  FALSE
  OBVIOUS
<1>. DEFINE T == {n \in Nat : n \notin P}
<1>1. PICK x \in T : \A y \in T : x <= y
  <2>1. T \subseteq Nat /\ T # {}
    OBVIOUS
  <2>. QED
    BY <2>1, LeastNatural
<1>2. x \in Nat \ {0} /\ x - 1 \in Nat /\ x - 1 + 1 = x
  OBVIOUS
<1>3. x - 1 \in P
  BY <1>1, <1>2
<1>. QED
  BY <1>2, <1>3

(* What SumFunction(f) is on a part of the domain of f. *)
Total(f, X) == SumFunctionOnSet(f, X)

(* The recursion of the fold. *)
Chosen(s) == CHOOSE x \in s : TRUE
Fold(it, f, s) == IF s = {} THEN 0 ELSE f[Chosen(s)] + it[s \ {Chosen(s)}]
IsFold(it, f, X) == it = [s \in SUBSET X |-> Fold(it, f, s)]

LEMMA ChosenIn == ASSUME NEW s, s # {} PROVE Chosen(s) \in s
BY DEF Chosen

(* There is a function with the fold's recursion. *)
LEMMA FoldExists ==
    ASSUME NEW f, NEW X, IsFiniteSet(X)
    PROVE  \E it : IsFold(it, f, X)
<1>. DEFINE D(n) == {s \in SUBSET X : Cardinality(s) <= n}
<1>. DEFINE P == {n \in Nat : \E h : h = [s \in D(n) |-> Fold(h, f, s)]}
<1>0. \A s \in SUBSET X : IsFiniteSet(s) /\ Cardinality(s) \in Nat
  BY FS_Subset, FS_CardinalityType
<1>1. 0 \in P
  <2>. DEFINE h == [s \in D(0) |-> 0]
  <2>1. \A s \in D(0) : s = {}
    BY <1>0, FS_EmptySet
  <2>2. h = [s \in D(0) |-> Fold(h, f, s)]
    BY <2>1 DEF Fold
  <2>. QED
    BY <2>2
<1>2. ASSUME NEW n \in Nat, n \in P
      PROVE  n + 1 \in P
  <2>1. PICK h : h = [s \in D(n) |-> Fold(h, f, s)]
    BY <1>2
  <2>. DEFINE larger == [s \in D(n + 1) |-> Fold(h, f, s)]
  <2>2. ASSUME NEW s \in D(n + 1)
        PROVE  Fold(h, f, s) = Fold(larger, f, s)
    <3>1. CASE s = {}
      BY <3>1 DEF Fold
    <3>2. CASE s # {}
      <4>. DEFINE r == s \ {Chosen(s)}
      <4>1. Chosen(s) \in s
        BY <3>2, ChosenIn
      <4>2. r \in SUBSET X /\ Cardinality(r) = Cardinality(s) - 1
        BY <1>0, <4>1, FS_RemoveElement
      <4>3. r \in D(n) /\ r \in D(n + 1)
        BY <1>0, <4>2
      <4>4. h[r] = Fold(h, f, r)
        BY <2>1, <4>3
      <4>5. larger[r] = Fold(h, f, r)
        BY <4>3
      <4>. QED
        BY <4>4, <4>5 DEF Fold
    <3>. QED
      BY <3>1, <3>2
  <2>3. larger = [s \in D(n + 1) |-> Fold(larger, f, s)]
    BY <2>2
  <2>. HIDE DEF larger, D
  <2>4. n + 1 \in Nat
    OBVIOUS
  <2>. QED
    BY <2>3, <2>4
<1>3. \A n \in Nat : n \in P
  <2>. HIDE DEF P
  <2>. QED
    BY <1>1, <1>2, SetInduction
<1>. DEFINE size == Cardinality(X)
<1>4. size \in Nat
  BY FS_CardinalityType
<1>5. D(size) = SUBSET X
  BY <1>0, FS_Subset
<1>6. PICK h : h = [s \in D(size) |-> Fold(h, f, s)]
  BY <1>3, <1>4
<1>7. h = [s \in SUBSET X |-> Fold(h, f, s)]
  BY <1>5, <1>6
<1>. QED
  BY <1>7 DEF IsFold

(* With + the element that is taken out first may be any. *)
LEMMA FoldTakes ==
    ASSUME NEW f, NEW X, IsFiniteSet(X), \A x \in X : f[x] \in Int,
           NEW it, IsFold(it, f, X)
    PROVE  \A s \in SUBSET X : /\ it[s] \in Int
                               /\ \A x \in s : it[s] = f[x] + it[s \ {x}]
<1>. DEFINE Good(s) == it[s] \in Int /\ \A x \in s : it[s] = f[x] + it[s \ {x}]
<1>. DEFINE P == {n \in Nat : \A s \in SUBSET X : Cardinality(s) <= n => Good(s)}
<1>0. \A s \in SUBSET X : IsFiniteSet(s) /\ Cardinality(s) \in Nat
  BY FS_Subset, FS_CardinalityType
<1>e. \A s \in SUBSET X : it[s] = IF s = {} THEN 0 ELSE f[Chosen(s)] + it[s \ {Chosen(s)}]
  BY DEF IsFold, Fold
<1>f. Good({})
  <2>1. {} \in SUBSET X
    OBVIOUS
  <2>2. it[{}] = 0
    BY <1>e, <2>1
  <2>. QED
    BY <2>2
<1>1. 0 \in P
  <2>1. \A s \in SUBSET X : Cardinality(s) <= 0 => s = {}
    BY <1>0, FS_EmptySet
  <2>. QED
    BY <1>f, <2>1
<1>2. ASSUME NEW n \in Nat, n \in P
      PROVE  n + 1 \in P
  <2>1. ASSUME NEW s \in SUBSET X, Cardinality(s) <= n + 1, s # {}
        PROVE  Good(s)
    <3>. DEFINE c == Chosen(s)
    <3>1. c \in s
      BY <2>1, ChosenIn
    <3>2. \A x \in s : s \ {x} \in SUBSET X /\ Cardinality(s \ {x}) <= n
      <4>. TAKE x \in s
      <4>1. Cardinality(s \ {x}) = Cardinality(s) - 1
        BY <1>0, FS_RemoveElement
      <4>2. Cardinality(s) \in Nat
        BY <1>0
      <4>. QED
        BY <2>1, <4>1, <4>2
    <3>3. \A x \in s : Good(s \ {x})
      BY <1>2, <3>2
    <3>4. it[s] = f[c] + it[s \ {c}]
      BY <1>e, <2>1
    <3>5. it[s] \in Int
      <4>1. f[c] \in Int
        BY <3>1
      <4>2. it[s \ {c}] \in Int
        BY <3>1, <3>3
      <4>. HIDE DEF c
      <4>. QED
        BY <3>4, <4>1, <4>2
    <3>6. ASSUME NEW x \in s
          PROVE  it[s] = f[x] + it[s \ {x}]
      <4>1. CASE x = c
        BY <3>4, <4>1
      <4>2. CASE x # c
        <5>. DEFINE r == (s \ {x}) \ {c}
        <5>1. r = (s \ {c}) \ {x}
          OBVIOUS
        <5>2. it[s \ {c}] = f[x] + it[r]
          BY <3>1, <3>3, <4>2, <5>1
        <5>3. it[s \ {x}] = f[c] + it[r]
          BY <3>1, <3>3, <4>2
        <5>4. it[r] \in Int /\ f[x] \in Int /\ f[c] \in Int
          <6>1. r \in SUBSET X /\ Cardinality(r) <= n
            <7>1. Cardinality(r) = Cardinality(s \ {x}) - 1
              BY <1>0, <3>1, <3>2, <4>2, FS_RemoveElement
            <7>2. Cardinality(s \ {x}) \in Nat /\ Cardinality(s \ {x}) <= n
              BY <1>0, <3>2
            <7>. QED
              BY <7>1, <7>2
          <6>. QED
            BY <1>2, <3>1, <6>1
        <5>. HIDE DEF r, c
        <5>. QED
          BY <3>4, <5>2, <5>3, <5>4
      <4>. QED
        BY <4>1, <4>2
    <3>. QED
      BY <3>5, <3>6
  <2>. HIDE DEF Good
  <2>2. n + 1 \in Nat
    OBVIOUS
  <2>. QED
    BY <1>f, <2>1, <2>2
<1>3. \A n \in Nat : n \in P
  <2>. HIDE DEF P
  <2>. QED
    BY <1>1, <1>2, SetInduction
<1>4. ASSUME NEW s \in SUBSET X
      PROVE  Good(s)
  <2>1. Cardinality(s) \in P /\ Cardinality(s) <= Cardinality(s)
    BY <1>0, <1>3
  <2>. HIDE DEF Good
  <2>. QED
    BY <2>1
<1>. QED
  BY <1>4

(* What is known of the fold: it[s] is the sum over s. *)
Takes(it, f, X) == /\ it[{}] = 0
                   /\ \A s \in SUBSET X : /\ it[s] \in Int
                                           /\ \A x \in s : it[s] = f[x] + it[s \ {x}]

LEMMA TotalIsFold ==
    ASSUME NEW f, NEW X, IsFiniteSet(X), \A x \in X : f[x] \in Int
    PROVE  \E it : Total(f, X) = it[X] /\ Takes(it, f, X)
<1>. DEFINE it == CHOOSE h : IsFold(h, f, X)
<1>1. IsFold(it, f, X)
  BY FoldExists
<1>2. Total(f, X) = it[X]
  BY Zenon DEF Total, SumFunctionOnSet, FoldFunctionOnSet, MapThenFoldSet, IsFold, Fold, Chosen
<1>3. it[{}] = 0
  <2>1. {} \in SUBSET X
    OBVIOUS
  <2>. HIDE DEF it
  <2>. QED
    BY <1>1, <2>1 DEF IsFold, Fold
<1>4. Takes(it, f, X)
  <2>. HIDE DEF it
  <2>1. \A s \in SUBSET X : it[s] \in Int /\ \A x \in s : it[s] = f[x] + it[s \ {x}]
    BY <1>1, FoldTakes
  <2>. QED
    BY <1>3, <2>1 DEF Takes
<1>. QED
  BY <1>2, <1>4

(* Of the function only what it has on the set counts. *)
LEMMA FoldAgrees ==
    ASSUME NEW f, NEW X, IsFiniteSet(X), NEW it, Takes(it, f, X),
           NEW g, NEW Y, NEW jt, Takes(jt, g, Y)
    PROVE  \A s \in SUBSET (X \cap Y) : (\A x \in s : f[x] = g[x]) => it[s] = jt[s]
<1>. DEFINE Good(s) == (\A x \in s : f[x] = g[x]) => it[s] = jt[s]
<1>. DEFINE P == {n \in Nat : \A s \in SUBSET (X \cap Y) : Cardinality(s) <= n => Good(s)}
<1>0. \A s \in SUBSET (X \cap Y) : IsFiniteSet(s) /\ Cardinality(s) \in Nat /\ s \in SUBSET X /\ s \in SUBSET Y
  BY FS_Subset, FS_CardinalityType
<1>e. Good({})
  BY DEF Takes
<1>i. \A s \in SUBSET X : it[s] \in Int /\ \A x \in s : it[s] = f[x] + it[s \ {x}]
  BY DEF Takes
<1>j. \A s \in SUBSET Y : jt[s] \in Int /\ \A x \in s : jt[s] = g[x] + jt[s \ {x}]
  BY DEF Takes
<1>1. 0 \in P
  <2>1. \A s \in SUBSET (X \cap Y) : Cardinality(s) <= 0 => s = {}
    BY <1>0, FS_EmptySet
  <2>. QED
    BY <2>1, <1>e
<1>2. ASSUME NEW n \in Nat, n \in P
      PROVE  n + 1 \in P
  <2>1. ASSUME NEW s \in SUBSET (X \cap Y), Cardinality(s) <= n + 1, s # {}
        PROVE  Good(s)
    <3>1. PICK x \in s : TRUE
      BY <2>1
    <3>2. s \ {x} \in SUBSET (X \cap Y) /\ Cardinality(s \ {x}) <= n
      <4>1. Cardinality(s \ {x}) = Cardinality(s) - 1
        BY <1>0, FS_RemoveElement
      <4>2. Cardinality(s) \in Nat
        BY <1>0
      <4>. QED
        BY <2>1, <4>1, <4>2
    <3>3. Good(s \ {x})
      BY <1>2, <3>2
    <3>4. it[s] = f[x] + it[s \ {x}] /\ jt[s] = g[x] + jt[s \ {x}]
      BY <1>0, <1>i, <1>j
    <3>. QED
      BY <3>3, <3>4
  <2>. HIDE DEF Good
  <2>2. n + 1 \in Nat
    OBVIOUS
  <2>. QED
    BY <1>e, <2>1, <2>2
<1>3. \A n \in Nat : n \in P
  <2>. HIDE DEF P
  <2>. QED
    BY <1>1, <1>2, SetInduction
<1>4. ASSUME NEW s \in SUBSET (X \cap Y)
      PROVE  Good(s)
  <2>1. Cardinality(s) \in P /\ Cardinality(s) <= Cardinality(s)
    BY <1>0, <1>3
  <2>. HIDE DEF Good
  <2>. QED
    BY <2>1
<1>. QED
  BY <1>4

(* A sum of nothing; a sum is an integer; an element taken out; two functions with
   the same values. *)
LEMMA TotalEmpty == ASSUME NEW f PROVE Total(f, {}) = 0
<1>1. IsFiniteSet({})
  BY FS_EmptySet
<1>2. PICK it : Total(f, {}) = it[{}] /\ Takes(it, f, {})
  BY <1>1, TotalIsFold
<1>. QED
  BY <1>2 DEF Takes

Summable(f, X) == IsFiniteSet(X) /\ \A x \in X : f[x] \in Int

LEMMA TotalAgrees ==
    ASSUME NEW f, NEW g, NEW X, IsFiniteSet(X),
           \A x \in X : f[x] \in Int /\ f[x] = g[x]
    PROVE  Total(f, X) = Total(g, X)
<1>1. PICK it : Total(f, X) = it[X] /\ Takes(it, f, X)
  BY TotalIsFold
<1>2. PICK jt : Total(g, X) = jt[X] /\ Takes(jt, g, X)
  <2>1. \A x \in X : g[x] \in Int
    OBVIOUS
  <2>. QED
    BY <2>1, TotalIsFold
<1>3. \A s \in SUBSET (X \cap X) : (\A x \in s : f[x] = g[x]) => it[s] = jt[s]
  BY <1>1, <1>2, FoldAgrees
<1>. QED
  BY <1>1, <1>2, <1>3

LEMMA TotalTakes ==
    ASSUME NEW f, NEW X, Summable(f, X)
    PROVE  /\ Total(f, X) \in Int
           /\ \A x \in X : Total(f, X) = f[x] + Total(f, X \ {x})
<1>0. IsFiniteSet(X) /\ \A x \in X : f[x] \in Int
  BY DEF Summable
<1>1. PICK it : Total(f, X) = it[X] /\ Takes(it, f, X)
  BY <1>0, TotalIsFold
<1>2. \A s \in SUBSET X : it[s] \in Int /\ \A x \in s : it[s] = f[x] + it[s \ {x}]
  BY <1>1 DEF Takes
<1>3. ASSUME NEW x \in X
      PROVE  Total(f, X \ {x}) = it[X \ {x}]
  <2>. DEFINE Y == X \ {x}
  <2>1. IsFiniteSet(Y) /\ \A y \in Y : f[y] \in Int
    BY <1>0, FS_RemoveElement
  <2>2. PICK jt : Total(f, Y) = jt[Y] /\ Takes(jt, f, Y)
    <3>. HIDE DEF Y
    <3>. QED
      BY <2>1, TotalIsFold
  <2>3. \A s \in SUBSET (X \cap Y) : (\A y \in s : f[y] = f[y]) => it[s] = jt[s]
    <3>. HIDE DEF Y
    <3>. QED
      BY <1>0, <1>1, <2>1, <2>2, FoldAgrees
  <2>4. Y \in SUBSET (X \cap Y)
    OBVIOUS
  <2>. QED
    BY <2>2, <2>3, <2>4
<1>. QED
  BY <1>1, <1>2, <1>3
=============================================================================
