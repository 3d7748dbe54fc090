-------------------------- MODULE InductionProofs ---------------------------
(***************************************************************************)
(* Induction over finite sets, in a form that takes no operator as a       *)
(* parameter: a property is given as the set of what has it.  The proofs   *)
(* rest on the well-foundedness of < on the natural numbers.               *)
(***************************************************************************)
EXTENDS Integers, FiniteSets, FiniteSetTheorems, WellFoundedInduction, TLAPS

(* Every set of natural numbers that is not empty has a least element.     *)
LEMMA Least ==
    ASSUME NEW T \in SUBSET Nat, T # {}
    PROVE  \E n \in T : \A m \in T : n <= m
<1> DEFINE R == {ss \in Nat \X Nat : ss[1] < ss[2]}
<1>1. IsWellFoundedOn(R, Nat)
  BY NatLessThanWellFounded DEF OpToRel
<1> HIDE DEF R
<1>2. \E x \in T : \A y \in T : ~(<<y, x>> \in R)
  BY <1>1, WFMin
<1>3. ASSUME NEW x \in Nat, NEW y \in Nat, y < x
      PROVE <<y, x>> \in R
  BY <1>3 DEF R
<1>4. PICK x \in T : \A y \in T : ~(<<y, x>> \in R)
  BY <1>2
<1>5. ASSUME NEW m \in T PROVE x <= m
  <2>1. x \in Nat /\ m \in Nat
    OBVIOUS
  <2>2. CASE m < x
    <3>1. <<m, x>> \in R
      BY <1>3, <2>1, <2>2
    <3> QED BY <1>4, <3>1, Zenon
  <2> QED BY <2>1, <2>2
<1> QED BY <1>5

(* Every subset of a finite set is in a collection that has the empty set  *)
(* and has, for some element of every other subset, that subset if it has  *)
(* the subset without the element.                                         *)
LEMMA SubsetInduction ==
    ASSUME NEW S, IsFiniteSet(S), NEW Q,
           {} \in Q,
           \A U \in SUBSET S : U # {} => \E x \in U : U \ {x} \in Q => U \in Q
    PROVE  \A U \in SUBSET S : U \in Q
<1> DEFINE Bad == {U \in SUBSET S : U \notin Q}
           Sizes == {Cardinality(U) : U \in Bad}
<1>1. SUFFICES ASSUME Bad # {} PROVE FALSE
  OBVIOUS
<1>2. \A U \in SUBSET S : IsFiniteSet(U) /\ Cardinality(U) \in Nat
  BY FS_Subset, FS_CardinalityType
<1>3. Sizes \in SUBSET Nat /\ Sizes # {}
  BY <1>1, <1>2
<1>4. PICK n \in Sizes : \A m \in Sizes : n <= m
  BY <1>3, Least
<1>5. PICK U \in Bad : Cardinality(U) = n
  OBVIOUS
<1>6. PICK x \in U : U \ {x} \in Q => U \in Q
  OBVIOUS
<1>7. U \ {x} \in Bad
  BY <1>6
<1>8. Cardinality(U \ {x}) = Cardinality(U) - 1
  BY <1>2, FS_RemoveElement
<1>9. Cardinality(U \ {x}) \in Sizes
  BY <1>7
<1>10. n <= Cardinality(U \ {x})
  <2> HIDE DEF Sizes
  <2> QED BY <1>4, <1>9
<1>11. n \in Nat
  BY <1>3
<1> HIDE DEF Bad, Sizes
<1> QED BY <1>5, <1>8, <1>10, <1>11

(* pick takes an element of every subset of S that is not empty, and g     *)
(* computes, from base on, the fold of G over the elements of each subset  *)
(* in that order.                                                          *)
IsPick(pick, S) ==
    /\ pick \in [(SUBSET S) \ {{}} -> S]
    /\ \A U \in (SUBSET S) \ {{}} : pick[U] \in U

IsFold(g, S, V, base, G, pick) ==
    /\ g \in [SUBSET S -> V]
    /\ \A U \in SUBSET S :
         g[U] = IF U = {} THEN base ELSE G[<<pick[U], g[U \ {pick[U]}]>>]

(* Every fold over a finite set is computed by such a function.            *)
LEMMA FoldExists ==
    ASSUME NEW S, IsFiniteSet(S), NEW V, NEW base \in V,
           NEW G \in [S \X V -> V], NEW pick, IsPick(pick, S)
    PROVE  \E g : IsFold(g, S, V, base, G, pick)
<1>0. pick \in [(SUBSET S) \ {{}} -> S] /\ \A U \in (SUBSET S) \ {{}} : pick[U] \in U
  BY DEF IsPick
<1> DEFINE Eq(g, U) == g[U] = IF U = {} THEN base ELSE G[<<pick[U], g[U \ {pick[U]}]>>]
           Upto(n) == {U \in SUBSET S : Cardinality(U) <= n}
           Good == {n \in Nat : \E g \in [SUBSET S -> V] : \A U \in Upto(n) : Eq(g, U)}
<1>1. \A U \in SUBSET S : IsFiniteSet(U) /\ Cardinality(U) \in Nat
  BY FS_Subset, FS_CardinalityType
<1>2. 0 \in Good
  <2> DEFINE g == [U \in SUBSET S |-> base]
  <2>1. g \in [SUBSET S -> V]
    OBVIOUS
  <2>2. ASSUME NEW U \in Upto(0) PROVE Eq(g, U)
    <3>1. U = {}
      BY <1>1, FS_EmptySet
    <3> QED BY <3>1
  <2> QED BY <2>1, <2>2
<1>3. ASSUME NEW n \in Good PROVE n + 1 \in Good
  <2>1. PICK g \in [SUBSET S -> V] : \A U \in Upto(n) : Eq(g, U)
    OBVIOUS
  <2> DEFINE h == [U \in SUBSET S |->
                     IF U \in Upto(n) THEN g[U]
                     ELSE IF U = {} THEN base ELSE G[<<pick[U], g[U \ {pick[U]}]>>]]
  <2>2. h \in [SUBSET S -> V]
    <3> SUFFICES ASSUME NEW U \in SUBSET S PROVE h[U] \in V
      OBVIOUS
    <3>1. CASE U # {}
      <4>1. pick[U] \in S /\ g[U \ {pick[U]}] \in V
        BY <3>1, <1>0
      <4> QED BY <4>1, <3>1
    <3> QED BY <3>1
  <2>3. ASSUME NEW U \in Upto(n + 1) PROVE Eq(h, U)
    <3>1. CASE U = {}
      <4>1. U \in Upto(n)
        BY <3>1, FS_EmptySet
      <4> QED BY <4>1, <2>1, <3>1
    <3>2. CASE U # {}
      <4>1. pick[U] \in U
        BY <3>2, <1>0
      <4>2. Cardinality(U \ {pick[U]}) = Cardinality(U) - 1
        BY <1>1, <4>1, FS_RemoveElement
      <4>3. U \ {pick[U]} \in Upto(n)
        BY <4>2, <1>1
      <4>4. h[U \ {pick[U]}] = g[U \ {pick[U]}]
        BY <4>3
      <4>5. CASE U \in Upto(n)
        BY <4>4, <4>5, <3>2, <2>1
      <4> QED BY <4>4, <4>5, <3>2
    <3> QED BY <3>1, <3>2
  <2>4. \A U \in Upto(n + 1) : Eq(h, U)
    BY <2>3
  <2> HIDE DEF h
  <2>5. n + 1 \in Nat
    OBVIOUS
  <2> HIDE DEF Eq, Upto
  <2>6. \E hh \in [SUBSET S -> V] : \A U \in Upto(n + 1) : Eq(hh, U)
    BY <2>2, <2>4, Zenon
  <2> QED BY <2>5, <2>6, Zenon
<1>4. Cardinality(S) \in Good
  <2> DEFINE T == Nat \ Good
  <2> HIDE DEF Good
  <2>1. CASE T # {}
    <3>1. PICK n \in T : \A m \in T : n <= m
      BY <2>1, Least
    <3>2. n # 0 /\ n \in Nat
      BY <1>2
    <3>3. n - 1 \in Nat /\ n - 1 \notin T
      BY <3>1, <3>2
    <3> QED BY <3>2, <3>3, <1>3
  <2> QED BY <2>1, <1>1
<1>5. Upto(Cardinality(S)) = SUBSET S
  BY <1>1, FS_Subset
<1>6. PICK g \in [SUBSET S -> V] : \A U \in SUBSET S : Eq(g, U)
  BY <1>4, <1>5
<1> QED BY <1>6 DEF IsFold
=============================================================================
