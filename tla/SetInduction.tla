---------------------------- MODULE SetInduction ----------------------------
(***************************************************************************)
(* Induction with a set for the induction hypothesis.  The library states  *)
(* its induction theorems for an operator P(_), which the provers cannot   *)
(* instantiate; its least-element theorem, WFMin, is about a set, and the  *)
(* principles below follow from it.  On them rest the loop of Environment, *)
(* the waits of GeminiDriver and what is first in a sequence of outcomes of*)
(* Scenario.                                                               *)
(***************************************************************************)
EXTENDS FiniteSetTheorems, TLAPS

\* Every set of naturals that has an element has a least one.
LEMMA LeastNatural ==
    ASSUME NEW T \in SUBSET Nat, T # {}
    PROVE  \E x \in T : \A y \in T : x <= y
<1> DEFINE R == {ss \in Nat \X Nat : ss[1] < ss[2]}
<1>1. IsWellFoundedOn(R, Nat)
  BY NatLessThanWellFounded, Zenon DEF OpToRel
<1>2. PICK x \in T : \A y \in T : ~ (<<y, x>> \in R)
  BY <1>1, WFMin, Zenon
<1>3. ASSUME NEW y \in T, y < x PROVE <<y, x>> \in R
  BY <1>3
<1>4. \A y \in T : ~(y < x)
  BY <1>2, <1>3
<1> QED BY <1>4

\* Induction over the naturals.
LEMMA NaturalInduction ==
    ASSUME NEW S, 0 \in S, \A n \in Nat : n \in S => n + 1 \in S
    PROVE  Nat \subseteq S
<1> SUFFICES ASSUME Nat \ S # {} PROVE FALSE
  OBVIOUS
<1>1. PICK n \in Nat \ S : \A m \in Nat \ S : n <= m
  BY LeastNatural
<1>2. n - 1 \in Nat /\ n - 1 \in S
  BY <1>1
<1> QED BY <1>1, <1>2

\* Induction up to a bound.
LEMMA BoundedInduction ==
    ASSUME NEW N \in Nat, NEW S, 0 \in S,
           \A n \in 0..(N - 1) : n \in S => n + 1 \in S
    PROVE  0..N \subseteq S
<1> DEFINE T == {n \in Nat : n <= N => n \in S}
<1>1. Nat \subseteq T
  <2>1. 0 \in T
    OBVIOUS
  <2>2. ASSUME NEW n \in Nat, n \in T PROVE n + 1 \in T
    BY <2>2
  <2> HIDE DEF T
  <2> QED BY <2>1, <2>2, NaturalInduction
<1> QED BY <1>1

\* Induction over the subsets of a finite set.
LEMMA FiniteInduction ==
    ASSUME NEW U, IsFiniteSet(U), NEW F, {} \in F,
           \A T \in SUBSET U, x \in U : T \in F => T \cup {x} \in F
    PROVE  U \in F
<1> DEFINE S == {n \in Nat : \A T \in SUBSET U : Cardinality(T) = n => T \in F}
<1>1. 0 \in S
  BY FS_Subset, FS_EmptySet
<1>2. ASSUME NEW n \in Nat, n \in S PROVE n + 1 \in S
  <2> SUFFICES ASSUME NEW T \in SUBSET U, Cardinality(T) = n + 1 PROVE T \in F
    OBVIOUS
  <2>1. IsFiniteSet(T) /\ T # {}
    BY FS_Subset, FS_EmptySet
  <2>2. PICK x \in T : TRUE
    BY <2>1
  <2>3. Cardinality(T \ {x}) = n
    <3>1. Cardinality(T \ {x}) = Cardinality(T) - 1
      BY <2>1, <2>2, FS_RemoveElement
    <3> QED BY <3>1
  <2>4. T \ {x} \in F /\ T \ {x} \in SUBSET U
    BY <1>2, <2>3
  <2> QED BY <2>4
<1>3. Nat \subseteq S
  BY <1>1, <1>2, NaturalInduction
<1> QED BY <1>3, FS_CardinalityType

\* A finite set of naturals that has an element has a greatest one.
LEMMA FiniteMaximum ==
    ASSUME NEW S \in SUBSET Nat, IsFiniteSet(S), S # {}
    PROVE  \E m \in S : \A x \in S : x <= m
<1> DEFINE F == {T \in SUBSET S : T = {} \/ \E m \in T : \A x \in T : x <= m}
<1>1. {} \in F
  OBVIOUS
<1>2. ASSUME NEW T \in SUBSET S, NEW x \in S, T \in F PROVE T \cup {x} \in F
  <2>1. CASE T = {}
    BY <2>1
  <2>2. CASE T # {}
    <3>1. PICK m \in T : \A y \in T : y <= m
      BY <1>2, <2>2
    <3>2. CASE x <= m
      BY <3>1, <3>2
    <3>3. CASE m < x
      BY <3>1, <3>3
    <3> QED BY <3>2, <3>3
  <2> QED BY <2>1, <2>2
<1> HIDE DEF F
<1>3. S \in F
  BY <1>1, <1>2, FiniteInduction
<1> QED BY <1>3 DEF F
=============================================================================
