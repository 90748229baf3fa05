-------------------------------- MODULE Minima ------------------------------
(***************************************************************************)
(* The least element of a set of natural numbers, for the proofs about     *)
(* operators that look for the first place where something holds.          *)
(***************************************************************************)
EXTENDS Integers, WellFoundedInduction, TLAPS

\* A set of natural numbers that is not empty has a least element.
LEMMA LeastIn == ASSUME NEW S \in SUBSET Nat, S /= {}
                 PROVE  \E x \in S : \A y \in S : x <= y
<1> DEFINE Below == {ss \in Nat \X Nat : ss[1] < ss[2]}
<1>1. IsWellFoundedOn(Below, Nat)
  BY NatLessThanWellFounded, Zenon DEF OpToRel
<1>2. PICK x \in S : \A y \in S : ~(<<y, x>> \in Below)
  <2> HIDE DEF Below
  <2> QED  BY <1>1, WFMin
<1>3. ASSUME NEW y \in S, y < x  PROVE FALSE
  <2>1. <<y, x>> \in Nat \X Nat /\ <<y, x>>[1] < <<y, x>>[2]
    BY <1>3
  <2>2. <<y, x>> \in Below
    BY <2>1, Zenon
  <2>3. QED
    BY <1>2, <2>2
<1>4. QED
  BY <1>3
=============================================================================
