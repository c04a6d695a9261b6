------------------------------ MODULE NatLemmas ------------------------------
(* A fact about natural numbers that the proofs of several modules need.     *)
EXTENDS Naturals, TLAPS, WellFoundedInduction

\* A nonempty set of natural numbers has a least element, so the CHOOSEs that
\* stand for the code's searching loops are well defined.
LEMMA LeastElement ==
  ASSUME NEW S \in SUBSET Nat, S # {}
  PROVE  \E i \in S : \A j \in S : i <= j
<1>1. PICK i \in S : \A j \in S : ~(<<j, i>> \in OpToRel(<, Nat))
  BY WFMin, NatLessThanWellFounded
<1>2. ASSUME NEW j \in S  PROVE ~(j < i)
  <2>1. <<j, i>> \in Nat \X Nat /\ <<j, i>>[1] = j /\ <<j, i>>[2] = i
    OBVIOUS
  <2>2. j < i => <<j, i>> \in OpToRel(<, Nat)
    BY <2>1, Zenon DEF OpToRel
  <2> QED  BY <1>1, <2>2, Zenon
<1> QED  BY <1>2
==============================================================================
