----------------------------- MODULE OrderLemmas -----------------------------
(* Sets of numbers have a least and a greatest member: what the proofs     *)
(* about logs and LSNs need to know of CHOOSE.                             *)
EXTENDS Integers, WellFoundedInduction, TLAPS

(* A set of natural numbers has a least member. *)
LEMMA LeastNat ==
  ASSUME NEW S \in SUBSET Nat, S # {}
  PROVE  \E i \in S : \A j \in S : i <= j
<1>1. PICK i \in S : \A j \in S : <<j, i>> \notin OpToRel(<, Nat)
  BY WFMin, NatLessThanWellFounded
<1>2. \A j \in S : <<j, i>> \in OpToRel(<, Nat) <=> j < i
  BY DEF OpToRel
<1>3. \A j \in S : j \in Nat /\ i \in Nat /\ ~(j < i)
  BY <1>1, <1>2
<1> QED
  BY <1>3

(* A bounded set of natural numbers has a greatest member: its least bound. *)
LEMMA GreatestNat ==
  ASSUME NEW S \in SUBSET Nat, S # {}, NEW b \in Nat, \A j \in S : j <= b
  PROVE  \E i \in S : \A j \in S : j <= i
<1> DEFINE Bounds == {i \in Nat : \A j \in S : j <= i}
<1>1. PICK i \in Bounds : \A j \in Bounds : i <= j
  <2>1. Bounds \in SUBSET Nat /\ b \in Bounds
    OBVIOUS
  <2> QED
    BY <2>1, LeastNat
<1>2. ASSUME i \notin S PROVE FALSE
  <2>1. \A j \in S : j <= i - 1
    BY <1>1, <1>2
  <2>2. i - 1 \in Nat
    <3>1. PICK j \in S : j \in Nat /\ j <= i - 1
      BY <2>1
    <3> QED
      BY <1>1, <3>1
  <2>3. i - 1 \in Bounds
    BY <2>1, <2>2
  <2> QED
    BY <1>1, <2>3
<1> QED
  BY <1>1, <1>2

(* A nonempty set of natural numbers that CHOOSE takes the greatest of.    *)
LEMMA ChooseGreatest ==
  ASSUME NEW S \in SUBSET Nat, S # {}, NEW b \in Nat, \A j \in S : j <= b,
         NEW g, g = CHOOSE i \in S : \A j \in S : j <= i
  PROVE  g \in S /\ \A j \in S : j <= g
BY GreatestNat
=============================================================================
