---------------------------- MODULE InductionLemmas ----------------------------
(***************************************************************************)
(* Induction over sets instead of operators: to show a fact of every       *)
(* natural number, take the set of the numbers it holds of.  The proofs    *)
(* about loops over lists (ExecuteTxs and its like) rest on these lemmas.  *)
(***************************************************************************)
EXTENDS Integers, Sequences, NaturalsInduction, WellFoundedInduction, TLAPS

\* Every nonempty set of natural numbers has a least one.
LEMMA LeastNatural ==
    ASSUME NEW T, T \subseteq Nat, T # {}
    PROVE  \E x \in T : \A y \in T : x <= y
<1>1. PICK x \in T : \A y \in T : ~(<<y, x>> \in OpToRel(<, Nat))
  BY NatLessThanWellFounded, WFMin, Zenon
<1>2. \A y \in T : ~(y < x)
  BY <1>1 DEF OpToRel
<1>. QED
  BY <1>2

\* Induction: a set that has zero, and with a number its successor, has them
\* all.
LEMMA SetInduction ==
    ASSUME NEW S, 0 \in S, \A n \in Nat : n \in S => n + 1 \in S
    PROVE  Nat \subseteq S
<1>. DEFINE T == Nat \ S
<1>. SUFFICES ASSUME T # {} PROVE FALSE
  OBVIOUS
<1>1. T \subseteq Nat
  OBVIOUS
<1>2. PICK x \in T : \A y \in T : x <= y
  <2>. HIDE DEF T
  <2>. QED
    BY <1>1, LeastNatural
<1>3. x - 1 \in Nat /\ x - 1 < x /\ (x - 1) + 1 = x
  OBVIOUS
<1>4. x - 1 \notin T
  BY <1>2, <1>3
<1>. QED
  BY <1>3, <1>4

\* A nonempty set of numbers that has a bound has a greatest one.
LEMMA GreatestBounded ==
    ASSUME NEW n \in Nat, NEW U, U \subseteq 0 .. n, U # {}
    PROVE  \E x \in U : \A y \in U : y <= x
<1>. DEFINE T == {k \in 0 .. n : \A y \in U : y <= k}
<1>1. n \in T /\ T \subseteq Nat
  OBVIOUS
<1>2. PICK k \in T : \A m \in T : k <= m
  <2>. HIDE DEF T
  <2>. QED
    BY <1>1, LeastNatural
<1>3. k \in U
  <2>. SUFFICES ASSUME k \notin U PROVE FALSE
    OBVIOUS
  <2>1. PICK y \in U : TRUE
    OBVIOUS
  <2>2. y < k /\ y \in Nat /\ k \in 0 .. n
    BY <1>2
  <2>3. \A z \in U : z <= k - 1
    BY <1>2
  <2>4. k - 1 \in T
    BY <2>2, <2>3
  <2>. QED
    BY <1>2, <2>2, <2>4
<1>. QED
  BY <1>2, <1>3
=============================================================================
