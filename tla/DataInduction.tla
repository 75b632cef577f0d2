----------------------------- MODULE DataInduction -----------------------------
(* Induction over the naturals with sets in the place of predicates, which is how *)
(* the proofs about recursive functions and about intervals use it.               *)
EXTENDS Integers, WellFoundedInduction, TLAPS

Below == {pair \in Nat \X Nat : pair[1] < pair[2]}

\* The order of the naturals as a relation, for which the library states it.
LEMMA BelowWellFounded == IsWellFoundedOn(Below, Nat)
<1>1. OpToRel(<, Nat) = Below
  BY DEF OpToRel, Below
<1>2. QED BY <1>1, NatLessThanWellFounded

\* Any set of naturals that is not empty has a least element.
LEMMA LeastElement ==
  ASSUME NEW S, S \subseteq Nat, S # {}
  PROVE  \E x \in S : \A y \in S : x <= y
<1>1. PICK x \in S : \A y \in S : <<y, x>> \notin Below
  BY BelowWellFounded, WFMin, Zenon
<1>2. ASSUME NEW y \in S PROVE x <= y
  <2>1. x \in Nat /\ y \in Nat
    OBVIOUS
  <2>2. <<y, x>> \in Nat \X Nat => ~(y < x)
    BY <1>1, SMT DEF Below
  <2>3. QED BY <2>1, <2>2
<1>3. QED BY <1>2

\* What holds of 0, and of n + 1 when it holds of n, holds of every natural.
LEMMA SetInduction ==
  ASSUME NEW S, 0 \in S, \A n \in Nat : n \in S => n + 1 \in S
  PROVE  \A n \in Nat : n \in S
<1> SUFFICES ASSUME Nat \ S # {} PROVE FALSE
  OBVIOUS
<1>1. PICK m \in Nat \ S : \A k \in Nat \ S : m <= k
  BY LeastElement
<1>2. m - 1 \in Nat
  BY <1>1
<1>3. m - 1 \in S
  BY <1>1, <1>2
<1>4. QED BY <1>1, <1>2, <1>3

\* The same downwards, from n to 0.
LEMMA DownInduction ==
  ASSUME NEW S, NEW n \in Nat, n \in S, \A k \in 1..n : k \in S => k - 1 \in S
  PROVE  \A k \in 0..n : k \in S
<1> DEFINE T == {m \in Nat : m <= n => n - m \in S}
<1>1. 0 \in T
  OBVIOUS
<1>2. ASSUME NEW m \in Nat, m \in T PROVE m + 1 \in T
  <2>1. SUFFICES ASSUME m + 1 <= n PROVE n - (m + 1) \in S
    OBVIOUS
  <2>2. n - m \in 1..n /\ n - m \in S
    BY <1>2, <2>1
  <2>3. (n - m) - 1 \in S
    BY <2>2
  <2>4. (n - m) - 1 = n - (m + 1)
    OBVIOUS
  <2>5. QED BY <2>3, <2>4
<1>3. \A m \in Nat : m \in T
  <2> HIDE DEF T
  <2>1. QED BY <1>1, <1>2, SetInduction
<1>4. ASSUME NEW k \in 0..n PROVE k \in S
  <2>1. n - k \in T /\ n - k \in Nat
    BY <1>3
  <2>2. n - (n - k) = k /\ n - k <= n
    OBVIOUS
  <2>3. QED BY <2>1, <2>2
<1>5. QED BY <1>4
===============================================================================
