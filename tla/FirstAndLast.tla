---------------------------- MODULE FirstAndLast ----------------------------
(***************************************************************************)
(* The first of a set of numbers and the last of a set of positions, which *)
(* the choice of the newest cycle in force rests on (cycle_in_force).      *)
(***************************************************************************)
EXTENDS Integers, TLAPS, WellFoundedInduction

\* A set of numbers that is not empty has a first one.
LEMMA FirstOne ==
  ASSUME NEW T, T \subseteq Nat, T # {}
  PROVE  \E t \in T : \A u \in Nat : u < t => u \notin T
<1>1. PICK t \in T : \A u \in T : <<u, t>> \notin OpToRel(<, Nat)
  BY WFMin, NatLessThanWellFounded, Zenon
<1>2. ASSUME NEW u \in Nat, u < t, u \in T
      PROVE  FALSE
  <2> DEFINE p == <<u, t>>
  <2>1. p \in Nat \X Nat /\ p[1] < p[2]
    BY <1>2
  <2> HIDE DEF p
  <2>2. p \in OpToRel(<, Nat)
    BY <2>1, Zenon DEF OpToRel
  <2> QED
    BY <1>1, <1>2, <2>2 DEF p
<1> QED
  BY <1>2

\* A set of positions that is not empty has a last one.
LEMMA LastOne ==
  ASSUME NEW n \in Nat, NEW S \in SUBSET (1..n), S # {}
  PROVE  \E m \in S : \A k \in S : k <= m
<1> DEFINE T == {t \in Nat : n - t \in S}
<1>1. \A k \in S : k \in 1..n /\ n - k \in Nat /\ n - (n - k) = k
  OBVIOUS
<1>2. T \subseteq Nat /\ T # {}
  BY <1>1
<1>3. PICK t \in T : \A u \in Nat : u < t => u \notin T
  BY <1>2, FirstOne
<1>4. t \in Nat /\ n - t \in S /\ \A u \in Nat : n - u \in S => ~(u < t)
  BY <1>3
<1>5. \A k \in S : k <= n - t
  BY <1>1, <1>4
<1> QED
  BY <1>4, <1>5

=============================================================================
