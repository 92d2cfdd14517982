------------------------------- MODULE Extremes -------------------------------
(***************************************************************************)
(* The least element of a set of numbers, and the greatest one when the    *)
(* set is bounded: what a loop that stops at the first or goes on to the   *)
(* last message of a batch chooses.                                        *)
(***************************************************************************)
EXTENDS Integers, WellFoundedInduction, TLAPS

LEMMA LeastExists ==
  ASSUME NEW S \in SUBSET Nat, S # {}
  PROVE  \E n \in S : \A m \in S : n <= m
<1> DEFINE R == OpToRel(<, Nat)
<1>1. IsWellFoundedOn(R, Nat)
  BY NatLessThanWellFounded
<1>2. \A x, y \in Nat : x < y => <<x, y>> \in R
  BY DEF OpToRel
<1> HIDE DEF R
<1>3. PICK n \in S : \A m \in S : ~(<<m, n>> \in R)
  BY <1>1, WFMin
<1>4. \A m \in S : n \in Nat /\ m \in Nat /\ ~(m < n)
  BY <1>2, <1>3
<1>5. \A m \in S : n <= m
  BY <1>4
<1> QED
  BY <1>5

LEMMA GreatestExists ==
  ASSUME NEW S \in SUBSET Nat, S # {}, NEW N \in Nat, \A n \in S : n <= N
  PROVE  \E n \in S : \A m \in S : m <= n
<1> DEFINE T == {N - n : n \in S}
<1>1. T \in SUBSET Nat /\ T # {}
  <2>1. \A n \in S : N - n \in Nat
    OBVIOUS
  <2> QED
    BY <2>1
<1>2. PICK d \in T : \A e \in T : d <= e
  BY <1>1, LeastExists
<1>3. PICK n \in S : d = N - n
  OBVIOUS
<1>4. \A m \in S : N - m \in T /\ m \in Nat /\ n \in Nat
  OBVIOUS
<1>5. \A m \in S : N - n <= N - m
  BY <1>2, <1>3, <1>4
<1>6. \A m \in S : m <= n
  BY <1>4, <1>5
<1> QED
  BY <1>6

(* The element that CHOOSE picks.                                          *)
LEMMA LeastChosen ==
  ASSUME NEW S \in SUBSET Nat, S # {}
  PROVE  LET n == CHOOSE m \in S : \A k \in S : m <= k
         IN  n \in S /\ \A m \in S : n <= m
  BY LeastExists

LEMMA GreatestChosen ==
  ASSUME NEW S \in SUBSET Nat, S # {}, NEW N \in Nat, \A n \in S : n <= N
  PROVE  LET n == CHOOSE m \in S : \A k \in S : k <= m
         IN  n \in S /\ \A m \in S : m <= n
  BY GreatestExists
=============================================================================
