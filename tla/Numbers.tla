------------------------------ MODULE Numbers ------------------------------
(***************************************************************************)
(* Facts about natural numbers that the proofs of several modules rest on. *)
(***************************************************************************)
EXTENDS Integers, WellFoundedInduction, TLAPS

\* Induction over numbers for a set of them, from the least one outside of it.
LEMMA SetInduction ==
  ASSUME NEW T \in SUBSET Nat, 0 \in T, \A n \in T : n + 1 \in T
  PROVE  T = Nat
<1> DEFINE U == Nat \ T
           R == OpToRel(<, Nat)
<1>1. SUFFICES ASSUME U # {} PROVE FALSE
  OBVIOUS
<1>2. PICK x \in U : \A y \in U : ~ (<<y, x>> \in R)
  <2> HIDE DEF R
  <2>1. IsWellFoundedOn(R, Nat)
    BY NatLessThanWellFounded DEF R
  <2> QED BY <1>1, <2>1, WFMin
<1>3. \A y \in Nat : y < x => <<y, x>> \in R
  BY <1>2 DEF OpToRel
<1> HIDE DEF R
<1>4. x \in Nat /\ x \notin T
  OBVIOUS
<1>5. x # 0 /\ x - 1 \in Nat /\ x - 1 < x
  BY <1>4
<1>6. x - 1 \in T
  BY <1>2, <1>3, <1>5
<1>7. (x - 1) + 1 \in T
  BY <1>6
<1> QED BY <1>4, <1>7

\* Quotient and remainder, for the divisors of the geometries.
LEMMA Euclid ==
  ASSUME NEW n \in Nat, NEW d \in {8, 16, 32, 63, 64, 128, 255}
  PROVE  n = (n \div d) * d + (n % d) /\ n \div d \in Nat /\ n % d \in 0 .. (d - 1)
<1>1. CASE d = 8  BY <1>1
<1>2. CASE d = 16  BY <1>2
<1>3. CASE d = 32  BY <1>3
<1>4. CASE d = 63  BY <1>4
<1>5. CASE d = 64  BY <1>5
<1>6. CASE d = 128  BY <1>6
<1>7. CASE d = 255  BY <1>7
<1> QED BY <1>1, <1>2, <1>3, <1>4, <1>5, <1>6, <1>7

\* A number is below the next multiple of what it is divided by.
LEMMA NextMultiple ==
  ASSUME NEW n \in Nat, NEW d \in Nat \ {0}
  PROVE  n \div d \in Nat /\ n < (n \div d + 1) * d /\ (n \div d) * d <= n
OBVIOUS

\* The place of a number within rows of d.
LEMMA Division ==
  ASSUME NEW n \in Nat, NEW d \in Nat \ {0}
  PROVE  /\ n \div d \in Nat /\ n % d \in 0 .. (d - 1)
         /\ n = (n \div d) * d + (n % d)
OBVIOUS

LEMMA QuotientUnique ==
  ASSUME NEW n \in Nat, NEW d \in Nat \ {0}, NEW q \in Nat, NEW r \in 0 .. (d - 1),
         n = q * d + r
  PROVE  n \div d = q /\ n % d = r
OBVIOUS
=============================================================================
