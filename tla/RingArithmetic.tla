--------------------------- MODULE RingArithmetic ---------------------------
(***************************************************************************)
(* Facts about sequence % capacity, the index both windows of window.cpp   *)
(* use: numbers closer than the capacity have different indices, numbers   *)
(* exactly the capacity apart have the same one.  And the oldest of a set  *)
(* of sequence numbers exists.                                             *)
(***************************************************************************)
EXTENDS Integers, WellFoundedInduction, TLAPS

\* A set of natural numbers has a least one, unless it is empty.
LEMMA LeastElement ==
  \A S \in SUBSET Nat : S # {} => \E x \in S : \A y \in S : x <= y
  <1> DEFINE Less == OpToRel(<, Nat)
  <1>1. Less = {ss \in Nat \X Nat : ss[1] < ss[2]}
    BY DEF OpToRel
  <1>2. IsWellFoundedOn(Less, Nat)
    BY NatLessThanWellFounded
  <1> HIDE DEF Less
  <1> SUFFICES ASSUME NEW S \in SUBSET Nat, S # {}
               PROVE  \E x \in S : \A y \in S : x <= y
    OBVIOUS
  <1>3. PICK x \in S : \A y \in S : ~ (<<y, x>> \in Less)
    BY <1>2, WFMin
  <1>4. \A y \in S : x <= y
    <2> SUFFICES ASSUME NEW y \in S, y < x
                 PROVE  FALSE
      OBVIOUS
    <2> DEFINE ss == <<y, x>>
    <2>1. ss \in Nat \X Nat /\ ss[1] < ss[2]
      OBVIOUS
    <2> HIDE DEF ss
    <2>2. ss \in Less
      BY <1>1, <2>1
    <2> QED BY <1>3, <2>2 DEF ss
  <1> QED BY <1>4

\* Division with remainder by a positive number.
LEMMA DivMod ==
  ASSUME NEW c \in Nat \ {0}, NEW a \in Nat
  PROVE  /\ a \div c \in Int
         /\ a % c \in 0 .. c - 1
         /\ a = c * (a \div c) + (a % c)
OBVIOUS

\* A multiple of c that lies in 0 .. c - 1 is zero.
LEMMA SmallMultiple ==
  ASSUME NEW c \in Nat \ {0}, NEW d \in Int, 0 <= c * d, c * d < c
  PROVE  d = 0
OBVIOUS

\* Numbers less than c apart have different remainders.
LEMMA ModInjective ==
  ASSUME NEW c \in Nat \ {0}, NEW a \in Nat, NEW b \in Nat,
         a <= b, b < a + c, a % c = b % c
  PROVE  a = b
<1> DEFINE p == a \div c
           q == b \div c
<1>1. /\ p \in Int /\ q \in Int /\ a % c \in Int
      /\ a = c * p + (a % c) /\ b = c * q + (b % c)
  BY DivMod
<1> HIDE DEF p, q
<1>2. b - a = c * q - c * p
  BY <1>1
<1>3. c * q - c * p = c * (q - p)
  BY <1>1
<1>4. q - p = 0
  <2>1. q - p \in Int /\ 0 <= c * (q - p) /\ c * (q - p) < c
    BY <1>1, <1>2, <1>3
  <2>2. QED
    BY <2>1, SmallMultiple
<1>5. QED
  BY <1>1, <1>2, <1>3, <1>4

\* Numbers exactly c apart have the same remainder.
LEMMA ModPeriodic ==
  ASSUME NEW c \in Nat \ {0}, NEW a \in Nat
  PROVE  (a + c) % c = a % c
<1> DEFINE p == a \div c
           q == (a + c) \div c
           r == a % c
           t == (a + c) % c
<1>1. /\ p \in Int /\ q \in Int /\ r \in 0 .. c - 1 /\ t \in 0 .. c - 1
      /\ a = c * p + r /\ a + c = c * q + t
  BY DivMod
<1> HIDE DEF p, q, r, t
<1> DEFINE d == q - p - 1
<1>2. c * d = r - t /\ d \in Int
  BY <1>1
<1>3. CASE r >= t
  <2>1. 0 <= c * d /\ c * d < c
    BY <1>1, <1>2, <1>3
  <2>2. d = 0
    BY <1>2, <2>1, SmallMultiple
  <2>3. QED
    BY <1>1, <1>2, <2>2 DEF r, t
<1>4. CASE t >= r
  <2>1. c * (-d) = t - r /\ -d \in Int
    BY <1>1, <1>2
  <2>2. 0 <= c * (-d) /\ c * (-d) < c
    BY <1>1, <1>4, <2>1
  <2>3. -d = 0
    BY <2>1, <2>2, SmallMultiple
  <2>4. QED
    BY <1>1, <2>1, <2>3 DEF r, t
<1>5. QED
  BY <1>1, <1>3, <1>4
=============================================================================
