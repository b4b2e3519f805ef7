------------------------ MODULE ReceiverWindowProofs ------------------------
(***************************************************************************)
(* The receive window's invariants, for every capacity, integer width and  *)
(* number of chunks.                                                       *)
(***************************************************************************)
EXTENDS ReceiverWindow, RingArithmetic, TLAPS

\* Every sequence number has a bit.
LEMMA SlotInRing == \A s \in Nat : slot(s) \in Index
  BY DivMod, WidthAssumption DEF slot, Index

\* Two chunks less than Capacity apart have different bits.
LEMMA SlotsDistinct ==
  \A s, t \in Nat :
    s < t + Capacity /\ t < s + Capacity /\ slot(s) = slot(t) => s = t
<1> SUFFICES ASSUME NEW s \in Nat, NEW t \in Nat,
                    s < t + Capacity, t < s + Capacity, slot(s) = slot(t)
             PROVE  s = t
  OBVIOUS
<1>1. Capacity \in Nat \ {0} /\ s % Capacity = t % Capacity
  BY WidthAssumption DEF slot
<1>2. CASE s <= t
  BY <1>1, <1>2, ModInjective
<1>3. CASE t <= s
  BY <1>1, <1>3, ModInjective
<1>4. QED
  BY <1>2, <1>3

\* A chunk and the one Capacity later share a bit.
LEMMA SlotsReused == \A s \in Nat : slot(s + Capacity) = slot(s)
  BY ModPeriodic, WidthAssumption DEF slot

\* The 32-bit sum in classify is the true sum, or less than base when it wraps.
LEMMA LimitValue ==
  ASSUME base \in Nat, base < Modulus
  PROVE  Limit = base + Capacity \/ Limit < base
<1>1. /\ base + Capacity \in Nat /\ Modulus \in Nat \ {0}
      /\ base + Capacity < 2 * Modulus /\ Capacity \in Nat /\ Capacity < Modulus
  BY WidthAssumption
<1>2. CASE base + Capacity < Modulus
  <2>1. (base + Capacity) % Modulus = base + Capacity
    BY <1>1, <1>2
  <2>2. QED
    BY <2>1 DEF Limit
<1>3. CASE base + Capacity >= Modulus
  <2> DEFINE x == base + Capacity - Modulus
  <2>1. x \in Nat /\ x < Modulus /\ base + Capacity = x + Modulus /\ x < base
    BY <1>1, <1>3
  <2>2. (x + Modulus) % Modulus = x % Modulus
    BY <1>1, <2>1, ModPeriodic
  <2>3. x % Modulus = x
    BY <1>1, <2>1
  <2>4. QED
    BY <2>1, <2>2, <2>3 DEF Limit
<1>4. QED
  BY <1>1, <1>2, <1>3

\* What is accepted lies in the window and its bit is clear.
LEMMA AcceptedInWindow ==
  ASSUME TypeOK, NEW s \in Sequence, classify(s) = "kAccepted"
  PROVE  base <= s /\ s < base + Capacity /\ ~ received[slot(s)]
<1>1. /\ base \in Nat /\ base < Modulus /\ s \in Nat /\ Limit \in Int
      /\ Limit = base + Capacity \/ Limit < base
  <2>1. base \in Nat /\ base < Modulus /\ s \in Nat
    BY WidthAssumption DEF TypeOK, Sequence
  <2>2. Limit \in Int
    BY <2>1, WidthAssumption DEF Limit
  <2>3. QED
    BY <2>1, <2>2, LimitValue
<1>2. ~ (s < base) /\ ~ (s >= Limit) /\ ~ received[slot(s)]
  BY DEF classify
<1>3. QED
  BY <1>1, <1>2, WidthAssumption

(***************************************************************************)
(* The inductive invariant.                                                *)
(***************************************************************************)
IInv == TypeOK /\ RingExact

\* The empty window satisfies it.
LEMMA InitIInv == Init => IInv
<1> SUFFICES ASSUME Init PROVE IInv
  OBVIOUS
<1> USE DEF Init
<1>1. TypeOK
  BY WidthAssumption DEF TypeOK
<1>2. \A s \in base .. base + Capacity - 1 : slot(s) \in Index
  BY SlotInRing, WidthAssumption
<1>3. RingExact
  BY <1>2, WidthAssumption DEF RingExact, Sequence
<1>4. QED
  BY <1>1, <1>3 DEF IInv

\* Storing a chunk and sliding the window preserves it.
LEMMA StoreIInv ==
  ASSUME IInv, NEW s \in Sequence, Store(s)
  PROVE  IInv'
<1> DEFINE ring == [received EXCEPT ![slot(s)] = TRUE]
<1>1. /\ base \in Nat /\ base <= Chunks /\ received \in [Index -> BOOLEAN]
      /\ stored \subseteq Sequence /\ s \in Nat /\ slot(s) \in Index
      /\ Capacity \in Nat \ {0} /\ Chunks \in Nat
  BY SlotInRing, WidthAssumption DEF IInv, TypeOK, Sequence
<1>2. base <= s /\ s < base + Capacity
  BY AcceptedInWindow DEF Store, mark_received, IInv
<1>3. stored' = stored \cup {s}
  BY DEF Store
<1>4. PICK b \in base .. base + Capacity :
        /\ \A t \in base .. b - 1 : ring[slot(t)]
        /\ b < base + Capacity => ~ ring[slot(b)]
        /\ base' = b
        /\ received' = [i \in Index |->
                          ring[i] /\ \A t \in base .. b - 1 : slot(t) # i]
  BY DEF Store, mark_received, Slide
<1>5. \A t \in base .. base + Capacity - 1 : ring[slot(t)] <=> t \in stored'
  <2> SUFFICES ASSUME NEW t \in base .. base + Capacity - 1
               PROVE  ring[slot(t)] <=> t \in stored'
    OBVIOUS
  <2>1. t \in Nat /\ slot(t) \in Index /\ t < s + Capacity /\ s < t + Capacity
    BY <1>1, <1>2, SlotInRing
  <2>2. received[slot(t)] <=> t \in stored
    BY DEF IInv, RingExact
  <2>3. CASE t = s
    BY <1>1, <1>3, <2>3
  <2>4. CASE t # s
    <3>1. slot(t) # slot(s)
      BY <1>1, <2>1, <2>4, SlotsDistinct
    <3>2. QED
      BY <1>1, <1>3, <2>1, <2>2, <2>4, <3>1
  <2>5. QED
    BY <2>3, <2>4
<1>6. \A t \in stored' : t < base + Capacity /\ t \in Nat /\ t < Chunks
  BY <1>1, <1>2, <1>3 DEF IInv, RingExact, Sequence
<1>7. \A t \in base .. b - 1 : t \in stored'
  BY <1>1, <1>4, <1>5
<1>8. b \in Nat /\ b <= Chunks
  <2>1. CASE b = base
    BY <1>1, <2>1
  <2>2. CASE b # base
    <3>1. b - 1 \in stored'
      BY <1>1, <1>7, <2>2
    <3>2. QED
      BY <1>1, <1>4, <1>6, <3>1
  <2>3. QED
    BY <2>1, <2>2
<1>9. TypeOK'
  <2>1. received' \in [Index -> BOOLEAN]
    BY <1>4
  <2>2. base' \in 0 .. Chunks
    BY <1>1, <1>4, <1>8
  <2>3. QED
    BY <1>1, <1>3, <2>1, <2>2 DEF TypeOK
<1>10. RingExact'
  <2>1. \A t \in Sequence : t < b => t \in stored'
    BY <1>1, <1>3, <1>7, <1>8 DEF IInv, RingExact, Sequence
  <2>2. b \notin stored'
    BY <1>1, <1>4, <1>5, <1>6
  <2>3. \A t \in stored' : t < b + Capacity
    BY <1>1, <1>4, <1>6, <1>8
  <2>4. ASSUME NEW t \in b .. b + Capacity - 1
        PROVE  received'[slot(t)] <=> t \in stored'
    <3>1. t \in Nat /\ slot(t) \in Index /\ base <= t /\ b <= t
      BY <1>1, <1>8, SlotInRing
    <3>2. CASE t < base + Capacity
      <4>1. \A u \in base .. b - 1 : slot(u) # slot(t)
        <5> SUFFICES ASSUME NEW u \in base .. b - 1, slot(u) = slot(t)
                     PROVE  FALSE
          OBVIOUS
        <5>1. /\ u \in Nat /\ u < t + Capacity /\ t < u + Capacity /\ u # t
          BY <1>1, <1>8, <3>1, <3>2
        <5>2. QED
          BY <3>1, <5>1, SlotsDistinct
      <4>2. received'[slot(t)] <=> ring[slot(t)]
        BY <1>1, <1>4, <3>1, <4>1
      <4>3. QED
        BY <1>1, <1>5, <3>1, <3>2, <4>2
    <3>3. CASE t >= base + Capacity
      <4>1. t \notin stored'
        BY <1>1, <1>6, <3>1, <3>3
      <4>2. /\ t - Capacity \in base .. b - 1 /\ t - Capacity \in Nat
            /\ t = (t - Capacity) + Capacity
        BY <1>1, <1>8, <3>1, <3>3
      <4>3. slot(t - Capacity) = slot(t)
        BY <4>2, SlotsReused
      <4>4. ~ received'[slot(t)]
        BY <1>4, <3>1, <4>2, <4>3
      <4>5. QED
        BY <4>1, <4>4
    <3>4. QED
      BY <1>1, <3>1, <3>2, <3>3
  <2>5. QED
    BY <1>4, <2>1, <2>2, <2>3, <2>4 DEF RingExact
<1>11. QED
  BY <1>9, <1>10 DEF IInv

\* One delivery preserves it.
LEMMA NextIInv == IInv /\ [Next]_vars => IInv'
<1> SUFFICES ASSUME IInv, [Next]_vars PROVE IInv'
  OBVIOUS
<1>1. ASSUME NEW s \in Sequence, Store(s) PROVE IInv'
  BY <1>1, StoreIInv
<1>2. CASE UNCHANGED vars
  BY <1>2 DEF vars, IInv, TypeOK, RingExact
<1>3. QED
  BY <1>1, <1>2 DEF Next, Ignore

\* TypeOK: in particular base_ never passes the last chunk, so it cannot wrap.
THEOREM TypeCorrect == Spec => []TypeOK
<1>1. IInv => TypeOK
  BY DEF IInv
<1>2. QED
  BY <1>1, InitIInv, NextIInv, PTL DEF Spec

\* RingExact: the ring says exactly what is on disk.
THEOREM RingIsExact == Spec => []RingExact
<1>1. IInv => RingExact
  BY DEF IInv
<1>2. QED
  BY <1>1, InitIInv, NextIInv, PTL DEF Spec

\* ClassifyExact: whatever arrives in whatever order, no chunk is acknowledged
\* unwritten and none is written twice, even where the sum in classify wraps.
THEOREM ClassificationSound == Spec => []ClassifyExact
<1>1. IInv => ClassifyExact
  <2> SUFFICES ASSUME IInv, NEW s \in Sequence
               PROVE  /\ classify(s) = "kDuplicate" => s \in stored
                      /\ classify(s) = "kAccepted" => s \notin stored
    BY DEF ClassifyExact
  <2>1. /\ base \in Nat /\ s \in Nat /\ base < Modulus /\ TypeOK
        /\ Limit = base + Capacity \/ Limit < base
        /\ Capacity \in Nat /\ Limit \in Int
    <3>1. base \in Nat /\ s \in Nat /\ base < Modulus /\ TypeOK
      BY WidthAssumption DEF IInv, TypeOK, Sequence
    <3>2. Limit \in Int
      BY <3>1, WidthAssumption DEF Limit
    <3>3. QED
      BY <3>1, <3>2, LimitValue, WidthAssumption
  <2>2. CASE s < base
    BY <2>2 DEF classify, IInv, RingExact
  <2>3. CASE s >= base /\ s < Limit
    <3>1. s \in base .. base + Capacity - 1
      BY <2>1, <2>3
    <3>2. received[slot(s)] <=> s \in stored
      BY <3>1 DEF IInv, RingExact
    <3>3. QED
      BY <2>1, <2>3, <3>2 DEF classify
  <2>4. CASE s >= base /\ s >= Limit
    BY <2>1, <2>4 DEF classify
  <2>5. QED
    BY <2>1, <2>2, <2>3, <2>4
<1>2. QED
  BY <1>1, InitIInv, NextIInv, PTL DEF Spec

\* ObeyingSenderHeard, for transfers that end at least one receive window
\* before the end of the sequence space: there the sum in classify cannot wrap.
THEOREM WindowNeverDeaf ==
  Chunks + Capacity <= Modulus => (Spec => []ObeyingSenderHeard)
<1> SUFFICES ASSUME Chunks + Capacity <= Modulus
             PROVE  Spec => []ObeyingSenderHeard
  OBVIOUS
<1>1. TypeOK => ObeyingSenderHeard
  <2> SUFFICES ASSUME TypeOK, NEW s \in Sequence, s < base + Capacity
               PROVE  classify(s) # "kOutsideWindow"
    BY DEF ObeyingSenderHeard
  <2>1. CASE s < base
    BY <2>1 DEF classify
  <2>2. CASE ~ (s < base)
    <3>1. /\ base \in Nat /\ s \in Nat /\ Capacity \in Nat /\ Modulus \in Nat \ {0}
          /\ base + Capacity < Modulus
      BY <2>2, WidthAssumption DEF TypeOK, Sequence
    <3>2. Limit = base + Capacity
      BY <3>1 DEF Limit
    <3>3. QED
      BY <2>2, <3>1, <3>2 DEF classify
  <2>3. QED
    BY <2>1, <2>2
<1>2. QED
  BY <1>1, TypeCorrect, PTL
=============================================================================
