------------------------- MODULE SenderWindowProofs -------------------------
(***************************************************************************)
(* The send window's invariants, and its refinement of SendWindowSpec, for *)
(* every capacity, set of deadlines and number of packets.                 *)
(***************************************************************************)
EXTENDS SenderWindow, RingArithmetic, TLAPS

\* Every sequence number has a slot.
LEMMA SlotInRing == \A s \in Nat : slot_for(s) \in Index
  BY DivMod, CapacityAssumption DEF slot_for, Index

\* Two packets less than Capacity apart never share a slot.
LEMMA SlotsDistinct ==
  \A s, t \in Nat :
    s < t + Capacity /\ t < s + Capacity /\ slot_for(s) = slot_for(t) => s = t
<1> SUFFICES ASSUME NEW s \in Nat, NEW t \in Nat,
                    s < t + Capacity, t < s + Capacity,
                    slot_for(s) = slot_for(t)
             PROVE  s = t
  OBVIOUS
<1>1. Capacity \in Nat \ {0} /\ s % Capacity = t % Capacity
  BY CapacityAssumption DEF slot_for
<1>2. CASE s <= t
  BY <1>1, <1>2, ModInjective
<1>3. CASE t <= s
  BY <1>1, <1>3, ModInjective
<1>4. QED
  BY <1>2, <1>3

\* prune returns part of the heap and never drops a live entry.
LEMMA PruneKeepsLive ==
  ASSUME NEW heap, NEW ring, NEW rest \in prune(heap, ring)
  PROVE  /\ rest \subseteq heap
         /\ \A e \in heap : is_live(e, ring) => e \in rest
  BY DEF prune

(***************************************************************************)
(* The inductive invariant.                                                *)
(***************************************************************************)
IInv ==
  /\ TypeOK
  /\ WindowExact
  /\ GenerationsUnique
  /\ NoGhostIsLive
  /\ TimerCoverage
  /\ HandedIsDisarmed

\* The empty window satisfies it.
LEMMA InitIInv == Init => IInv
<1> SUFFICES ASSUME Init PROVE IInv
  OBVIOUS
<1> USE DEF Init
<1>1. TypeOK
  BY DEF TypeOK, Slot
<1>2. WindowExact
  BY CapacityAssumption DEF WindowExact, Unacked
<1>3. GenerationsUnique
  BY DEF GenerationsUnique
<1>4. NoGhostIsLive /\ HandedIsDisarmed
  BY DEF NoGhostIsLive, HandedIsDisarmed, Live
<1>5. TimerCoverage
  BY DEF TimerCoverage, Unacked
<1>6. QED
  BY <1>1, <1>2, <1>3, <1>4, <1>5 DEF IInv

(***************************************************************************)
(* What each operation does to the unacknowledged packets and to the live  *)
(* timers: the facts both the invariant and the refinement rest on.        *)
(***************************************************************************)

\* Packets of the window, live entries included, have pairwise distinct slots.
LEMMA WindowSlots ==
  ASSUME IInv
  PROVE  /\ \A s, t \in Nat : InWindow(s) /\ InWindow(t)
                              /\ slot_for(s) = slot_for(t) => s = t
         /\ \A s \in Nat : InWindow(s) /\ can_send
                           => slot_for(s) # slot_for(next_sequence)
         /\ \A e \in Live : /\ InWindow(e.sequence) /\ e.sequence \in Nat
                            /\ e.sequence \in Unacked
  BY SlotsDistinct, CapacityAssumption
  DEF IInv, TypeOK, WindowExact, NoGhostIsLive, InWindow, can_send, Live,
      Entry, Unacked, is_live

\* on_sent adds one unacknowledged packet, with one live timer.
LEMMA OnSentEffect ==
  ASSUME IInv, NEW d \in Deadlines, on_sent(d)
  PROVE  /\ slots' \in [Index -> Slot]
         /\ Unacked' = Unacked \cup {next_sequence}
         /\ Live' = Live \cup
              {[deadline |-> d, sequence |-> next_sequence,
                generation |-> slots[slot_for(next_sequence)].generation + 1]}
<1> DEFINE n == next_sequence
           k == slot_for(n)
           new == [deadline |-> d, sequence |-> n,
                   generation |-> slots[k].generation + 1]
<1>1. /\ n \in Nat /\ base \in Nat /\ k \in Index /\ slots \in [Index -> Slot]
      /\ timers \subseteq Entry /\ base <= n /\ n < base + Capacity
  BY SlotInRing, CapacityAssumption
  DEF IInv, TypeOK, on_sent, can_send, WindowExact
<1>2. /\ slots' = [slots EXCEPT ![k] = [outstanding |-> TRUE,
                                        generation |-> slots[k].generation + 1]]
      /\ timers' = timers \cup {new} /\ base' = base /\ next_sequence' = n + 1
  BY DEF on_sent, BumpedRing
<1>3. slots' \in [Index -> Slot]
  BY <1>1, <1>2 DEF Slot
<1>4. Unacked' = Unacked \cup {n}
  <2>1. \A s \in base .. n - 1 : slot_for(s) # k /\ slot_for(s) \in Index
    BY <1>1, WindowSlots, SlotInRing DEF InWindow, on_sent
  <2>2. slots'[k].outstanding
    BY <1>1, <1>2
  <2>3. \A s \in base .. n - 1 : slots'[slot_for(s)] = slots[slot_for(s)]
    BY <1>1, <1>2, <2>1
  <2>4. Unacked' = {s \in base .. n : slots'[slot_for(s)].outstanding}
    BY <1>1, <1>2 DEF Unacked
  <2>5. QED
    BY <1>1, <2>2, <2>3, <2>4 DEF Unacked
<1>5. Live' = Live \cup {new}
  <2>1. is_live(new, slots')
    BY <1>1, <1>2 DEF is_live
  <2>2. ASSUME NEW e \in timers
        PROVE  is_live(e, slots') <=> is_live(e, slots)
    <3>1. e \in Entry /\ slot_for(e.sequence) \in Index
      BY <1>1, SlotInRing DEF Entry
    <3>2. CASE slot_for(e.sequence) = k
      <4>1. ~ is_live(e, slots)
        BY <3>2, WindowSlots DEF Live, on_sent
      <4>2. e.generation <= slots[k].generation /\ slots[k].generation \in Nat
        BY <1>1, <3>2 DEF IInv, GenerationsUnique, Slot
      <4>3. slots'[k].generation = slots[k].generation + 1
        BY <1>1, <1>2
      <4>4. e.generation \in Nat
        BY <3>1 DEF Entry
      <4>5. ~ is_live(e, slots')
        BY <3>2, <4>2, <4>3, <4>4 DEF is_live
      <4>6. QED
        BY <4>1, <4>5
    <3>3. CASE slot_for(e.sequence) # k
      BY <1>1, <1>2, <3>1, <3>3 DEF is_live
    <3>4. QED
      BY <3>2, <3>3
  <2>3. QED
    BY <1>2, <2>1, <2>2 DEF Live
<1>6. QED
  BY <1>3, <1>4, <1>5

\* on_ack retires exactly the acknowledged packet and its timer, and slides
\* the base to the oldest packet that is left.
LEMMA OnAckEffect ==
  ASSUME IInv, NEW s \in Nat, on_ack(s)
  PROVE  /\ slots' \in [Index -> Slot]
         /\ base' \in Nat /\ base <= base' /\ base' <= next_sequence
         /\ base' < next_sequence => slots'[slot_for(base')].outstanding
         /\ s \in Unacked
         /\ Unacked' = Unacked \ {s}
         /\ Live' = {e \in Live : e.sequence # s}
<1> DEFINE k == slot_for(s)
           ring == BumpedRing(slots, s, FALSE)
<1>1. /\ next_sequence \in Nat /\ base \in Nat /\ k \in Index
      /\ slots \in [Index -> Slot] /\ timers \subseteq Entry
      /\ base <= next_sequence /\ InWindow(s) /\ slots[k].outstanding
  BY SlotInRing DEF IInv, TypeOK, on_ack, WindowExact
<1>2. /\ slots' = [slots EXCEPT ![k] = [outstanding |-> FALSE,
                                        generation |-> slots[k].generation + 1]]
      /\ timers' = timers /\ next_sequence' = next_sequence
  BY DEF on_ack, BumpedRing
<1>3. PICK b \in base .. next_sequence :
        /\ \A t \in base .. b - 1 : ~ slots'[slot_for(t)].outstanding
        /\ b < next_sequence => slots'[slot_for(b)].outstanding
        /\ base' = b
  BY DEF on_ack, Slide
<1>4. slots' \in [Index -> Slot] /\ ~ slots'[k].outstanding
  BY <1>1, <1>2 DEF Slot
<1>5. ASSUME NEW t \in Nat, InWindow(t), t # s
      PROVE  slots'[slot_for(t)] = slots[slot_for(t)]
  <2>1. slot_for(t) # k /\ slot_for(t) \in Index
    BY <1>1, <1>5, WindowSlots, SlotInRing
  <2>2. QED
    BY <1>1, <1>2, <2>1
<1>6. s \in Unacked
  BY <1>1 DEF Unacked, InWindow
<1>7. Unacked' = Unacked \ {s}
  <2>1. ASSUME NEW t \in Unacked' PROVE t \in Unacked \ {s}
    <3>1. t \in b .. next_sequence - 1 /\ slots'[slot_for(t)].outstanding
      BY <2>1, <1>2, <1>3 DEF Unacked
    <3>2. t \in Nat /\ InWindow(t) /\ t # s
      BY <1>1, <1>3, <1>4, <3>1 DEF InWindow
    <3>3. QED
      BY <1>1, <1>5, <3>1, <3>2 DEF Unacked, InWindow
  <2>2. ASSUME NEW t \in Unacked, t # s PROVE t \in Unacked'
    <3>1. /\ t \in base .. next_sequence - 1 /\ slots[slot_for(t)].outstanding
          /\ t \in Nat /\ InWindow(t)
      BY <1>1 DEF Unacked, InWindow
    <3>2. slots'[slot_for(t)].outstanding
      BY <1>5, <2>2, <3>1
    <3>3. t \in b .. next_sequence - 1
      BY <1>1, <1>3, <3>1, <3>2
    <3>4. QED
      BY <1>2, <1>3, <3>2, <3>3 DEF Unacked
  <2>3. QED
    BY <2>1, <2>2
<1>8. Live' = {e \in Live : e.sequence # s}
  <2>1. ASSUME NEW e \in timers
        PROVE  is_live(e, slots') <=> is_live(e, slots) /\ e.sequence # s
    <3>1. e \in Entry /\ e.sequence \in Nat /\ slot_for(e.sequence) \in Index
      BY <1>1, SlotInRing DEF Entry
    <3>2. CASE slot_for(e.sequence) = k
      <4>1. ~ is_live(e, slots')
        BY <1>4, <3>2 DEF is_live
      <4>2. is_live(e, slots) => e.sequence = s
        BY <1>1, <3>2, WindowSlots DEF Live
      <4>3. QED
        BY <4>1, <4>2
    <3>3. CASE slot_for(e.sequence) # k
      BY <1>1, <1>2, <3>1, <3>3 DEF is_live
    <3>4. QED
      BY <3>2, <3>3
  <2>2. QED
    BY <1>2, <2>1 DEF Live
<1>9. QED
  BY <1>1, <1>3, <1>4, <1>6, <1>7, <1>8

\* expire disarms exactly the live timers that are due.
LEMMA ExpireEffect ==
  ASSUME IInv, NEW now \in Deadlines, expire(now)
  PROVE  /\ slots' \in [Index -> Slot]
         /\ \A i \in Index : /\ slots'[i].outstanding <=> slots[i].outstanding
                             /\ slots[i].generation <= slots'[i].generation
         /\ timers' \subseteq timers
         /\ Unacked' = Unacked
         /\ Live' = {e \in Live : e.deadline > now}
<1>1. /\ next_sequence \in Nat /\ base \in Nat
      /\ slots \in [Index -> Slot] /\ timers \subseteq Entry
  BY DEF IInv, TypeOK
<1>2. /\ slots' = [i \in Index |->
                     IF \E s \in Due(now) : slot_for(s) = i
                     THEN [slots[i] EXCEPT !.generation = @ + 1]
                     ELSE slots[i]]
      /\ timers' \in prune({e \in timers : e.deadline > now}, slots')
      /\ base' = base /\ next_sequence' = next_sequence
  BY DEF expire
<1>3. /\ slots' \in [Index -> Slot]
      /\ \A i \in Index : /\ slots'[i].outstanding <=> slots[i].outstanding
                          /\ slots[i].generation <= slots'[i].generation
  BY <1>1, <1>2 DEF Slot
<1>4. /\ timers' \subseteq {e \in timers : e.deadline > now}
      /\ \A e \in timers : e.deadline > now /\ is_live(e, slots') => e \in timers'
  BY <1>2, PruneKeepsLive
<1>5. Unacked' = Unacked
  <2>1. \A s \in base .. next_sequence - 1 : slot_for(s) \in Index
    BY <1>1, SlotInRing
  <2>2. QED
    BY <1>2, <1>3, <2>1 DEF Unacked
<1>6. ASSUME NEW e \in timers, e.deadline > now
      PROVE  is_live(e, slots') <=> is_live(e, slots)
  <2>1. /\ e \in Entry /\ e.sequence \in Nat /\ e.generation \in Nat
        /\ slot_for(e.sequence) \in Index
    BY <1>1, SlotInRing DEF Entry
  <2> DEFINE i == slot_for(e.sequence)
  <2>2. CASE \E s \in Due(now) : slot_for(s) = i
    <3>1. PICK f \in Live : f.deadline <= now /\ slot_for(f.sequence) = i
      BY <2>2 DEF Due
    <3>2. e # f
      <4>1. e.deadline \in Nat /\ f.deadline \in Nat /\ now \in Nat
        BY <1>1, <2>1, DeadlinesAssumption DEF Live, Entry
      <4>2. QED
        BY <1>6, <3>1, <4>1
    <3>3. e.generation # slots[i].generation
      BY <3>1, <3>2 DEF IInv, GenerationsUnique, Live, is_live
    <3>4. e.generation <= slots[i].generation /\ slots[i].generation \in Nat
      BY <1>1, <2>1 DEF IInv, GenerationsUnique, Slot
    <3>5. slots'[i].generation = slots[i].generation + 1
      BY <1>1, <1>2, <2>1, <2>2 DEF Slot
    <3>6. QED
      BY <2>1, <3>3, <3>4, <3>5 DEF is_live
  <2>3. CASE ~ \E s \in Due(now) : slot_for(s) = i
    BY <1>2, <2>1, <2>3 DEF is_live
  <2>4. QED
    BY <2>2, <2>3
<1>7. Live' = {e \in Live : e.deadline > now}
  BY <1>4, <1>6 DEF Live
<1>8. QED
  BY <1>3, <1>4, <1>5, <1>7

\* reschedule replaces the packet's timer and leaves the others alone.
LEMMA RescheduleEffect ==
  ASSUME IInv, NEW s \in Nat, NEW d \in Deadlines, reschedule(s, d)
  PROVE  /\ slots' \in [Index -> Slot]
         /\ \A i \in Index : /\ slots'[i].outstanding <=> slots[i].outstanding
                             /\ slots[i].generation <= slots'[i].generation
         /\ slots'[slot_for(s)].generation = slots[slot_for(s)].generation + 1
         /\ s \in Unacked
         /\ Unacked' = Unacked
         /\ Live' = {e \in Live : e.sequence # s} \cup
              {[deadline |-> d, sequence |-> s,
                generation |-> slots[slot_for(s)].generation + 1]}
<1> DEFINE k == slot_for(s)
           new == [deadline |-> d, sequence |-> s,
                   generation |-> slots[k].generation + 1]
<1>1. /\ next_sequence \in Nat /\ base \in Nat /\ k \in Index
      /\ slots \in [Index -> Slot] /\ timers \subseteq Entry
      /\ InWindow(s) /\ slots[k].outstanding
  BY SlotInRing DEF IInv, TypeOK, reschedule
<1>2. /\ slots' = [slots EXCEPT ![k] = [outstanding |-> TRUE,
                                        generation |-> slots[k].generation + 1]]
      /\ timers' = timers \cup {new}
      /\ base' = base /\ next_sequence' = next_sequence
  BY DEF reschedule, BumpedRing
<1>3. /\ slots' \in [Index -> Slot]
      /\ slots'[k].generation = slots[k].generation + 1
      /\ \A i \in Index : /\ slots'[i].outstanding <=> slots[i].outstanding
                          /\ slots[i].generation <= slots'[i].generation
  BY <1>1, <1>2 DEF Slot
<1>4. s \in Unacked
  BY <1>1 DEF Unacked, InWindow
<1>5. Unacked' = Unacked
  <2>1. \A t \in base .. next_sequence - 1 : slot_for(t) \in Index
    BY <1>1, SlotInRing
  <2>2. QED
    BY <1>2, <1>3, <2>1 DEF Unacked
<1>6. is_live(new, slots')
  BY <1>1, <1>2 DEF is_live
<1>7. ASSUME NEW e \in timers
      PROVE  is_live(e, slots') <=> is_live(e, slots) /\ e.sequence # s
  <2>1. /\ e \in Entry /\ e.sequence \in Nat /\ e.generation \in Nat
        /\ slot_for(e.sequence) \in Index
    BY <1>1, SlotInRing DEF Entry
  <2>2. CASE slot_for(e.sequence) = k
    <3>1. e.generation <= slots[k].generation /\ slots[k].generation \in Nat
      BY <1>1, <2>2 DEF IInv, GenerationsUnique, Slot
    <3>2. ~ is_live(e, slots')
      BY <1>3, <2>1, <2>2, <3>1 DEF is_live
    <3>3. is_live(e, slots) => e.sequence = s
      BY <1>1, <2>2, WindowSlots DEF Live
    <3>4. QED
      BY <3>2, <3>3
  <2>3. CASE slot_for(e.sequence) # k
    BY <1>1, <1>2, <2>1, <2>3 DEF is_live
  <2>4. QED
    BY <2>2, <2>3
<1>8. Live' = {e \in Live : e.sequence # s} \cup {new}
  BY <1>2, <1>6, <1>7 DEF Live
<1>9. QED
  BY <1>3, <1>4, <1>5, <1>8

\* Pruning removes ghosts only.
LEMMA EarliestDeadlineEffect ==
  ASSUME earliest_deadline
  PROVE  timers' \subseteq timers /\ Unacked' = Unacked /\ Live' = Live
<1>1. /\ timers' \subseteq timers
      /\ \A e \in timers : is_live(e, slots) => e \in timers'
  BY PruneKeepsLive DEF earliest_deadline
<1>2. QED
  BY <1>1 DEF earliest_deadline, Unacked, Live

(***************************************************************************)
(* Every operation preserves the invariant.                                *)
(***************************************************************************)

\* Sending.
LEMMA OnSentIInv ==
  ASSUME IInv, NEW d \in Deadlines, on_sent(d)
  PROVE  IInv'
<1> DEFINE n == next_sequence
           k == slot_for(n)
           new == [deadline |-> d, sequence |-> n,
                   generation |-> slots[k].generation + 1]
<1>1. /\ n \in Nat /\ base \in Nat /\ k \in Index /\ slots \in [Index -> Slot]
      /\ timers \subseteq Entry /\ handed \subseteq Nat
      /\ base <= n /\ n < base + Capacity /\ Capacity \in Nat
      /\ slots[k].generation \in Nat
  BY SlotInRing, CapacityAssumption
  DEF IInv, TypeOK, on_sent, can_send, WindowExact, Slot
<1>2. /\ slots' = [slots EXCEPT ![k] = [outstanding |-> TRUE,
                                        generation |-> slots[k].generation + 1]]
      /\ timers' = timers \cup {new} /\ base' = base /\ next_sequence' = n + 1
      /\ handed' = handed
  BY DEF on_sent, BumpedRing
<1>3. /\ slots' \in [Index -> Slot]
      /\ Unacked' = Unacked \cup {n}
      /\ Live' = Live \cup {new}
  BY OnSentEffect
<1>4. TypeOK'
  <2>1. armed' \subseteq Nat \X Deadlines
    BY <1>1 DEF IInv, TypeOK, on_sent
  <2>2. QED
    BY <1>1, <1>2, <1>3, <2>1 DEF TypeOK, Entry
<1>5. WindowExact'
  <2>1. base' < next_sequence' => slots'[slot_for(base')].outstanding
    <3>1. base < n => slots[slot_for(base)].outstanding
      BY <1>1 DEF IInv, WindowExact
    <3>2. QED
      BY <1>1, <1>2, <3>1, SlotInRing
  <2>2. \A i \in Index : slots'[i].outstanding =>
          \E s \in Unacked' : slot_for(s) = i
    BY <1>1, <1>2, <1>3 DEF IInv, WindowExact
  <2>3. QED
    BY <1>1, <1>2, <2>1, <2>2 DEF WindowExact
<1>6. GenerationsUnique'
  <2>1. ASSUME NEW e \in timers'
        PROVE  /\ e.sequence < next_sequence'
               /\ e.generation <= slots'[slot_for(e.sequence)].generation
               /\ e # new /\ slot_for(e.sequence) = k =>
                    e.generation # new.generation
    <3>1. CASE e = new
      BY <1>1, <1>2, <3>1
    <3>2. CASE e \in timers
      <4>1. /\ e.sequence \in Nat /\ e.generation \in Nat
            /\ slot_for(e.sequence) \in Index
        BY <1>1, <3>2, SlotInRing DEF Entry
      <4>2. /\ e.sequence < n
            /\ e.generation <= slots[slot_for(e.sequence)].generation
            /\ slots[slot_for(e.sequence)].generation \in Nat
        BY <1>1, <3>2, <4>1 DEF IInv, GenerationsUnique, Slot
      <4>3. QED
        BY <1>1, <1>2, <4>1, <4>2
    <3>3. QED
      BY <1>2, <3>1, <3>2
  <2>2. ASSUME NEW e \in timers', NEW f \in timers',
               slot_for(f.sequence) = slot_for(e.sequence),
               f.generation = e.generation
        PROVE  f = e
    <3>1. CASE e \in timers /\ f \in timers
      BY <2>2, <3>1 DEF IInv, GenerationsUnique
    <3>2. CASE e = new \/ f = new
      BY <2>1, <2>2, <3>2
    <3>3. QED
      BY <1>2, <3>1, <3>2
  <2>3. \A s \in handed' : s < next_sequence'
    BY <1>1, <1>2 DEF IInv, GenerationsUnique
  <2>4. QED
    BY <2>1, <2>2, <2>3 DEF GenerationsUnique
<1>7. ASSUME NEW e \in Live
      PROVE  /\ base <= e.sequence /\ e.sequence < n /\ e.sequence \in Nat
             /\ e.sequence \notin handed
  BY <1>1 DEF IInv, NoGhostIsLive, HandedIsDisarmed, Live, Entry, InWindow
<1>8. NoGhostIsLive'
  <2>1. ASSUME NEW e \in Live' PROVE InWindow(e.sequence)'
    BY <1>1, <1>2, <1>3, <1>7 DEF InWindow
  <2>2. ASSUME NEW e \in Live', NEW f \in Live', f.sequence = e.sequence
        PROVE  f = e
    <3>1. \A g \in Live : g.sequence # n
      BY <1>1, <1>7
    <3>2. QED
      BY <1>3, <2>2, <3>1 DEF IInv, NoGhostIsLive
  <2>3. QED
    BY <2>1, <2>2 DEF NoGhostIsLive
<1>9. TimerCoverage'
  <2>1. new \in Live' /\ new.sequence = n /\ Live \subseteq Live'
    BY <1>3
  <2>2. QED
    BY <1>2, <1>3, <2>1 DEF IInv, TimerCoverage
<1>10. HandedIsDisarmed'
  <2>1. n \notin handed
    BY <1>1 DEF IInv, GenerationsUnique
  <2>2. QED
    BY <1>2, <1>3, <1>7, <2>1 DEF HandedIsDisarmed
<1>11. QED
  BY <1>4, <1>5, <1>6, <1>8, <1>9, <1>10 DEF IInv

\* Acknowledging.
LEMMA OnAckIInv ==
  ASSUME IInv, NEW s \in Nat, on_ack(s)
  PROVE  IInv'
<1> DEFINE k == slot_for(s)
<1>1. /\ next_sequence \in Nat /\ base \in Nat /\ k \in Index
      /\ slots \in [Index -> Slot] /\ timers \subseteq Entry
      /\ handed \subseteq Nat /\ Capacity \in Nat
      /\ base <= next_sequence /\ next_sequence <= base + Capacity
  BY SlotInRing, CapacityAssumption DEF IInv, TypeOK, WindowExact
<1>2. /\ slots' = [slots EXCEPT ![k] = [outstanding |-> FALSE,
                                        generation |-> slots[k].generation + 1]]
      /\ timers' = timers /\ next_sequence' = next_sequence /\ handed' = handed
  BY DEF on_ack, BumpedRing
<1>3. /\ slots' \in [Index -> Slot]
      /\ base' \in Nat /\ base <= base' /\ base' <= next_sequence
      /\ base' < next_sequence => slots'[slot_for(base')].outstanding
      /\ s \in Unacked
      /\ Unacked' = Unacked \ {s}
      /\ Live' = {e \in Live : e.sequence # s}
  BY OnAckEffect
<1>4. TypeOK'
  <2>1. armed' \subseteq Nat \X Deadlines
    BY <1>1 DEF IInv, TypeOK, on_ack, Disarmed
  <2>2. QED
    BY <1>1, <1>2, <1>3, <2>1 DEF TypeOK
<1>5. WindowExact'
  <2>1. ASSUME NEW i \in Index, slots'[i].outstanding
        PROVE  \E t \in Unacked' : slot_for(t) = i
    <3>1. i # k /\ slots[i].outstanding
      BY <1>1, <1>2, <2>1
    <3>2. QED
      BY <1>3, <3>1 DEF IInv, WindowExact
  <2>2. next_sequence' <= base' + Capacity
    <3>1. PICK b \in Nat : b = base'
      BY <1>3
    <3>2. base <= b
      BY <1>3, <3>1
    <3>3. next_sequence <= b + Capacity
      BY <1>1, <3>2
    <3>4. QED
      BY <1>2, <3>1, <3>3
  <2>3. QED
    BY <1>2, <1>3, <2>1, <2>2 DEF WindowExact
<1>6. GenerationsUnique'
  <2>1. ASSUME NEW e \in timers
        PROVE  e.generation <= slots'[slot_for(e.sequence)].generation
    <3>1. /\ e.generation \in Nat /\ slot_for(e.sequence) \in Index
          /\ slots[slot_for(e.sequence)].generation \in Nat
          /\ e.generation <= slots[slot_for(e.sequence)].generation
      BY <1>1, SlotInRing DEF Entry, Slot, IInv, GenerationsUnique
    <3>2. QED
      BY <1>1, <1>2, <3>1
  <2>2. QED
    BY <1>2, <2>1 DEF IInv, GenerationsUnique
<1>7. NoGhostIsLive'
  <2>1. ASSUME NEW e \in Live' PROVE InWindow(e.sequence)'
    <3>1. e \in Live /\ e.sequence # s
      BY <1>3
    <3>2. e.sequence \in Unacked'
      BY <1>3, <3>1, WindowSlots
    <3>3. QED
      BY <1>1, <1>2, <1>3, <3>2 DEF Unacked, InWindow
  <2>2. QED
    BY <1>3, <2>1 DEF IInv, NoGhostIsLive
<1>8. TimerCoverage'
  BY <1>2, <1>3 DEF IInv, TimerCoverage
<1>9. HandedIsDisarmed'
  BY <1>2, <1>3 DEF IInv, HandedIsDisarmed
<1>10. QED
  BY <1>4, <1>5, <1>6, <1>7, <1>8, <1>9 DEF IInv

\* Expiring.
LEMMA ExpireIInv ==
  ASSUME IInv, NEW now \in Deadlines, expire(now)
  PROVE  IInv'
<1>1. /\ next_sequence \in Nat /\ base \in Nat
      /\ slots \in [Index -> Slot] /\ timers \subseteq Entry
      /\ handed \subseteq Nat
  BY DEF IInv, TypeOK
<1>2. /\ base' = base /\ next_sequence' = next_sequence
      /\ handed' = handed \cup Due(now)
  BY DEF expire
<1>3. /\ slots' \in [Index -> Slot]
      /\ \A i \in Index : /\ slots'[i].outstanding <=> slots[i].outstanding
                          /\ slots[i].generation <= slots'[i].generation
      /\ timers' \subseteq timers
      /\ Unacked' = Unacked
      /\ Live' = {e \in Live : e.deadline > now}
  BY ExpireEffect
<1>4. \A t \in Due(now) : t \in Nat /\ t < next_sequence
  BY <1>1 DEF Due, Live, Entry, IInv, GenerationsUnique
<1>5. TypeOK'
  <2>1. armed' \subseteq Nat \X Deadlines
    BY <1>1 DEF IInv, TypeOK, expire, Disarmed
  <2>2. QED
    BY <1>1, <1>2, <1>3, <1>4, <2>1 DEF TypeOK
<1>6. WindowExact'
  BY <1>1, <1>2, <1>3, SlotInRing DEF IInv, WindowExact
<1>7. GenerationsUnique'
  <2>1. ASSUME NEW e \in timers'
        PROVE  e.generation <= slots'[slot_for(e.sequence)].generation
    <3>1. /\ e.generation \in Nat /\ slot_for(e.sequence) \in Index
          /\ slots[slot_for(e.sequence)].generation \in Nat
          /\ e.generation <= slots[slot_for(e.sequence)].generation
      BY <1>1, <1>3, SlotInRing DEF Entry, Slot, IInv, GenerationsUnique
    <3>2. slots'[slot_for(e.sequence)].generation \in Nat
      BY <1>3, <3>1 DEF Slot
    <3>3. QED
      BY <1>3, <3>1, <3>2
  <2>2. QED
    BY <1>2, <1>3, <1>4, <2>1 DEF IInv, GenerationsUnique
<1>8. NoGhostIsLive'
  BY <1>2, <1>3 DEF IInv, NoGhostIsLive, InWindow
<1>9. TimerCoverage'
  <2>1. ASSUME NEW t \in Unacked', t \notin handed'
        PROVE  \E e \in Live' : e.sequence = t
    <3>1. PICK e \in Live : e.sequence = t
      BY <1>2, <1>3, <2>1 DEF IInv, TimerCoverage
    <3>2. ~ (e.deadline <= now)
      BY <1>2, <2>1, <3>1 DEF Due
    <3>3. e.deadline \in Nat /\ now \in Nat
      BY <1>1, DeadlinesAssumption DEF Live, Entry
    <3>4. QED
      BY <1>3, <3>1, <3>2, <3>3
  <2>2. QED
    BY <2>1 DEF TimerCoverage
<1>10. HandedIsDisarmed'
  <2>1. ASSUME NEW e \in Live' PROVE e.sequence \notin handed'
    <3>1. e \in Live /\ e.deadline > now /\ e.sequence \notin handed
      BY <1>3 DEF IInv, HandedIsDisarmed
    <3>2. e.sequence \notin Due(now)
      <4>1. SUFFICES ASSUME NEW f \in Live, f.deadline <= now,
                            f.sequence = e.sequence
                     PROVE  FALSE
        BY DEF Due
      <4>2. f = e
        BY <3>1, <4>1 DEF IInv, NoGhostIsLive
      <4>3. e.deadline \in Nat /\ now \in Nat
        BY <1>1, <3>1, DeadlinesAssumption DEF Live, Entry
      <4>4. QED
        BY <3>1, <4>1, <4>2, <4>3
    <3>3. QED
      BY <1>2, <3>1, <3>2
  <2>2. QED
    BY <2>1 DEF HandedIsDisarmed
<1>11. QED
  BY <1>5, <1>6, <1>7, <1>8, <1>9, <1>10 DEF IInv

\* Re-arming.
LEMMA RescheduleIInv ==
  ASSUME IInv, NEW s \in Nat, NEW d \in Deadlines, reschedule(s, d)
  PROVE  IInv'
<1> DEFINE k == slot_for(s)
           new == [deadline |-> d, sequence |-> s,
                   generation |-> slots[k].generation + 1]
<1>1. /\ next_sequence \in Nat /\ base \in Nat /\ k \in Index
      /\ slots \in [Index -> Slot] /\ timers \subseteq Entry
      /\ handed \subseteq Nat /\ slots[k].generation \in Nat
      /\ base <= s /\ s < next_sequence
  BY SlotInRing DEF IInv, TypeOK, Slot, reschedule, InWindow
<1>2. /\ base' = base /\ next_sequence' = next_sequence
      /\ timers' = timers \cup {new} /\ handed' = handed \ {s}
  BY DEF reschedule
<1>3. /\ slots' \in [Index -> Slot]
      /\ \A i \in Index : /\ slots'[i].outstanding <=> slots[i].outstanding
                          /\ slots[i].generation <= slots'[i].generation
      /\ slots'[k].generation = slots[k].generation + 1
      /\ Unacked' = Unacked
      /\ Live' = {e \in Live : e.sequence # s} \cup {new}
  BY RescheduleEffect
<1>4. TypeOK'
  <2>1. armed' \subseteq Nat \X Deadlines
    BY <1>1 DEF IInv, TypeOK, reschedule, Disarmed
  <2>2. QED
    BY <1>1, <1>2, <1>3, <2>1 DEF TypeOK, Entry
<1>5. WindowExact'
  BY <1>1, <1>2, <1>3, SlotInRing DEF IInv, WindowExact
<1>6. GenerationsUnique'
  <2>1. ASSUME NEW e \in timers'
        PROVE  /\ e.sequence < next_sequence'
               /\ e.generation <= slots'[slot_for(e.sequence)].generation
               /\ e # new /\ slot_for(e.sequence) = k =>
                    e.generation # new.generation
    <3>1. CASE e = new
      BY <1>1, <1>2, <1>3, <3>1
    <3>2. CASE e \in timers
      <4>1. /\ e.sequence \in Nat /\ e.generation \in Nat
            /\ slot_for(e.sequence) \in Index
        BY <1>1, <3>2, SlotInRing DEF Entry
      <4>2. /\ e.sequence < next_sequence
            /\ e.generation <= slots[slot_for(e.sequence)].generation
            /\ slots[slot_for(e.sequence)].generation \in Nat
            /\ slots'[slot_for(e.sequence)].generation \in Nat
        BY <1>1, <1>3, <3>2, <4>1 DEF IInv, GenerationsUnique, Slot
      <4>3. QED
        BY <1>1, <1>2, <1>3, <4>1, <4>2
    <3>3. QED
      BY <1>2, <3>1, <3>2
  <2>2. ASSUME NEW e \in timers', NEW f \in timers',
               slot_for(f.sequence) = slot_for(e.sequence),
               f.generation = e.generation
        PROVE  f = e
    <3>1. CASE e \in timers /\ f \in timers
      BY <2>2, <3>1 DEF IInv, GenerationsUnique
    <3>2. CASE e = new \/ f = new
      BY <2>1, <2>2, <3>2
    <3>3. QED
      BY <1>2, <3>1, <3>2
  <2>3. \A t \in handed' : t < next_sequence'
    BY <1>1, <1>2 DEF IInv, GenerationsUnique
  <2>4. QED
    BY <2>1, <2>2, <2>3 DEF GenerationsUnique
<1>7. new.sequence = s /\ new \in Live'
  BY <1>3
<1>8. NoGhostIsLive'
  <2>1. ASSUME NEW e \in Live' PROVE InWindow(e.sequence)'
    BY <1>1, <1>2, <1>3, <1>7 DEF IInv, NoGhostIsLive, InWindow
  <2>2. ASSUME NEW e \in Live', NEW f \in Live', f.sequence = e.sequence
        PROVE  f = e
    BY <1>3, <1>7, <2>2 DEF IInv, NoGhostIsLive
  <2>3. QED
    BY <2>1, <2>2 DEF NoGhostIsLive
<1>9. TimerCoverage'
  <2>1. ASSUME NEW t \in Unacked, t # s
        PROVE  t \in handed' \/ \E e \in Live' : e.sequence = t
    BY <1>2, <1>3, <2>1 DEF IInv, TimerCoverage
  <2>2. QED
    BY <1>3, <1>7, <2>1 DEF TimerCoverage
<1>10. HandedIsDisarmed'
  BY <1>2, <1>3, <1>7 DEF IInv, HandedIsDisarmed
<1>11. QED
  BY <1>4, <1>5, <1>6, <1>8, <1>9, <1>10 DEF IInv

\* One step of the window preserves the invariant.
LEMMA NextIInv == IInv /\ [Next]_vars => IInv'
<1> SUFFICES ASSUME IInv, [Next]_vars PROVE IInv'
  OBVIOUS
<1>1. ASSUME NEW d \in Deadlines, on_sent(d) PROVE IInv'
  BY <1>1, OnSentIInv
<1>2. ASSUME NEW s \in SequenceNumbers, on_ack(s) PROVE IInv'
  BY <1>2, OnAckIInv, BoundsAssumption DEF SequenceNumbers
<1>3. ASSUME earliest_deadline PROVE IInv'
  <2>1. /\ timers' \subseteq timers /\ Unacked' = Unacked /\ Live' = Live
        /\ UNCHANGED <<base, next_sequence, slots, handed, armed>>
    BY <1>3, EarliestDeadlineEffect DEF earliest_deadline
  <2>2. TypeOK' /\ WindowExact' /\ GenerationsUnique'
    BY <2>1 DEF IInv, TypeOK, WindowExact, GenerationsUnique
  <2>3. NoGhostIsLive' /\ TimerCoverage' /\ HandedIsDisarmed'
    BY <2>1 DEF IInv, NoGhostIsLive, TimerCoverage, HandedIsDisarmed, InWindow
  <2>4. QED
    BY <2>2, <2>3 DEF IInv
<1>4. ASSUME NEW now \in Deadlines, expire(now) PROVE IInv'
  BY <1>4, ExpireIInv
<1>5. ASSUME NEW s \in SequenceNumbers, NEW d \in Deadlines, reschedule(s, d)
      PROVE  IInv'
  BY <1>5, RescheduleIInv, BoundsAssumption DEF SequenceNumbers
<1>6. ASSUME NEW s \in SequenceNumbers, reschedule_ignored(s) PROVE IInv'
  <2>1. /\ handed' = handed \ {s}
        /\ UNCHANGED <<base, next_sequence, slots, timers, armed>>
    BY <1>6 DEF reschedule_ignored
  <2>2. Unacked' = Unacked /\ Live' = Live
    BY <2>1 DEF Unacked, Live
  <2>3. TypeOK' /\ WindowExact' /\ GenerationsUnique'
    BY <2>1, <2>2 DEF IInv, TypeOK, WindowExact, GenerationsUnique
  <2>4. s \notin Unacked
    BY <1>6 DEF reschedule_ignored, Unacked, InWindow, IInv, TypeOK
  <2>5. NoGhostIsLive' /\ TimerCoverage' /\ HandedIsDisarmed'
    BY <2>1, <2>2, <2>4
    DEF IInv, NoGhostIsLive, TimerCoverage, HandedIsDisarmed, InWindow
  <2>6. QED
    BY <2>3, <2>5 DEF IInv
<1>7. CASE UNCHANGED vars
  BY <1>7 DEF vars, IInv, TypeOK, WindowExact, GenerationsUnique, NoGhostIsLive,
              TimerCoverage, HandedIsDisarmed, Unacked, Live, InWindow
<1>8. QED
  BY <1>1, <1>2, <1>3, <1>4, <1>5, <1>6, <1>7 DEF Next, on_ack_ignored

\* The invariant holds in every reachable state.
LEMMA InvariantHolds == Spec => []IInv
  BY InitIInv, NextIInv, PTL DEF Spec

\* TypeOK: the members keep their types (window.hpp, the private section).
THEOREM TypeCorrect == Spec => []TypeOK
<1>1. IInv => TypeOK
  BY DEF IInv
<1>2. QED
  BY <1>1, InvariantHolds, PTL

\* WindowExact: whatever ACKs arrive, the window stays within the ring and its
\* base is the oldest unacknowledged packet (on_ack's sliding loop).
THEOREM WindowIsExact == Spec => []WindowExact
<1>1. IInv => WindowExact
  BY DEF IInv
<1>2. QED
  BY <1>1, InvariantHolds, PTL

\* GenerationsUnique: the heap entries of a slot have different generations, none
\* ahead of the slot's counter, however often on_sent and reschedule arm it.
THEOREM GenerationsNeverReused == Spec => []GenerationsUnique
<1>1. IInv => GenerationsUnique
  BY DEF IInv
<1>2. QED
  BY <1>1, InvariantHolds, PTL

\* NoGhostIsLive: generation counters make lazy deletion sound (is_live never
\* takes an entry of an earlier packet, or a superseded one, for a live timer).
THEOREM LazyDeletionSound == Spec => []NoGhostIsLive
<1>1. IInv => NoGhostIsLive
  BY DEF IInv
<1>2. QED
  BY <1>1, InvariantHolds, PTL

\* TimerCoverage: an unacknowledged packet always has a live timer or is being
\* retransmitted by the caller, so send_file never waits without a deadline.
THEOREM NoPacketForgotten == Spec => []TimerCoverage
<1>1. IInv => TimerCoverage
  BY DEF IInv
<1>2. QED
  BY <1>1, InvariantHolds, PTL

\* HandedIsDisarmed: expire() never hands a packet out twice for one timer.
THEOREM NoDoubleExpiry == Spec => []HandedIsDisarmed
<1>1. IInv => HandedIsDisarmed
  BY DEF IInv
<1>2. QED
  BY <1>1, InvariantHolds, PTL

(***************************************************************************)
(* The live timers as the caller knows them: what each operation does to   *)
(* the pairs of packet and deadline, which the history variable and the    *)
(* refinement both follow.                                                 *)
(***************************************************************************)
AbstractDue == {<<e.sequence, e.deadline>> : e \in Live}

\* on_sent arms one timer.
LEMMA OnSentDue ==
  ASSUME IInv, NEW d \in Deadlines, on_sent(d)
  PROVE  AbstractDue' = AbstractDue \cup {<<next_sequence, d>>}
<1> DEFINE new == [deadline |-> d, sequence |-> next_sequence,
                   generation |-> slots[slot_for(next_sequence)].generation + 1]
<1>1. Live' = Live \cup {new}
  BY OnSentEffect
<1>2. new.sequence = next_sequence /\ new.deadline = d
  OBVIOUS
<1> HIDE DEF new
<1>3. QED
  BY <1>1, <1>2 DEF AbstractDue

\* on_ack cancels the packet's timer.
LEMMA OnAckDue ==
  ASSUME IInv, NEW s \in Nat, on_ack(s)
  PROVE  AbstractDue' = {t \in AbstractDue : t[1] # s}
<1>1. Live' = {e \in Live : e.sequence # s}
  BY OnAckEffect
<1>2. QED
  BY <1>1 DEF AbstractDue

\* expire cancels the timers that are due, and hands out their packets.
LEMMA ExpireDue ==
  ASSUME IInv, NEW now \in Deadlines, expire(now)
  PROVE  /\ AbstractDue' = {t \in AbstractDue : t[2] > now}
         /\ Due(now) = {t[1] : t \in {u \in AbstractDue : u[2] <= now}}
<1> DEFINE Fired == {u \in AbstractDue : u[2] <= now}
<1>1. Live' = {e \in Live : e.deadline > now}
  BY ExpireEffect
<1>2. AbstractDue' = {t \in AbstractDue : t[2] > now}
  BY <1>1 DEF AbstractDue
<1>3. ASSUME NEW s \in Due(now) PROVE s \in {t[1] : t \in Fired}
  <2>1. PICK e \in Live : e.deadline <= now /\ s = e.sequence
    BY <1>3 DEF Due
  <2>2. <<e.sequence, e.deadline>> \in Fired
    BY <2>1 DEF AbstractDue
  <2>3. QED
    BY <2>1, <2>2
<1>4. ASSUME NEW t \in Fired PROVE t[1] \in Due(now)
  <2>1. PICK e \in Live : t = <<e.sequence, e.deadline>>
    BY <1>4 DEF AbstractDue
  <2>2. QED
    BY <1>4, <2>1 DEF Due
<1>5. QED
  BY <1>2, <1>3, <1>4

\* reschedule replaces the packet's timer.
LEMMA RescheduleDue ==
  ASSUME IInv, NEW s \in Nat, NEW d \in Deadlines, reschedule(s, d)
  PROVE  AbstractDue' = {t \in AbstractDue : t[1] # s} \cup {<<s, d>>}
<1> DEFINE new == [deadline |-> d, sequence |-> s,
                   generation |-> slots[slot_for(s)].generation + 1]
<1>1. Live' = {e \in Live : e.sequence # s} \cup {new}
  BY RescheduleEffect
<1>2. new.sequence = s /\ new.deadline = d
  OBVIOUS
<1> HIDE DEF new
<1>3. QED
  BY <1>1, <1>2 DEF AbstractDue

\* The live timers are those the caller has set and not lost: the ring, the heap
\* and the generations keep its books.
ArmedExact == armed = AbstractDue

\* Every operation keeps the two together.
LEMMA NextArmed == IInv /\ ArmedExact /\ [Next]_vars => ArmedExact'
<1> SUFFICES ASSUME IInv, armed = AbstractDue, [Next]_vars
             PROVE  armed' = AbstractDue'
  BY DEF ArmedExact
<1>1. ASSUME NEW d \in Deadlines, on_sent(d) PROVE armed' = AbstractDue'
  BY <1>1, OnSentDue DEF on_sent
<1>2. ASSUME NEW s \in SequenceNumbers, on_ack(s) PROVE armed' = AbstractDue'
  <2>1. AbstractDue' = {t \in AbstractDue : t[1] # s}
    BY <1>2, OnAckDue, BoundsAssumption DEF SequenceNumbers
  <2>2. QED
    BY <1>2, <2>1 DEF on_ack, Disarmed
<1>3. ASSUME NEW now \in Deadlines, expire(now) PROVE armed' = AbstractDue'
  <2>1. /\ AbstractDue' = {t \in AbstractDue : t[2] > now}
        /\ armed' = {t \in AbstractDue : t[1] \notin Due(now)}
    BY <1>3, ExpireDue DEF expire, Disarmed
  <2>2. ASSUME NEW t \in AbstractDue PROVE t[1] \notin Due(now) <=> t[2] > now
    <3>1. PICK e \in Live : t = <<e.sequence, e.deadline>>
      BY <2>2 DEF AbstractDue
    <3>2. e.sequence \in Due(now) <=> e.deadline <= now
      BY <3>1 DEF Due, IInv, NoGhostIsLive
    <3>3. e.deadline \in Nat /\ now \in Nat
      BY DeadlinesAssumption DEF Live, IInv, TypeOK, Entry
    <3>4. QED
      BY <3>1, <3>2, <3>3
  <2>3. QED
    BY <2>1, <2>2
<1>4. ASSUME NEW s \in SequenceNumbers, NEW d \in Deadlines, reschedule(s, d)
      PROVE  armed' = AbstractDue'
  <2>1. AbstractDue' = {t \in AbstractDue : t[1] # s} \cup {<<s, d>>}
    BY <1>4, RescheduleDue, BoundsAssumption DEF SequenceNumbers
  <2>2. QED
    BY <1>4, <2>1 DEF reschedule, Disarmed
<1>5. ASSUME earliest_deadline PROVE armed' = AbstractDue'
  BY <1>5, EarliestDeadlineEffect DEF earliest_deadline, AbstractDue
<1>6. ASSUME NEW s \in SequenceNumbers, reschedule_ignored(s)
      PROVE  armed' = AbstractDue'
  BY <1>6 DEF reschedule_ignored, AbstractDue, Live
<1>7. CASE UNCHANGED vars
  BY <1>7 DEF vars, AbstractDue, Live
<1>8. QED
  BY <1>1, <1>2, <1>3, <1>4, <1>5, <1>6, <1>7 DEF Next, on_ack_ignored

\* EarliestDeadlineExact: the loop of prune pops ghosts only and stops at a live
\* top, and the live entries are the caller's timers (which takes the whole
\* invariant: no ghost of a reused slot is live, no timer is lost), so
\* earliest_deadline() and expire() leave the earliest of them on top.
THEOREM WakesInTime == Spec => []EarliestDeadlineExact
<1>1. Init => ArmedExact
  BY DEF Init, ArmedExact, AbstractDue, Live
<1>2. IInv /\ ArmedExact => EarliestDeadlineExact
  <2> SUFFICES ASSUME IInv, armed = AbstractDue,
                      NEW rest \in prune(timers, slots)
               PROVE  /\ rest = {} <=> armed = {}
                      /\ \A top \in Tops(rest) :
                           /\ \A t \in armed : top.deadline <= t[2]
                           /\ \E t \in armed : top.deadline = t[2]
    BY DEF EarliestDeadlineExact, ArmedExact
  <2>1. \A e \in timers : e.deadline \in Nat
    BY DeadlinesAssumption DEF IInv, TypeOK, Entry
  <2>2. rest \subseteq timers /\ Live \subseteq rest
    BY PruneKeepsLive DEF Live
  <2>3. CASE rest = {}
    BY <2>2, <2>3 DEF Tops, AbstractDue
  <2>4. CASE rest # {}
    <3>1. PICK e \in Tops(rest) : is_live(e, slots)
      BY <2>4 DEF prune
    <3>2. e \in Live /\ <<e.sequence, e.deadline>> \in armed
      BY <2>2, <3>1 DEF Tops, Live, AbstractDue
    <3>3. ASSUME NEW top \in Tops(rest)
          PROVE  /\ \A t \in armed : top.deadline <= t[2]
                 /\ \E t \in armed : top.deadline = t[2]
      <4>1. top.deadline = e.deadline
        BY <2>1, <2>2, <3>1 DEF Tops
      <4>2. ASSUME NEW t \in armed PROVE top.deadline <= t[2]
        <5>1. PICK f \in Live : t = <<f.sequence, f.deadline>>
          BY DEF AbstractDue
        <5>2. QED
          BY <2>2, <5>1 DEF Tops
      <4>3. QED
        BY <3>2, <4>1, <4>2
    <3>4. QED
      BY <2>4, <3>2, <3>3
  <2>5. QED
    BY <2>3, <2>4
<1>3. QED
  BY <1>1, <1>2, NextArmed, InvariantHolds, PTL DEF Spec

(***************************************************************************)
(* Refinement.                                                             *)
(***************************************************************************)

\* Every step of the window is a step of the abstract one, or leaves its state
\* alone.
LEMMA StepRefines ==
  IInv /\ [Next]_vars => [Window!Next]_(Window!specVars)
<1> SUFFICES ASSUME IInv, [Next]_vars
             PROVE  Window!Next \/ UNCHANGED Window!specVars
  OBVIOUS
<1> USE DEF Window!specVars
<1>1. ASSUME NEW d \in Deadlines, on_sent(d) PROVE Window!Next
  <2>1. /\ next_sequence' = next_sequence + 1
        /\ Unacked' = Unacked \cup {next_sequence}
        /\ handed' = handed
    BY <1>1, OnSentEffect DEF on_sent
  <2>2. AbstractDue' = AbstractDue \cup {<<next_sequence, d>>}
    BY <1>1, OnSentDue
  <2>3. \A s \in Unacked : next_sequence < s + Capacity
    BY <1>1, CapacityAssumption DEF on_sent, can_send, Unacked, IInv, TypeOK
  <2>4. Window!Send(d)
    BY <2>1, <2>2, <2>3 DEF Window!Send, AbstractDue
  <2>5. QED
    BY <2>4 DEF Window!Next
<1>2. ASSUME NEW s \in SequenceNumbers, on_ack(s) PROVE Window!Next
  <2>1. /\ s \in Unacked
        /\ Unacked' = Unacked \ {s}
    BY <1>2, OnAckEffect, BoundsAssumption DEF SequenceNumbers
  <2>2. AbstractDue' = {t \in AbstractDue : t[1] # s}
    BY <1>2, OnAckDue, BoundsAssumption DEF SequenceNumbers
  <2>3. Window!Acknowledge(s)
    BY <1>2, <2>1, <2>2 DEF on_ack, Window!Acknowledge, AbstractDue
  <2>4. QED
    BY <2>1, <2>3 DEF Window!Next
<1>3. ASSUME NEW now \in Deadlines, expire(now) PROVE Window!Next
  <2>1. Unacked' = Unacked
    BY <1>3, ExpireEffect
  <2>2. /\ AbstractDue' = {t \in AbstractDue : t[2] > now}
        /\ Due(now) = {t[1] : t \in {u \in AbstractDue : u[2] <= now}}
    BY <1>3, ExpireDue
  <2>3. Window!Fire(now)
    BY <1>3, <2>1, <2>2 DEF expire, Window!Fire, AbstractDue
  <2>4. QED
    BY <2>3 DEF Window!Next
<1>4. ASSUME NEW s \in SequenceNumbers, NEW d \in Deadlines, reschedule(s, d)
      PROVE  Window!Next
  <2>1. s \in Unacked /\ Unacked' = Unacked
    BY <1>4, RescheduleEffect, BoundsAssumption DEF SequenceNumbers
  <2>2. AbstractDue' = {t \in AbstractDue : t[1] # s} \cup {<<s, d>>}
    BY <1>4, RescheduleDue, BoundsAssumption DEF SequenceNumbers
  <2>3. Window!Rearm(s, d)
    BY <1>4, <2>1, <2>2 DEF reschedule, Window!Rearm, AbstractDue
  <2>4. QED
    BY <2>1, <2>3 DEF Window!Next
<1>5. ASSUME earliest_deadline PROVE UNCHANGED Window!specVars
  BY <1>5, EarliestDeadlineEffect DEF earliest_deadline
<1>6. ASSUME NEW s \in SequenceNumbers, reschedule_ignored(s)
      PROVE  Window!Next \/ UNCHANGED Window!specVars
  <2>1. /\ s \notin Unacked
        /\ handed' = handed \ {s}
        /\ next_sequence' = next_sequence /\ Unacked' = Unacked
        /\ AbstractDue' = AbstractDue
    BY <1>6 DEF reschedule_ignored, InWindow, Unacked, Live, AbstractDue,
                IInv, TypeOK
  <2>2. CASE s \in handed
    BY <2>1, <2>2 DEF Window!Next, Window!Drop, AbstractDue
  <2>3. CASE s \notin handed
    BY <2>1, <2>3 DEF AbstractDue
  <2>4. QED
    BY <2>2, <2>3
<1>7. CASE UNCHANGED vars
  BY <1>7 DEF vars, Unacked, Live
<1>8. QED
  BY <1>1, <1>2, <1>3, <1>4, <1>5, <1>6, <1>7 DEF Next, on_ack_ignored

\* ImplementsSendWindow: the ring, the lazily pruned heap and the generations
\* together behave as the abstract send window.
THEOREM Refinement == Spec => ImplementsSendWindow
<1>1. Init => Window!Init
  BY DEF Init, Window!Init, Unacked, Live
<1>2. QED
  BY <1>1, StepRefines, InvariantHolds, PTL
  DEF Spec, ImplementsSendWindow, Window!Spec
=============================================================================
