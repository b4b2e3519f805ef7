---------------------------- MODULE SenderWindow ----------------------------
(***************************************************************************)
(* swiftlink::transfer::SenderWindow (window.hpp, window.cpp): the send    *)
(* window of a selective-repeat sender.  Outstanding packets live in a     *)
(* ring of Capacity slots indexed by sequence % Capacity; retransmission   *)
(* timers live in a min-heap that is never edited in the middle.           *)
(* Cancelling a timer bumps the slot's generation, which turns its heap    *)
(* entry into a ghost that is discarded when it surfaces.                  *)
(*                                                                         *)
(* One action per member function.  The caller is unconstrained: it may    *)
(* acknowledge, expire and reschedule any sequence number at any time.     *)
(***************************************************************************)
EXTENDS Integers

CONSTANTS Capacity,       \* capacity_ (the constructor turns 0 into 1)
          Deadlines,      \* the time points timers are armed for and polled at
          MaxSequence,    \* bound: packets ever sent
          MaxGeneration   \* bound: re-arms of one slot (64 bits in the code)

ASSUME CapacityAssumption == Capacity \in Nat \ {0}
ASSUME DeadlinesAssumption == Deadlines \subseteq Nat
ASSUME BoundsAssumption == MaxSequence \in Nat /\ MaxGeneration \in Nat

VARIABLES base,            \* base_
          next_sequence,   \* next_sequence_
          slots,           \* slots_: the ring
          timers,          \* timers_: the heap, as a set of entries
          handed,          \* what expire() returned and reschedule() has not
                           \* seen yet (the caller's side of the interface)
          armed            \* the timers the caller has asked for, as it would
                           \* note them: pairs <<sequence, deadline>> (history)

vars == <<base, next_sequence, slots, timers, handed, armed>>

Index == 0 .. Capacity - 1
Slot == [outstanding : BOOLEAN, generation : Nat]
Entry == [deadline : Deadlines, sequence : Nat, generation : Nat]
SequenceNumbers == 0 .. MaxSequence

slot_for(s) == s % Capacity

\* Mutant: the generation is not compared.
is_live_ungenerational(e, ring) == ring[slot_for(e.sequence)].outstanding

\* is_live: the entry's packet is unacknowledged and its timer not superseded.
is_live(e, ring) ==
  /\ ring[slot_for(e.sequence)].outstanding
  /\ ring[slot_for(e.sequence)].generation = e.generation

InWindow(s) == base <= s /\ s < next_sequence

\* The packets sent and not yet acknowledged.
Unacked == {s \in base .. next_sequence - 1 : slots[slot_for(s)].outstanding}

Live == {e \in timers : is_live(e, slots)}

\* What timers_.top() may be: std::priority_queue orders ties as it likes.
Tops(heap) == {e \in heap : \A f \in heap : e.deadline <= f.deadline}

\* Mutant: one ghost is popped where the loop pops them all.
prune_once(heap, ring) ==
  {heap \ {e} : e \in {g \in Tops(heap) : ~ is_live(g, ring)}}
    \cup (IF \E e \in Tops(heap) : is_live(e, ring) THEN {heap} ELSE {})
    \cup (IF heap = {} THEN {{}} ELSE {})

\* prune: the loop pops in the order of the heap, goes on while the top is a ghost
\* and ends at a live top or an empty heap.
prune(heap, ring) ==
  {rest \in SUBSET heap :
     /\ \A g \in heap \ rest : ~ is_live(g, ring)
     /\ \A g \in heap \ rest, e \in rest : g.deadline <= e.deadline
     /\ rest = {} \/ \E e \in Tops(rest) : is_live(e, ring)}

\* Mutant: one packet too many.
can_send_one_more == next_sequence - base <= Capacity

can_send == next_sequence - base < Capacity

\* Mutant: the generation is decremented.
BumpedRing_down(touched, s, outstanding) ==
  [touched EXCEPT ![slot_for(s)] =
     [outstanding |-> outstanding, generation |-> @.generation - 1]]

BumpedRing(touched, s, outstanding) ==
  [touched EXCEPT ![slot_for(s)] =
     [outstanding |-> outstanding, generation |-> @.generation + 1]]

\* Bound: the slot's generation may still grow.
Bounded(s) == slots[slot_for(s)].generation < MaxGeneration
-----------------------------------------------------------------------------
Init ==
  /\ base = 0
  /\ next_sequence = 0
  /\ slots = [i \in Index |-> [outstanding |-> FALSE, generation |-> 0]]
  /\ timers = {}
  /\ handed = {}
  /\ armed = {}

\* The caller's note of its timers without those of some packets.
Disarmed(packets) == {t \in armed : t[1] \notin packets}

on_sent(d) ==
  /\ can_send
  /\ next_sequence < MaxSequence
  /\ Bounded(next_sequence)
  /\ slots' = BumpedRing(slots, next_sequence, TRUE)
  /\ timers' = timers \cup
       {[deadline |-> d, sequence |-> next_sequence,
         generation |-> slots[slot_for(next_sequence)].generation + 1]}
  /\ next_sequence' = next_sequence + 1
  /\ armed' = armed \cup {<<next_sequence, d>>}
  /\ UNCHANGED <<base, handed>>

\* The base slides to the first outstanding packet, or to next_sequence.
Slide(ring) ==
  \E b \in base .. next_sequence :
    /\ \A s \in base .. b - 1 : ~ ring[slot_for(s)].outstanding
    /\ b < next_sequence => ring[slot_for(b)].outstanding
    /\ base' = b

on_ack(s) ==
  /\ InWindow(s)
  /\ slots[slot_for(s)].outstanding
  /\ Bounded(s)
  /\ slots' = BumpedRing(slots, s, FALSE)
  /\ Slide(BumpedRing(slots, s, FALSE))
  /\ armed' = Disarmed({s})
  /\ UNCHANGED <<next_sequence, timers, handed>>

\* An ACK outside the window, or for a packet already retired, is ignored.
on_ack_ignored(s) ==
  /\ ~ InWindow(s) \/ ~ slots[slot_for(s)].outstanding
  /\ UNCHANGED vars

earliest_deadline ==
  /\ timers' \in prune(timers, slots)
  /\ UNCHANGED <<base, next_sequence, slots, handed, armed>>

\* Mutant: a timer due at this very instant is popped, not handed out.
Due_strictly(now) == {e.sequence : e \in {f \in Live : f.deadline < now}}

\* The packets expire(now) hands to the caller.
Due(now) == {e.sequence : e \in {f \in Live : f.deadline <= now}}

\* The loop pops everything due: live entries are handed out and disarmed by a
\* generation bump, ghosts are discarded; the last prune leaves a live top.
expire(now) ==
  LET ring == [i \in Index |->
                 IF \E s \in Due(now) : slot_for(s) = i
                 THEN [slots[i] EXCEPT !.generation = @ + 1]
                 ELSE slots[i]]
  IN /\ \A s \in Due(now) : Bounded(s)
     /\ slots' = ring
     /\ timers' \in prune({e \in timers : e.deadline > now}, ring)
     /\ handed' = handed \cup Due(now)
     /\ armed' = Disarmed(Due(now))
     /\ UNCHANGED <<base, next_sequence>>

\* Mutant: the entry is pushed before the generation is bumped.
reschedule_push_first(s, d) ==
  /\ InWindow(s) /\ slots[slot_for(s)].outstanding /\ Bounded(s)
  /\ slots' = BumpedRing(slots, s, TRUE)
  /\ timers' = timers \cup
       {[deadline |-> d, sequence |-> s,
         generation |-> slots[slot_for(s)].generation]}
  /\ handed' = handed \ {s}
  /\ armed' = Disarmed({s}) \cup {<<s, d>>}
  /\ UNCHANGED <<base, next_sequence>>

\* Mutant: the generation is not bumped.
reschedule_unbumped(s, d) ==
  /\ InWindow(s) /\ slots[slot_for(s)].outstanding
  /\ timers' = timers \cup
       {[deadline |-> d, sequence |-> s,
         generation |-> slots[slot_for(s)].generation]}
  /\ handed' = handed \ {s}
  /\ armed' = Disarmed({s}) \cup {<<s, d>>}
  /\ UNCHANGED <<base, next_sequence, slots>>

reschedule(s, d) ==
  /\ InWindow(s)
  /\ slots[slot_for(s)].outstanding
  /\ Bounded(s)
  /\ slots' = BumpedRing(slots, s, TRUE)
  /\ timers' = timers \cup
       {[deadline |-> d, sequence |-> s,
         generation |-> slots[slot_for(s)].generation + 1]}
  /\ handed' = handed \ {s}
  /\ armed' = Disarmed({s}) \cup {<<s, d>>}
  /\ UNCHANGED <<base, next_sequence>>

\* Acknowledged while it was being retransmitted: nothing to arm.
reschedule_ignored(s) ==
  /\ ~ InWindow(s) \/ ~ slots[slot_for(s)].outstanding
  /\ handed' = handed \ {s}
  /\ UNCHANGED <<base, next_sequence, slots, timers, armed>>

Next ==
  \/ \E d \in Deadlines : on_sent(d)
  \/ \E s \in SequenceNumbers : on_ack(s) \/ on_ack_ignored(s)
  \/ earliest_deadline
  \/ \E now \in Deadlines : expire(now)
  \/ \E s \in SequenceNumbers, d \in Deadlines : reschedule(s, d)
  \/ \E s \in SequenceNumbers : reschedule_ignored(s)

Spec == Init /\ [][Next]_vars
-----------------------------------------------------------------------------
\* The types of the members.
TypeOK ==
  /\ base \in Nat
  /\ next_sequence \in Nat
  /\ slots \in [Index -> Slot]
  /\ timers \subseteq Entry
  /\ handed \subseteq Nat
  /\ armed \subseteq Nat \X Deadlines

\* The window never spans more than the ring has slots (so no two packets of
\* it share one), and it never closes up over a packet that is outstanding:
\* base is the oldest unacknowledged packet, every set slot belongs to a packet
\* of the window.  A base that lags stalls the sender for good; one that runs
\* ahead forgets a packet.
WindowExact ==
  /\ base <= next_sequence /\ next_sequence <= base + Capacity
  /\ base < next_sequence => slots[slot_for(base)].outstanding
  /\ \A i \in Index : slots[i].outstanding =>
       \E s \in Unacked : slot_for(s) = i

\* Lazy deletion is sound: an entry that passes is_live is for a packet of the
\* current window, never for an older packet that used the same slot, and no
\* packet has two of them.
NoGhostIsLive ==
  \A e \in Live :
    /\ InWindow(e.sequence)
    /\ \A f \in Live : f.sequence = e.sequence => f = e

\* What makes lazy deletion sound: an entry's generation is one its slot has
\* had, no two entries of a slot carry the same one, and every entry and every
\* packet in the caller's hands was really sent.
GenerationsUnique ==
  /\ \A e \in timers :
       /\ e.sequence < next_sequence
       /\ e.generation <= slots[slot_for(e.sequence)].generation
       /\ \A f \in timers : /\ slot_for(f.sequence) = slot_for(e.sequence)
                             /\ f.generation = e.generation
                             => f = e
  /\ \A s \in handed : s < next_sequence

\* No packet is forgotten: an unacknowledged packet has a live timer, or the
\* caller holds it to retransmit.  send_file stops waiting when there is no
\* timer left, so a packet without one would never be sent again.
TimerCoverage ==
  \A s \in Unacked : s \in handed \/ \E e \in Live : e.sequence = s

\* expire() disarms what it hands out, so no packet is handed out twice for one
\* timer: a packet the caller still holds has no live timer.
HandedIsDisarmed == \A e \in Live : e.sequence \notin handed

\* Wherever prune stops, the top is the earliest deadline of those the caller has
\* set and that are neither acknowledged, handed out nor replaced since, and the
\* heap is empty only if there are none: the caller waits neither for a superseded
\* deadline nor past one of its own, whatever the slots have been used for.
EarliestDeadlineExact ==
  \A rest \in prune(timers, slots) :
    /\ rest = {} <=> armed = {}
    /\ \A top \in Tops(rest) :
         /\ \A t \in armed : top.deadline <= t[2]
         /\ \E t \in armed : top.deadline = t[2]

\* The ring, heap and generations implement the abstract send window.
Window == INSTANCE SendWindowSpec WITH
            next <- next_sequence,
            unacked <- Unacked,
            due <- {<<e.sequence, e.deadline>> : e \in Live},
            fired <- handed

\* Every step of the ring and heap is a step of the abstract window: expire()
\* hands out exactly the packets whose timer is due, each once, and only
\* unacknowledged ones.
ImplementsSendWindow == Window!Spec
=============================================================================
