--------------------------- MODULE ReceiverWindow ---------------------------
(***************************************************************************)
(* swiftlink::transfer::ReceiverWindow (window.hpp, window.cpp): which     *)
(* sequence numbers have been stored, in a ring of Capacity bits indexed   *)
(* by sequence % Capacity.  Everything below base_ is stored; bits stand   *)
(* for base_ .. base_ + capacity_ - 1.                                     *)
(*                                                                         *)
(* Sequence numbers are uint32_t.  Modulus is 2^32 in the code; it is a    *)
(* parameter so that the sums that can wrap do wrap in a small model.      *)
(***************************************************************************)
EXTENDS Integers

CONSTANTS Capacity,   \* capacity_ (the constructor turns 0 into 1)
          Modulus,    \* 2^32: the sums of sequence numbers are taken modulo it
          Chunks      \* the chunks of the transfer: sequences 0 .. Chunks - 1

\* chunk_count() refuses a file whose count does not fit the sequence number.
ASSUME WidthAssumption ==
  /\ Capacity \in Nat \ {0}
  /\ Modulus \in Nat \ {0}
  /\ Chunks \in Nat
  /\ Chunks < Modulus /\ Capacity < Modulus

VARIABLES base,       \* base_
          received,   \* received_: the ring
          stored      \* the chunks the caller wrote to disk (history)

vars == <<base, received, stored>>

Index == 0 .. Capacity - 1
Sequence == 0 .. Chunks - 1
slot(s) == s % Capacity

Disposition == {"kAccepted", "kDuplicate", "kOutsideWindow"}

\* Mutant: the last slot of the ring is not used.
Limit_short == (base + Capacity - 1) % Modulus

\* base_ + capacity_ is a 32-bit sum.
Limit == (base + Capacity) % Modulus

\* Mutant: no upper end, so a far chunk aliases onto a live slot.
classify_unlimited(s) ==
  IF s < base \/ received[slot(s)] THEN "kDuplicate" ELSE "kAccepted"

classify(s) ==
  IF s < base THEN "kDuplicate"
  ELSE IF s >= Limit THEN "kOutsideWindow"
  ELSE IF received[slot(s)] THEN "kDuplicate"
  ELSE "kAccepted"
-----------------------------------------------------------------------------
Init ==
  /\ base = 0
  /\ received = [i \in Index |-> FALSE]
  /\ stored = {}

\* Mutant: the bits passed are left set.
Slide_dirty(ring) ==
  \E b \in base .. base + Capacity :
    /\ \A s \in base .. b - 1 : ring[slot(s)]
    /\ b < base + Capacity => ~ ring[slot(b)]
    /\ base' = b
    /\ received' = ring

\* Mutant: the base also passes the first missing chunk.
Slide_too_far(ring) ==
  \E b \in base .. base + Capacity :
    /\ \A s \in base .. b - 1 : ring[slot(s)]
    /\ b < base + Capacity => ~ ring[slot(b)]
    /\ base' = b + 1
    /\ received' = [i \in Index |->
                      ring[i] /\ \A s \in base .. b : slot(s) # i]

\* mark_received slides base over the set bits and clears each one it passes;
\* after a full turn every bit has been cleared, so it passes at most Capacity.
\* base_ cannot wrap: it never exceeds Chunks.
Slide(ring) ==
  \E b \in base .. base + Capacity :
    /\ \A s \in base .. b - 1 : ring[slot(s)]
    /\ b < base + Capacity => ~ ring[slot(b)]
    /\ base' = b
    /\ received' = [i \in Index |->
                      ring[i] /\ \A s \in base .. b - 1 : slot(s) # i]

mark_received(s) ==
  /\ classify(s) = "kAccepted"
  /\ Slide([received EXCEPT ![slot(s)] = TRUE])

\* A chunk the window accepts is written and marked, in this order.
Store(s) ==
  /\ mark_received(s)
  /\ stored' = stored \cup {s}

\* Anything else leaves the window alone.
Ignore(s) ==
  /\ classify(s) # "kAccepted"
  /\ UNCHANGED vars

Next == \E s \in Sequence : Store(s) \/ Ignore(s)

Spec == Init /\ [][Next]_vars
-----------------------------------------------------------------------------
\* The types of the members; base never passes the end of the transfer.
TypeOK ==
  /\ base \in 0 .. Chunks
  /\ received \in [Index -> BOOLEAN]
  /\ stored \subseteq Sequence

\* The bits and the base together say exactly what is on disk: all below base,
\* nothing at base, and in the window the chunks whose bit is set.  A bit left
\* behind by a slide would make the next chunk of that slot look stored.
RingExact ==
  /\ \A s \in Sequence : s < base => s \in stored
  /\ base \notin stored
  /\ \A s \in stored : s < base + Capacity
  /\ \A s \in base .. base + Capacity - 1 : received[slot(s)] <=> s \in stored

\* No chunk is lost and none is written twice: what classify calls a duplicate
\* (and the session acknowledges) is on disk, what it accepts is not.
ClassifyExact ==
  \A s \in Sequence :
    /\ classify(s) = "kDuplicate" => s \in stored
    /\ classify(s) = "kAccepted" => s \notin stored

\* "A sender obeying the window size cannot produce this": a chunk that is no
\* more than the window ahead of the oldest missing one is never dropped.
ObeyingSenderHeard ==
  \A s \in Sequence :
    s < base + Capacity => classify(s) # "kOutsideWindow"
=============================================================================
