--------------------------- MODULE SendWindowSpec ---------------------------
(***************************************************************************)
(* What a selective-repeat send window promises its caller, with none of   *)
(* the machinery of window.cpp: no ring, no heap, no generations.          *)
(*                                                                         *)
(* The state is the next sequence number to send, the packets that are     *)
(* still unacknowledged, the retransmission timers that are armed, as      *)
(* pairs <<sequence, deadline>>, and the packets whose timer has fired and *)
(* that the caller has yet to retransmit.                                  *)
(***************************************************************************)
EXTENDS Naturals

CONSTANTS Capacity,   \* how far sending may run ahead of the oldest hole
          Deadlines   \* the time points a timer can be armed for

VARIABLES next, unacked, due, fired

specVars == <<next, unacked, due, fired>>

Init ==
  /\ next = 0
  /\ unacked = {}
  /\ due = {}
  /\ fired = {}

\* A packet may go out only within Capacity of the oldest unacknowledged one.
Send(d) ==
  /\ \A s \in unacked : next < s + Capacity
  /\ next' = next + 1
  /\ unacked' = unacked \cup {next}
  /\ due' = due \cup {<<next, d>>}
  /\ UNCHANGED fired

\* An acknowledgement retires the packet and cancels its timer.
Acknowledge(s) ==
  /\ s \in unacked
  /\ unacked' = unacked \ {s}
  /\ due' = {t \in due : t[1] # s}
  /\ UNCHANGED <<next, fired>>

\* Every timer that is due fires, once, and no other one does.
Fire(now) ==
  /\ due' = {t \in due : t[2] > now}
  /\ fired' = fired \cup {t[1] : t \in {u \in due : u[2] <= now}}
  /\ UNCHANGED <<next, unacked>>

\* An unacknowledged packet's timer is replaced; it never has two.
Rearm(s, d) ==
  /\ s \in unacked
  /\ due' = {t \in due : t[1] # s} \cup {<<s, d>>}
  /\ fired' = fired \ {s}
  /\ UNCHANGED <<next, unacked>>

\* A packet acknowledged while the caller retransmitted it is armed no more.
Drop(s) ==
  /\ s \in fired \ unacked
  /\ fired' = fired \ {s}
  /\ UNCHANGED <<next, unacked, due>>

Next ==
  \/ \E d \in Deadlines : Send(d)
  \/ \E s \in unacked : Acknowledge(s)
  \/ \E now \in Deadlines : Fire(now)
  \/ \E s \in unacked, d \in Deadlines : Rearm(s, d)
  \/ \E s \in fired : Drop(s)

Spec == Init /\ [][Next]_specVars
=============================================================================
