------------------------------- MODULE Sender -------------------------------
(***************************************************************************)
(* swiftlink::transfer::send_file (sender.cpp): START, stop and wait; then *)
(* the DATA loop over a send window; then FIN, stop and wait.              *)
(*                                                                         *)
(* The send window appears as SendWindowSpec states it (SenderWindow.tla   *)
(* implements that specification): the next sequence number, and for each  *)
(* unacknowledged packet how long ago its timer was armed.  One pass of    *)
(* the DATA loop - receive, expire and retransmit, fill - is one step: the *)
(* sender shares nothing with anyone but the network.                      *)
(*                                                                         *)
(* The network is a set of datagrams.  A lossy, duplicating one never      *)
(* forgets a datagram (Timely = FALSE: any of them may arrive at any time, *)
(* any number of times, or never); a timely one delivers each at most once.*)
(***************************************************************************)
EXTENDS Packet, FiniteSets

CONSTANTS Transfers,     \* what is to be sent
          WindowCapacity,\* SenderConfig::window_size
          MaxRetries,    \* SenderConfig::max_retries
          Rto,           \* SenderConfig::rto, in ticks
          LocalErrors,   \* the errors of its own a sender may meet
          Timely         \* see above

ASSUME SenderAssumption ==
  /\ WindowCapacity \in Nat \ {0} /\ MaxRetries \in Nat /\ Rto \in Nat \ {0}
  /\ LocalErrors \subseteq {"kSendFailed", "kSocketFailed", "kReceiveFailed",
                            "kFileReadFailed"}
  /\ Timely \in BOOLEAN

VARIABLES sender,   \* the state of each transfer's send_file
          net       \* the datagrams in flight, both ways

Idle ==
  [phase |-> "idle", result |-> "none", remote_status |-> "kOk",
   attempt |-> 0, waited |-> 0,      \* exchange_control: attempt, and its clock
   next |-> 0, in_flight |-> <<>>]   \* the window and the InFlight ring

SenderInit ==
  /\ sender = [t \in Transfers |-> Idle]
  /\ net = {}

\* A received datagram leaves the network, or stays to be duplicated.
Taken(m) == IF Timely THEN net \ {m} ELSE net

Total(t) == chunk_count(FileSize(t))

Finish(s, result) ==
  [s EXCEPT !.phase = "done", !.result = result, !.in_flight = <<>>]

\* window.base().
Oldest(s) ==
  IF DOMAIN s.in_flight = {} THEN s.next
  ELSE CHOOSE q \in DOMAIN s.in_flight : \A r \in DOMAIN s.in_flight : q <= r

\* Fill the window: the packets that may go out now.
Fillable(t, s) ==
  {q \in s.next .. Total(t) - 1 : q < Oldest(s) + WindowCapacity}

\* The top of the DATA loop.  With everything acknowledged it is left, and the
\* FIN goes out; otherwise the window is filled.
Proceed(t, s) ==
  IF Oldest(s) >= Total(t)
  THEN [s EXCEPT !.phase = "fin", !.attempt = 0, !.waited = 0]
  ELSE LET more == Fillable(t, s)
       IN [s EXCEPT !.phase = "data", !.next = @ + Cardinality(more),
                    !.in_flight =
                       [q \in DOMAIN s.in_flight \cup more |->
                          IF q \in more THEN [age |-> 0, attempts |-> 1]
                                        ELSE s.in_flight[q]]]

\* What Proceed puts on the wire.
Emitted(t, s) ==
  IF Oldest(s) >= Total(t) THEN {FinPacket(t)}
  ELSE {DataPacket(t, q) : q \in Fillable(t, s)}

Becomes(t, s) == sender' = [sender EXCEPT ![t] = s]
-----------------------------------------------------------------------------
(***************************************************************************)
(* exchange_control                                                        *)
(***************************************************************************)

ControlPacket(t) ==
  IF sender[t].phase = "start" THEN StartPacket(t) ELSE FinPacket(t)

\* send_file begins; one client's transfers share its socket one at a time.
Begin(t) ==
  /\ sender[t].phase = "idle"
  /\ \A u \in Transfers : u.from = t.from => sender[u].phase \in {"idle", "done"}
  /\ Becomes(t, [sender[t] EXCEPT !.phase = "start"])
  /\ net' = net \cup {StartPacket(t)}

Controlling(t) == sender[t].phase \in {"start", "fin"}

\* Mutant: the type of the reply is not looked at.
Expected_any_type(t, m) ==
  m.sequence = (IF sender[t].phase = "start" THEN 0 ELSE Total(t))

Expected(t, m) ==
  IF sender[t].phase = "start"
  THEN m.type = "START_ACK" /\ m.sequence = 0
  ELSE m.type = "FIN_ACK" /\ m.sequence = Total(t)

\* An ERROR ends the exchange, whichever session it names.
ControlError(t, m) ==
  /\ Controlling(t) /\ sender[t].waited < Rto
  /\ m.type = "ERROR"
  /\ Becomes(t, [Finish(sender[t], "kRemoteError") EXCEPT
                   !.remote_status = m.status])
  /\ net' = Taken(m)

\* The expected reply of this session ends it; any other one is passed over.
ControlReply(t, m) ==
  /\ Controlling(t) /\ sender[t].waited < Rto
  /\ m.type # "ERROR" /\ m.session_id = t.session_id /\ Expected(t, m)
  /\ \/ /\ sender[t].phase = "start"
        /\ Becomes(t, Proceed(t, sender[t]))
        /\ net' = Taken(m) \cup Emitted(t, sender[t])
     \/ /\ sender[t].phase = "fin"
        /\ Becomes(t, Finish(sender[t], "kNone"))
        /\ net' = Taken(m)

ControlIgnored(t, m) ==
  /\ Controlling(t) /\ sender[t].waited < Rto
  /\ m.type # "ERROR" /\ ~ (m.session_id = t.session_id /\ Expected(t, m))
  /\ net' = Taken(m)
  /\ UNCHANGED sender

\* Mutant: the attempts are not counted.
ControlTimeout_forever(t) ==
  /\ Controlling(t) /\ sender[t].waited >= Rto
  /\ Becomes(t, [sender[t] EXCEPT !.waited = 0])
  /\ net' = net \cup {ControlPacket(t)}

\* Mutant: one retransmission too many.
ControlTimeout_once_more(t) ==
  /\ Controlling(t) /\ sender[t].waited >= Rto
  /\ IF sender[t].attempt <= MaxRetries
     THEN /\ Becomes(t, [sender[t] EXCEPT !.attempt = @ + 1, !.waited = 0])
          /\ net' = net \cup {ControlPacket(t)}
     ELSE /\ Becomes(t, Finish(sender[t], "kPeerUnresponsive"))
          /\ UNCHANGED net

\* No reply in time: retransmit, or give up after max_retries retransmissions.
ControlTimeout(t) ==
  /\ Controlling(t) /\ sender[t].waited >= Rto
  /\ \/ /\ sender[t].attempt < MaxRetries
        /\ Becomes(t, [sender[t] EXCEPT !.attempt = @ + 1, !.waited = 0])
        /\ net' = net \cup {ControlPacket(t)}
     \/ /\ sender[t].attempt >= MaxRetries
        /\ Becomes(t, Finish(sender[t], IF sender[t].phase = "start"
                                        THEN "kHandshakeFailed"
                                        ELSE "kPeerUnresponsive"))
        /\ UNCHANGED net
-----------------------------------------------------------------------------
(***************************************************************************)
(* The DATA loop                                                           *)
(***************************************************************************)

\* The packets whose timer has run out.
Expired(s) == {q \in DOMAIN s.in_flight : s.in_flight[q].age >= Rto}
Exhausted(s) == {q \in Expired(s) : s.in_flight[q].attempts >= MaxRetries}

\* Steps 3 and 1 of the loop: retransmit what has expired and fill the window,
\* or give up at the first packet out of retries (some others may have been
\* retransmitted before it was reached).
Retransmit(t, s, left) ==
  LET resent == [s EXCEPT !.in_flight =
                   [q \in DOMAIN @ |->
                      IF q \in Expired(s)
                      THEN [age |-> 0, attempts |-> @[q].attempts + 1]
                      ELSE @[q]]]
  IN \/ /\ Exhausted(s) = {}
        /\ Becomes(t, Proceed(t, resent))
        /\ net' = left \cup {DataPacket(t, q) : q \in Expired(s)}
                       \cup Emitted(t, resent)
     \/ /\ Exhausted(s) # {}
        /\ Becomes(t, Finish(s, "kPeerUnresponsive"))
        /\ \E some \in SUBSET (Expired(s) \ Exhausted(s)) :
             net' = left \cup {DataPacket(t, q) : q \in some}

\* window.on_ack: the packet is retired, an unknown one is ignored.
Acknowledged(s, q) ==
  [s EXCEPT !.in_flight = [r \in DOMAIN @ \ {q} |-> @[r]]]

\* Step 2: a datagram wakes the sender.  Only an ACK matters, and it is taken
\* at its sequence number alone; an ERROR is not looked at.
DataReceive(t, m) ==
  /\ sender[t].phase = "data"
  /\ Retransmit(t, IF m.type = "ACK" THEN Acknowledged(sender[t], m.sequence)
                                      ELSE sender[t], Taken(m))

\* Or the earliest deadline does.
DataTimeout(t) ==
  /\ sender[t].phase = "data"
  /\ Expired(sender[t]) # {}
  /\ Retransmit(t, sender[t], net)

\* A failing system call ends the transfer.
LocalFailure(t) ==
  /\ sender[t].phase \in {"start", "data", "fin"}
  /\ \E error \in LocalErrors : Becomes(t, Finish(sender[t], error))
  /\ UNCHANGED net

\* Time passes for a sender: every clock it is waiting on.
Waiting(packet) == [packet EXCEPT !.age = IF @ < Rto THEN @ + 1 ELSE @]

Aged(s) ==
  [s EXCEPT
     !.waited = IF s.phase \in {"start", "fin"} /\ @ < Rto THEN @ + 1 ELSE @,
     !.in_flight = [q \in DOMAIN @ |-> Waiting(@[q])]]

\* A sender has something to do at once.
Ripe(t) == \/ Controlling(t) /\ sender[t].waited >= Rto
           \/ sender[t].phase = "data" /\ Expired(sender[t]) # {}
=============================================================================
