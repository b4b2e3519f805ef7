------------------------------ MODULE TimedLoop ------------------------------
(***************************************************************************)
(* How send_file (sender.cpp) waits.  Before every recv_from the time left *)
(* to the deadline is cut to whole microseconds and armed as the socket's  *)
(* receive timeout (UdpSocket::set_receive_timeout, udp_socket.cpp), and   *)
(* to SO_RCVTIMEO a timeout of zero means no timeout.  Sender.tla takes    *)
(* for granted that a timer that has run out is acted on; this module      *)
(* checks it, on a clock finer than the timeout, for the stop-and-wait     *)
(* loop of exchange_control (phase "start") and the DATA loop.             *)
(*                                                                         *)
(* Clock::now() is read again and again while time passes, so a pass of    *)
(* the loop is several steps here, and a deadline may go by between any    *)
(* two of them.  Times are relative: left is deadline minus now.  A failing*)
(* system call ends the transfer, as in Sender.tla, and is left out.       *)
(***************************************************************************)
EXTENDS Integers, FiniteSets, FiniteSetsExt

CONSTANTS Micro,       \* clock units in a microsecond
          Second,      \* microseconds in a second
          Rto,         \* SenderConfig::rto, in clock units
          MaxRetries,  \* SenderConfig::max_retries
          Capacity,    \* SenderConfig::window_size
          Total,       \* total_chunks
          Busy,        \* bound: clock units one pass of the loop computes for
          Slack        \* bound: clock units the kernel wakes a reader late

ASSUME TimedAssumption ==
  /\ {Micro, Second, Rto, MaxRetries, Capacity, Total} \subseteq Nat \ {0}
  /\ Busy \in Nat \ {0} /\ Slack \in Nat

VARIABLES phase,   \* "start", "data", or "done"
          pc,      \* where the loop is: "send", "arm", "recv" or "expire"
          out,     \* what is unacknowledged: its time left and its attempts
          next,    \* window.next_sequence()
          wake,    \* in recv_from: the time until it gives up
          busy     \* time spent in this pass outside recv_from

vars == <<phase, pc, out, next, wake, busy>>

Never == -1
NoWait == 0

\* Overdue by more than this is overdue for good (see ServedInTime).
Lateness == 2 * Busy + Micro + Slack - 1
Floor == -(Lateness + 1)

\* The START, and after it the chunks, are numbered from 0.
Fresh(q) == [left |-> Rto, attempts |-> 1]

Init ==
  /\ phase = "start" /\ pc = "send"
  /\ out = <<>> /\ next = 0
  /\ wake = NoWait /\ busy = 0
-----------------------------------------------------------------------------
\* Mutant: the timeout is armed as it comes.
set_receive_timeout_raw(us) == [sec |-> us \div Second, usec |-> us % Second]

\* set_receive_timeout: never zero.
set_receive_timeout(us) ==
  LET timeout == IF us <= 0 THEN 1 ELSE us
  IN [sec |-> timeout \div Second, usec |-> timeout % Second]

\* SO_RCVTIMEO: how long recv_from may block.  The kernel may be late, and zero
\* means for ever.
Blocks(tv) ==
  IF tv.sec = 0 /\ tv.usec = 0 THEN {Never}
  ELSE {(tv.sec * Second + tv.usec) * Micro + late : late \in 0 .. Slack}

\* duration_cast<microseconds>.
Micros(wait) == wait \div Micro

Earliest == Min({out[q].left : q \in DOMAIN out})

Receive(wait) ==
  /\ wake' \in Blocks(set_receive_timeout(Micros(wait)))
  /\ pc' = "recv"
  /\ UNCHANGED <<phase, out, next>>

\* Leaving recv_from.
Woken == wake' = NoWait /\ busy' = 0
-----------------------------------------------------------------------------
(***************************************************************************)
(* exchange_control                                                        *)
(***************************************************************************)

\* send_packet, and the deadline of this attempt.
ControlSend ==
  /\ phase = "start" /\ pc = "send"
  /\ out' = [q \in {0} |-> IF out = <<>> THEN Fresh(0)
                           ELSE [left |-> Rto, attempts |-> out[0].attempts + 1]]
  /\ pc' = "arm"
  /\ UNCHANGED <<phase, next, wake, busy>>

\* Mutant: every datagram restarts the full RTO.
ControlArm_restarting ==
  /\ phase = "start" /\ pc = "arm"
  /\ out' = [out EXCEPT ![0].left = Rto]
  /\ wake' \in Blocks(set_receive_timeout(Micros(Rto)))
  /\ pc' = "recv"
  /\ UNCHANGED <<phase, next, busy>>

\* The rest of the wait, if there is any.
ControlArm ==
  /\ phase = "start" /\ pc = "arm"
  /\ \/ out[0].left > 0 /\ Receive(out[0].left)
     \/ out[0].left <= 0 /\ pc' = "expire" /\ UNCHANGED <<phase, out, next, wake>>
  /\ UNCHANGED busy

\* Mutant: any datagram ends the attempt.
ControlStray_retrying ==
  /\ phase = "start" /\ pc = "recv"
  /\ pc' = "expire" /\ Woken
  /\ UNCHANGED <<phase, out, next>>

\* Some other datagram, or a signal: back to what is left of the wait.
ControlStray ==
  /\ phase = "start" /\ pc = "recv"
  /\ pc' = "arm" /\ Woken
  /\ UNCHANGED <<phase, out, next>>

\* The reply: the DATA loop begins.
ControlReply ==
  /\ phase = "start" /\ pc = "recv"
  /\ phase' = "data" /\ pc' = "send" /\ out' = <<>> /\ Woken
  /\ UNCHANGED next

\* EAGAIN.
ControlWaited ==
  /\ phase = "start" /\ pc = "recv" /\ wake = NoWait
  /\ pc' = "expire" /\ busy' = 0
  /\ UNCHANGED <<phase, out, next, wake>>

\* Another attempt, or no more.
ControlTimeout ==
  /\ phase = "start" /\ pc = "expire"
  /\ \/ out[0].attempts <= MaxRetries /\ pc' = "send" /\ UNCHANGED <<phase, out>>
     \/ /\ out[0].attempts > MaxRetries
        /\ phase' = "done" /\ pc' = "send" /\ out' = <<>>
  /\ UNCHANGED <<next, wake, busy>>
-----------------------------------------------------------------------------
(***************************************************************************)
(* The DATA loop                                                           *)
(***************************************************************************)

Base == IF out = <<>> THEN next ELSE Min(DOMAIN out)

\* Step 1, one packet of it.
DataSend ==
  /\ phase = "data" /\ pc = "send"
  /\ next < Total /\ next < Base + Capacity
  /\ out' = [q \in DOMAIN out \cup {next} |->
               IF q = next THEN Fresh(q) ELSE out[q]]
  /\ next' = next + 1
  /\ UNCHANGED <<phase, pc, wake, busy>>

\* Step 2: the window is full or the file is at its end.
DataArm ==
  /\ phase = "data" /\ pc = "send"
  /\ Base < Total
  /\ next = Total \/ next = Base + Capacity
  /\ Receive(IF Earliest < 0 THEN 0 ELSE Earliest)
  /\ UNCHANGED busy

\* Everything is acknowledged.
DataDone ==
  /\ phase = "data" /\ pc = "send" /\ Base >= Total
  /\ phase' = "done"
  /\ UNCHANGED <<pc, out, next, wake, busy>>

\* An ACK of some packet, or a datagram or signal that retires none.
DataReceive ==
  /\ phase = "data" /\ pc = "recv"
  /\ pc' = "expire" /\ Woken
  /\ \E acked \in {{}} \cup {{q} : q \in DOMAIN out} :
       out' = [q \in DOMAIN out \ acked |-> out[q]]
  /\ UNCHANGED <<phase, next>>

DataWaited ==
  /\ phase = "data" /\ pc = "recv" /\ wake = NoWait
  /\ pc' = "expire" /\ busy' = 0
  /\ UNCHANGED <<phase, out, next, wake>>

\* Step 3: retransmit whatever has timed out, or give up.
DataExpire ==
  LET due == {q \in DOMAIN out : out[q].left <= 0}
  IN /\ phase = "data" /\ pc = "expire"
     /\ \/ /\ \A q \in due : out[q].attempts < MaxRetries
           /\ out' = [q \in DOMAIN out |->
                        IF q \in due
                        THEN [left |-> Rto, attempts |-> out[q].attempts + 1]
                        ELSE out[q]]
           /\ UNCHANGED phase
        \/ /\ \E q \in due : out[q].attempts >= MaxRetries
           /\ phase' = "done" /\ out' = <<>>
     /\ pc' = "send"
     /\ UNCHANGED <<next, wake, busy>>
-----------------------------------------------------------------------------
\* The clock: in recv_from until it gives up, elsewhere within a pass's budget.
Elapse ==
  /\ phase # "done"
  /\ \/ pc = "recv" /\ wake # NoWait /\ UNCHANGED busy
        /\ wake' = IF wake = Never THEN Never ELSE wake - 1
     \/ pc # "recv" /\ busy < Busy /\ busy' = busy + 1 /\ UNCHANGED wake
  /\ out' = [q \in DOMAIN out |->
               [out[q] EXCEPT !.left = IF @ > Floor THEN @ - 1 ELSE @]]
  /\ UNCHANGED <<phase, pc, next>>

Step == \/ ControlSend \/ ControlArm \/ ControlWaited \/ ControlTimeout
        \/ DataSend \/ DataArm \/ DataDone \/ DataWaited \/ DataExpire

Arrival == ControlStray \/ ControlReply \/ DataReceive

Next == Step \/ Arrival \/ Elapse

\* The program runs and the clock runs.  Nothing is assumed of the datagrams
\* that arrive: none may, or one may whenever the loop listens.
Fairness == WF_vars(Step) /\ WF_vars(Elapse)

Spec == Init /\ [][Next]_vars /\ Fairness
-----------------------------------------------------------------------------
\* A timer that has run out is acted on, whatever arrives meanwhile: never later
\* than the time computed before and after the wait, the microsecond to which
\* an exhausted wait is rounded up, and the kernel's own delay.
ServedInTime == \A q \in DOMAIN out : out[q].left >= -Lateness

\* And never early: a packet goes out again only when its deadline has passed,
\* but for the fraction of a microsecond the conversion cuts off a wait.
NotEarly ==
  [][\A q \in DOMAIN out \cap DOMAIN out' :
       phase' = phase /\ out'[q].attempts > out[q].attempts =>
         out[q].left < (IF phase = "start" THEN Micro ELSE 1)]_vars

\* "An unrelated sender cannot postpone a retransmission indefinitely", nor can
\* a silent peer: send_file always comes to an end.
GivesUp == <>(phase = "done")
=============================================================================
