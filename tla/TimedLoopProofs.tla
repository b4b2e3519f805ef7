--------------------------- MODULE TimedLoopProofs ---------------------------
(***************************************************************************)
(* send_file acts on its deadlines, in time and not early, for every       *)
(* timeout, clock resolution and kernel delay: the bounds of TimedLoop.tla,*)
(* carried through the places of the loop by an inductive invariant.       *)
(***************************************************************************)
EXTENDS TimedLoop, RingArithmetic

\* How late a timer with this time left may be at a place of the loop: by what has
\* been computed since recv_from returned and, in the DATA loop, before it was
\* called; in recv_from it is what the wait still has to run that counts.
Bound(stage, at, wait, spent, left) ==
  /\ stage = "start" /\ at # "recv" => left >= 1 - Micro - Slack - spent
  /\ stage = "start" /\ at \in {"expire", "send"} => left < Micro
  /\ stage = "start" /\ at = "recv" =>
       left - wait >= 1 - Micro - Slack /\ left - wait < Micro
  /\ stage = "data" /\ at = "send" => left >= 1 - spent
  /\ stage = "data" /\ at = "recv" => left - wait >= 1 - Busy - Micro - Slack
  /\ stage = "data" /\ at = "expire" => left >= 1 - Busy - Micro - Slack - spent
  /\ left >= -Lateness

Timers == [left : Int, attempts : Nat \ {0}]

\* The inductive invariant.  The receive timeout is never Never.
OnTime ==
  /\ phase \in {"start", "data", "done"}
  /\ pc \in {"send", "arm", "recv", "expire"} /\ (phase = "data" => pc # "arm")
  /\ wake \in Nat /\ busy \in 0 .. Busy /\ next \in Nat
  /\ out \in [DOMAIN out -> Timers]
  /\ phase = "start" => DOMAIN out \subseteq {0}
  /\ phase = "start" /\ pc # "send" => DOMAIN out = {0}
  /\ \A q \in DOMAIN out : Bound(phase, pc, wake, busy, out[q].left)
-----------------------------------------------------------------------------
\* The receive timeout armed for a wait: it is never the zero that means for ever,
\* less than a microsecond short, and long only by the kernel's delay or by the
\* rounding of a wait of less than a microsecond.
LEMMA Armed ==
  ASSUME NEW wait \in Nat, NEW w \in Blocks(set_receive_timeout(Micros(wait)))
  PROVE  /\ w \in Nat
         /\ wait - w < Micro
         /\ w <= wait + Slack \/ (w <= Micro + Slack /\ wait < Micro)
  <1> DEFINE m == wait \div Micro
             timeout == IF m <= 0 THEN 1 ELSE m
             sec == timeout \div Second
             usec == timeout % Second
  <1>1. Micro \in Nat \ {0} /\ Second \in Nat \ {0} /\ Slack \in Nat
    BY TimedAssumption
  <1>2. /\ m \in Int /\ wait % Micro \in 0 .. Micro - 1
        /\ wait = Micro * m + (wait % Micro)
    BY <1>1, DivMod
  <1> HIDE DEF m
  <1>3. m \in Nat
    BY <1>1, <1>2
  <1>4. timeout \in Nat \ {0}
    BY <1>3
  <1>5. set_receive_timeout(Micros(wait)) = [sec |-> sec, usec |-> usec]
    BY DEF set_receive_timeout, Micros, m
  <1> HIDE DEF timeout
  <1>6. sec \in Int /\ usec \in 0 .. Second - 1 /\ timeout = Second * sec + usec
    BY <1>1, <1>4, DivMod
  <1> HIDE DEF sec, usec
  <1>7. sec * Second + usec = timeout
    BY <1>1, <1>6
  <1>8. ~ (sec = 0 /\ usec = 0)
    BY <1>1, <1>4, <1>6
  <1>9. PICK late \in 0 .. Slack : w = timeout * Micro + late
    <2>1. w \in {(sec * Second + usec) * Micro + late : late \in 0 .. Slack}
      BY <1>5, <1>8 DEF Blocks
    <2> QED BY <1>7, <2>1
  <1>10. CASE m <= 0
    <2>1. m = 0 /\ timeout = 1
      BY <1>3, <1>10 DEF timeout
    <2>2. wait < Micro /\ w = Micro + late
      BY <1>1, <1>2, <1>9, <2>1
    <2> QED BY <1>1, <2>2
  <1>11. CASE ~ (m <= 0)
    <2>1. timeout = m
      BY <1>11 DEF timeout
    <2> DEFINE x == Micro * m
    <2>2. x \in Nat /\ w = x + late /\ wait = x + (wait % Micro)
      BY <1>1, <1>2, <1>3, <1>9, <2>1
    <2> HIDE DEF x
    <2> QED BY <1>1, <1>2, <2>2
  <1> QED BY <1>10, <1>11

\* The earliest deadline is that of a packet, and no packet has an earlier one.
LEMMA EarliestIs ==
  ASSUME NEW low \in Nat, DOMAIN out # {},
         \A q \in DOMAIN out : out[q].left \in Int /\ out[q].left + low >= 0
  PROVE  /\ Earliest \in Int
         /\ \E q \in DOMAIN out : Earliest = out[q].left
         /\ \A q \in DOMAIN out : Earliest <= out[q].left
  <1> DEFINE S == {out[q].left : q \in DOMAIN out}
             T == {out[q].left + low : q \in DOMAIN out}
  <1>1. T \in SUBSET Nat /\ T # {}
    OBVIOUS
  <1>2. PICK x \in T : \A y \in T : x <= y
    <2> HIDE DEF T
    <2> QED BY <1>1, LeastElement
  <1>3. PICK p \in DOMAIN out : x = out[p].left + low
    BY <1>2
  <1>4. \A q \in DOMAIN out : out[p].left <= out[q].left
    <2> SUFFICES ASSUME NEW q \in DOMAIN out PROVE out[p].left <= out[q].left
      OBVIOUS
    <2>1. x <= out[q].left + low
      BY <1>2
    <2>2. out[p].left \in Int /\ out[q].left \in Int
      OBVIOUS
    <2> QED BY <1>3, <2>1, <2>2
  <1>5. \E s \in S : \A y \in S : s =< y
    BY <1>4
  <1>6. Earliest \in S /\ \A y \in S : Earliest =< y
    <2> HIDE DEF S
    <2>1. Earliest = CHOOSE s \in S : \A y \in S : s =< y
      BY DEF Earliest, Min, S
    <2> QED BY <1>5, <2>1
  <1> QED BY <1>6
-----------------------------------------------------------------------------
\* Every step keeps the invariant.
LEMMA StepOnTime ==
  ASSUME OnTime, [Next]_vars
  PROVE  OnTime'
  <1>1. /\ {Micro, Rto, Busy} \subseteq Nat \ {0} /\ Slack \in Nat
        /\ Lateness = 2 * Busy + Micro + Slack - 1 /\ Lateness \in Nat
        /\ Floor = -(Lateness + 1) /\ Floor \in Int
    BY TimedAssumption DEF Lateness, Floor
  <1>2. /\ phase \in {"start", "data", "done"}
        /\ pc \in {"send", "arm", "recv", "expire"} /\ (phase = "data" => pc # "arm")
        /\ wake \in Nat /\ busy \in 0 .. Busy /\ next \in Nat
        /\ out \in [DOMAIN out -> Timers]
        /\ phase = "start" => DOMAIN out \subseteq {0}
        /\ phase = "start" /\ pc # "send" => DOMAIN out = {0}
    BY DEF OnTime
  <1>3. \A q \in DOMAIN out : /\ out[q].left \in Int /\ out[q].attempts \in Nat \ {0}
                              /\ Bound(phase, pc, wake, busy, out[q].left)
    BY DEF OnTime, Timers
  \* A step that only moves on within the loop.
  <1>4. ASSUME out' = out, next' = next, wake' \in Nat, busy' \in 0 .. Busy,
               phase' = phase, pc' \in {"send", "arm", "recv", "expire"},
               phase = "data" => pc' # "arm",
               phase = "start" /\ pc' # "send" => DOMAIN out = {0},
               \A q \in DOMAIN out : Bound(phase, pc', wake', busy', out[q].left)
        PROVE  OnTime'
    BY <1>2, <1>4 DEF OnTime
  \* A step that leaves nothing outstanding.
  <1>5. ASSUME out' = <<>>, next' = next, wake' \in Nat, busy' \in 0 .. Busy,
               phase' \in {"data", "done"}, pc' = "send"
        PROVE  OnTime'
    <2>1. DOMAIN out' = {} /\ out' \in [{} -> Timers]
      BY <1>5
    <2> QED BY <1>2, <1>5, <2>1 DEF OnTime
  <1>6. 0 \in 0 .. Busy /\ NoWait \in Nat
    BY <1>1 DEF NoWait
  <1>7. CASE ControlSend
    <2> DEFINE timer == IF out = <<>> THEN Fresh(0)
                        ELSE [left |-> Rto, attempts |-> out[0].attempts + 1]
    <2>1. /\ out' = [q \in {0} |-> timer]
          /\ phase = "start" /\ phase' = phase /\ pc' = "arm" /\ next' = next
          /\ wake' = wake /\ busy' = busy
      BY <1>7 DEF ControlSend
    <2>2. timer \in Timers /\ timer.left = Rto
      <3>1. CASE DOMAIN out = {}
        <4>1. out = <<>>
          BY <1>2, <3>1
        <4> QED BY <1>1, <4>1 DEF Fresh, Timers
      <3>2. CASE DOMAIN out = {0}
        <4>1. out[0].attempts + 1 \in Nat \ {0}
          BY <1>3, <3>2
        <4> QED BY <1>1, <4>1 DEF Fresh, Timers
      <3> QED BY <1>2, <2>1, <3>1, <3>2
    <2> HIDE DEF timer
    <2>3. /\ DOMAIN out' = {0} /\ out' \in [{0} -> Timers] /\ out'[0].left = Rto
      BY <2>1, <2>2
    <2>4. Bound("start", "arm", wake, busy, Rto)
      BY <1>1, <1>2 DEF Bound
    <2> QED BY <1>2, <2>1, <2>3, <2>4 DEF OnTime
  <1>8. CASE ControlArm
    <2>1. /\ phase = "start" /\ pc = "arm" /\ DOMAIN out = {0}
          /\ out[0].left \in Int
          /\ Bound("start", "arm", wake, busy, out[0].left)
      BY <1>2, <1>3, <1>8 DEF ControlArm
    <2>2. CASE out[0].left > 0
      <3>1. /\ wake' \in Blocks(set_receive_timeout(Micros(out[0].left)))
            /\ pc' = "recv" /\ phase' = phase /\ out' = out /\ next' = next
            /\ busy' = busy
        BY <1>8, <2>1, <2>2 DEF ControlArm, Receive
      <3>2. out[0].left \in Nat
        BY <2>1, <2>2
      <3>3. /\ wake' \in Nat /\ out[0].left - wake' < Micro
            /\ \/ wake' <= out[0].left + Slack
               \/ wake' <= Micro + Slack /\ out[0].left < Micro
        BY <3>1, <3>2, Armed
      <3>4. Bound("start", "recv", wake', busy', out[0].left)
        BY <1>1, <2>1, <2>2, <3>3 DEF Bound
      <3> QED BY <1>2, <1>4, <2>1, <3>1, <3>3, <3>4
    <2>3. CASE out[0].left <= 0
      <3>1. /\ pc' = "expire" /\ UNCHANGED <<phase, out, next, wake, busy>>
        BY <1>8, <2>1, <2>3 DEF ControlArm
      <3>2. Bound("start", "expire", wake, busy, out[0].left)
        BY <1>1, <2>1, <2>3 DEF Bound
      <3> QED BY <1>2, <1>4, <2>1, <3>1, <3>2
    <2> QED BY <2>1, <2>2, <2>3
  <1>9. CASE ControlStray \/ ControlWaited
    <2>1. /\ phase = "start" /\ pc = "recv" /\ DOMAIN out = {0}
          /\ UNCHANGED <<phase, out, next>> /\ wake' = NoWait /\ busy' = 0
          /\ \/ pc' = "arm"
             \/ pc' = "expire" /\ wake = NoWait
      BY <1>2, <1>9 DEF ControlStray, ControlWaited, Woken
    <2>2. out[0].left \in Int /\ Bound("start", "recv", wake, busy, out[0].left)
      BY <1>3, <2>1
    <2>3. Bound("start", pc', wake', busy', out[0].left)
      BY <1>1, <1>2, <2>1, <2>2 DEF Bound, NoWait
    <2> QED BY <1>2, <1>4, <1>6, <2>1, <2>3
  <1>10. CASE ControlReply
    BY <1>5, <1>6, <1>10 DEF ControlReply, Woken
  <1>11. CASE ControlTimeout
    <2>1. /\ phase = "start" /\ pc = "expire" /\ DOMAIN out = {0} /\ pc' = "send"
          /\ UNCHANGED <<next, wake, busy>>
          /\ \/ UNCHANGED <<phase, out>>
             \/ phase' = "done" /\ out' = <<>>
      BY <1>2, <1>11 DEF ControlTimeout
    <2>2. out[0].left \in Int /\ Bound("start", "expire", wake, busy, out[0].left)
      BY <1>3, <2>1
    <2>3. Bound("start", "send", wake, busy, out[0].left)
      BY <2>2 DEF Bound
    <2> QED BY <1>2, <1>4, <1>5, <2>1, <2>3
  <1>12. CASE DataSend
    <2>1. /\ phase = "data" /\ pc = "send" /\ UNCHANGED <<phase, pc, wake, busy>>
          /\ next' = next + 1
          /\ out' = [q \in DOMAIN out \cup {next} |-> IF q = next THEN Fresh(q) ELSE out[q]]
      BY <1>12 DEF DataSend
    <2>2. \A q : Fresh(q) \in Timers /\ Fresh(q).left = Rto
      BY <1>1 DEF Fresh, Timers
    <2>3. Bound("data", "send", wake, busy, Rto)
      <3>1. Rto \in Nat \ {0} /\ busy \in Nat /\ Lateness \in Nat
        BY <1>1, <1>2
      <3>2. Rto >= 1 - busy /\ Rto >= -Lateness
        BY <3>1
      <3> QED BY <3>2 DEF Bound
    <2>4. /\ DOMAIN out' = DOMAIN out \cup {next}
          /\ \A q \in DOMAIN out' : \/ out'[q] = Fresh(q)
                                    \/ q \in DOMAIN out /\ out'[q] = out[q]
      BY <2>1
    <2>5. out' \in [DOMAIN out' -> Timers]
      BY <1>2, <2>1, <2>2
    <2>6. \A q \in DOMAIN out' : Bound("data", "send", wake, busy, out'[q].left)
      BY <1>3, <2>1, <2>2, <2>3, <2>4
    <2>7. next' \in Nat
      BY <1>2, <2>1
    <2> QED BY <1>2, <2>1, <2>5, <2>6, <2>7 DEF OnTime
  <1>13. CASE DataArm
    <2> DEFINE wait == IF Earliest < 0 THEN 0 ELSE Earliest
    <2>1. /\ phase = "data" /\ pc = "send" /\ pc' = "recv"
          /\ wake' \in Blocks(set_receive_timeout(Micros(wait)))
          /\ UNCHANGED <<phase, out, next, busy>>
          /\ Base < Total /\ (next = Total \/ next = Base + Capacity)
      BY <1>13 DEF DataArm, Receive
    <2>2. DOMAIN out # {}
      <3> SUFFICES ASSUME DOMAIN out = {} PROVE FALSE
        OBVIOUS
      <3>1. out = <<>>
        BY <1>2
      <3>2. Base = next
        BY <3>1 DEF Base
      <3> QED BY <1>2, <2>1, <3>2, TimedAssumption
    <2>3. \A q \in DOMAIN out : out[q].left \in Int /\ out[q].left >= 1 - Busy
      BY <1>1, <1>2, <1>3, <2>1 DEF Bound
    <2>4. /\ Earliest \in Int
          /\ \A q \in DOMAIN out : Earliest <= out[q].left
      <3>1. Busy \in Nat /\ \A q \in DOMAIN out : out[q].left \in Int /\ out[q].left + Busy >= 0
        BY <1>1, <2>3
      <3> QED BY <2>2, <3>1, EarliestIs
    <2>5. wait \in Nat
      BY <2>4
    <2>6. /\ wake' \in Nat
          /\ wake' <= wait + Slack \/ (wake' <= Micro + Slack /\ wait < Micro)
      BY <2>1, <2>5, Armed
    <2>7. \A q \in DOMAIN out : Bound("data", "recv", wake', busy, out[q].left)
      <3> SUFFICES ASSUME NEW q \in DOMAIN out
                   PROVE  Bound("data", "recv", wake', busy, out[q].left)
        OBVIOUS
      <3>1. out[q].left \in Int /\ out[q].left >= 1 - Busy /\ Earliest <= out[q].left
        BY <2>3, <2>4
      <3>2. out[q].left - wake' >= 1 - Busy - Micro - Slack
        BY <1>1, <2>4, <2>6, <3>1
      <3> QED BY <1>1, <3>1, <3>2 DEF Bound
    <2> QED BY <1>2, <1>4, <2>1, <2>6, <2>7
  <1>14. CASE DataDone
    <2>1. phase = "data" /\ phase' = "done" /\ UNCHANGED <<pc, out, next, wake, busy>>
      BY <1>14 DEF DataDone
    <2>2. \A q \in DOMAIN out : Bound("done", pc, wake, busy, out[q].left)
      BY <1>3 DEF Bound
    <2> QED BY <1>2, <2>1, <2>2 DEF OnTime
  <1>15. CASE DataReceive \/ DataWaited
    <2>1. /\ phase = "data" /\ pc = "recv" /\ pc' = "expire"
          /\ UNCHANGED <<phase, next>> /\ wake' = NoWait /\ busy' = 0
          /\ \E acked : out' = [q \in DOMAIN out \ acked |-> out[q]]
      <3>1. CASE DataReceive
        BY <3>1 DEF DataReceive, Woken
      <3>2. CASE DataWaited
        <4>1. out' = [q \in DOMAIN out \ {} |-> out[q]]
          BY <1>2, <3>2 DEF DataWaited
        <4> QED BY <3>2, <4>1 DEF DataWaited
      <3> QED BY <1>15, <3>1, <3>2
    <2>2. /\ DOMAIN out' \subseteq DOMAIN out
          /\ \A q \in DOMAIN out' : out'[q] = out[q]
          /\ out' \in [DOMAIN out' -> Timers]
      BY <1>2, <2>1
    <2>3. \A q \in DOMAIN out : Bound("data", "expire", NoWait, 0, out[q].left)
      <3> SUFFICES ASSUME NEW q \in DOMAIN out
                   PROVE  Bound("data", "expire", NoWait, 0, out[q].left)
        OBVIOUS
      <3>1. out[q].left \in Int /\ Bound("data", "recv", wake, busy, out[q].left)
        BY <1>3, <2>1
      <3> QED BY <1>1, <1>2, <3>1 DEF Bound
    <2> QED BY <1>2, <1>6, <2>1, <2>2, <2>3 DEF OnTime
  <1>16. CASE DataExpire
    <2> DEFINE due == {q \in DOMAIN out : out[q].left <= 0}
               again(q) == [left |-> Rto, attempts |-> out[q].attempts + 1]
    <2>1. /\ phase = "data" /\ pc = "expire" /\ pc' = "send"
          /\ UNCHANGED <<next, wake, busy>>
          /\ \/ /\ out' = [q \in DOMAIN out |-> IF q \in due THEN again(q) ELSE out[q]]
                /\ phase' = phase
             \/ phase' = "done" /\ out' = <<>>
      BY <1>16 DEF DataExpire
    <2>2. CASE /\ out' = [q \in DOMAIN out |-> IF q \in due THEN again(q) ELSE out[q]]
               /\ phase' = phase
      <3>1. \A q \in DOMAIN out : again(q) \in Timers /\ again(q).left = Rto
        BY <1>1, <1>3 DEF Timers
      <3>2. DOMAIN out' = DOMAIN out /\ out' \in [DOMAIN out -> Timers]
        BY <1>2, <2>2, <3>1
      <3>3. \A q \in DOMAIN out : out'[q].left \in Int /\ out'[q].left >= 1
        BY <1>1, <1>3, <2>2, <3>1
      <3>4. \A q \in DOMAIN out : Bound("data", "send", wake, busy, out'[q].left)
        BY <1>1, <1>2, <3>3 DEF Bound
      <3> QED BY <1>2, <2>1, <2>2, <3>2, <3>4 DEF OnTime
    <2> QED BY <1>2, <1>5, <2>1, <2>2
  <1>17. CASE Elapse
    <2>1. /\ phase \in {"start", "data"} /\ UNCHANGED <<phase, pc, next>>
          /\ \/ pc = "recv" /\ wake # NoWait /\ busy' = busy
                /\ wake' = IF wake = Never THEN Never ELSE wake - 1
             \/ pc # "recv" /\ busy < Busy /\ busy' = busy + 1 /\ wake' = wake
          /\ out' = [q \in DOMAIN out |->
                       [out[q] EXCEPT !.left = IF @ > Floor THEN @ - 1 ELSE @]]
      BY <1>2, <1>17 DEF Elapse
    <2>2. /\ wake' \in Nat /\ busy' \in 0 .. Busy
          /\ \/ pc = "recv" /\ busy' = busy /\ wake' = wake - 1
             \/ pc # "recv" /\ busy' = busy + 1 /\ wake' = wake
      BY <1>1, <1>2, <2>1 DEF NoWait, Never
    <2>3. \A q \in DOMAIN out : out[q].left > Floor
      BY <1>1, <1>3 DEF Bound
    <2>4. \A q \in DOMAIN out : out'[q] = [out[q] EXCEPT !.left = @ - 1]
      BY <2>1, <2>3
    <2>5. DOMAIN out' = DOMAIN out /\ out' = [q \in DOMAIN out |-> out'[q]]
      BY <2>1
    <2>6. \A q \in DOMAIN out : out'[q] \in Timers /\ out'[q].left = out[q].left - 1
      <3> SUFFICES ASSUME NEW q \in DOMAIN out
                   PROVE  out'[q] \in Timers /\ out'[q].left = out[q].left - 1
        OBVIOUS
      <3>1. out[q] \in Timers /\ out'[q] = [out[q] EXCEPT !.left = @ - 1]
        BY <1>2, <2>4
      <3> QED BY <3>1 DEF Timers
    <2>7. \A q \in DOMAIN out : Bound(phase, pc, wake', busy', out'[q].left)
      <3> SUFFICES ASSUME NEW q \in DOMAIN out
                   PROVE  Bound(phase, pc, wake', busy', out'[q].left)
        OBVIOUS
      <3>1. /\ out[q].left \in Int /\ out'[q].left = out[q].left - 1
            /\ Bound(phase, pc, wake, busy, out[q].left)
        BY <1>3, <2>6
      <3> QED BY <1>1, <1>2, <2>1, <2>2, <3>1 DEF Bound
    <2> QED BY <1>2, <2>1, <2>2, <2>5, <2>6, <2>7 DEF OnTime
  <1>18. CASE UNCHANGED vars
    BY <1>2, <1>3, <1>4, <1>18 DEF vars
  <1> QED BY <1>7, <1>8, <1>9, <1>10, <1>11, <1>12, <1>13, <1>14, <1>15, <1>16, <1>17,
             <1>18 DEF Next, Step, Arrival
-----------------------------------------------------------------------------
\* The invariant holds at all times.
THEOREM AlwaysOnTime == Spec => []OnTime
  <1>1. Init => OnTime
    <2> SUFFICES ASSUME Init PROVE OnTime
      OBVIOUS
    <2>1. DOMAIN out = {} /\ out \in [{} -> Timers]
      BY DEF Init
    <2> QED BY <2>1, TimedAssumption DEF Init, OnTime, NoWait
  <1> QED BY <1>1, StepOnTime, PTL DEF Spec

\* A timer that has run out is acted on, whatever arrives meanwhile, within the
\* time computed, one microsecond and the kernel's own delay.
THEOREM DeadlinesServed == Spec => []ServedInTime
  <1>1. OnTime => ServedInTime
    BY DEF OnTime, ServedInTime, Bound
  <1> QED BY <1>1, AlwaysOnTime, PTL

\* A packet goes out again only when its deadline has passed, but for less than a
\* microsecond in the handshake.
THEOREM NoEarlyRetransmission == Spec => NotEarly
  <1> DEFINE Early(q) ==
        phase' = phase /\ out'[q].attempts > out[q].attempts =>
          out[q].left < (IF phase = "start" THEN Micro ELSE 1)
  <1>1. OnTime /\ [Next]_vars => [\A q \in DOMAIN out \cap DOMAIN out' : Early(q)]_vars
    <2> SUFFICES ASSUME OnTime, Next, NEW q \in DOMAIN out, q \in DOMAIN out'
                 PROVE  Early(q)
      OBVIOUS
    <2>1. /\ out[q].left \in Int /\ out[q].attempts \in Nat \ {0}
          /\ Bound(phase, pc, wake, busy, out[q].left)
      BY DEF OnTime, Timers
    <2>2. CASE ControlSend
      BY <2>1, <2>2 DEF ControlSend, Bound
    <2>3. CASE DataExpire
      <3>1. phase = "data" /\ (phase' = phase => out[q].left <= 0 \/ out'[q] = out[q])
        BY <2>1, <2>3, TimedAssumption DEF DataExpire
      <3> QED BY <2>1, <3>1
    <2>4. CASE DataSend
      <3>1. out'[q] = out[q] \/ out'[q].attempts = 1
        BY <2>4 DEF DataSend, Fresh
      <3> QED BY <2>1, <3>1
    <2>5. CASE Elapse
      <3>1. out[q] \in Timers
        BY DEF OnTime
      <3>2. out'[q].attempts = out[q].attempts
        BY <2>5, <3>1 DEF Elapse, Timers
      <3> QED BY <2>1, <3>2
    <2>6. CASE \/ ControlArm \/ ControlStray \/ ControlWaited \/ DataArm \/ DataDone
               \/ DataReceive \/ DataWaited
      <3>1. out'[q] = out[q]
        BY <2>6 DEF ControlArm, ControlStray, ControlWaited, DataArm, DataDone,
             DataReceive, DataWaited, Receive
      <3> QED BY <2>1, <3>1
    <2>7. CASE ControlReply \/ ControlTimeout
      <3>1. phase' = phase => out' = out
        BY <2>7 DEF ControlReply, ControlTimeout
      <3> QED BY <2>1, <3>1
    <2> QED BY <2>2, <2>3, <2>4, <2>5, <2>6, <2>7 DEF Next, Step, Arrival
  <1> QED BY <1>1, AlwaysOnTime, PTL DEF Spec, NotEarly
=============================================================================
