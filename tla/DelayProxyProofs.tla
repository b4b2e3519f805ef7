-------------------------- MODULE DelayProxyProofs --------------------------
(***************************************************************************)
(* What the integration tests rely on when they put the delay proxy on the *)
(* path, for every delay, profile of impairments and sequence of arrivals. *)
(***************************************************************************)
EXTENDS DelayProxy, FiniteSetTheorems, SequenceTheorems, TLAPS

Datagrams == [release : Nat, order : Nat, way : Ways, jumped : BOOLEAN, arrived : Nat]
Counters == {"received", "forwarded", "dropped", "burst_dropped", "duplicated",
             "reordered", "corrupted"}

\* A queue: orders are those of the arrivals counted so far, and a release is fixed
\* by the arrival and by whether the delay is skipped.
QueueOK(pending, counter) ==
  /\ IsFiniteSet(pending) /\ pending \subseteq Datagrams
  /\ \A p \in pending :
       /\ p.order < counter /\ p.arrived <= now
       /\ p.release = IF p.jumped THEN p.arrived ELSE p.arrived + Delay
  /\ \A p, q \in pending : p.order < q.order => p.arrived <= q.arrived
  /\ \A p, q \in pending : p.order = q.order => p = q

\* What has been forwarded in a direction, and what still waits behind it.
LogOK(w, pending, counter) ==
  /\ log[w] \in Seq(Datagrams)
  /\ \A i \in DOMAIN log[w] :
       /\ log[w][i].order < counter
       /\ \A p \in pending :
            p.way = w /\ log[w][i].order > p.order => log[w][i].jumped = TRUE

TypeOK ==
  /\ now \in Nat /\ due \in Nat /\ due <= now /\ arrival_counter \in Nat
  /\ stats \in [Ways -> [Counters -> Nat]]
  /\ DOMAIN log = Ways

\* The inductive invariant.
IInv ==
  /\ TypeOK
  /\ QueueOK(queue, arrival_counter)
  /\ \A w \in Ways : LogOK(w, queue, arrival_counter)
  /\ OnlyJumpersOvertake /\ DelayHonoured /\ StatsAddUp
-----------------------------------------------------------------------------
\* The queue of a direction.
Queued(w, pending) == {p \in pending : p.way = w}

\* Counting: the counters named go up by one, all others stay.
LEMMA CountedIs ==
  ASSUME TypeOK, NEW way \in Ways, NEW counters
  PROVE  /\ Counted(way, counters) \in [Ways -> [Counters -> Nat]]
         /\ \A w \in Ways \ {way} : Counted(way, counters)[w] = stats[w]
         /\ \A c \in Counters : Counted(way, counters)[way][c] =
              IF c \in counters THEN stats[way][c] + 1 ELSE stats[way][c]
  <1> DEFINE row == [c \in Counters |-> IF c \in counters THEN stats[way][c] + 1
                                        ELSE stats[way][c]]
  <1>1. stats[way] \in [Counters -> Nat] /\ DOMAIN stats[way] = Counters
    BY DEF TypeOK
  <1>2. row \in [Counters -> Nat]
    BY <1>1
  <1>3. Counted(way, counters) = [stats EXCEPT ![way] = row]
    BY <1>1 DEF Counted
  <1> HIDE DEF row
  <1>4. /\ Counted(way, counters) \in [Ways -> [Counters -> Nat]]
        /\ \A w \in Ways \ {way} : Counted(way, counters)[w] = stats[w]
        /\ Counted(way, counters)[way] = row
    BY <1>2, <1>3 DEF TypeOK
  <1> QED BY <1>4 DEF row

\* Leaving the queue: one datagram less in its direction.
LEMMA OneLess ==
  ASSUME IsFiniteSet(queue), NEW p \in queue, NEW w
  PROVE  Cardinality(Queued(w, queue \ {p})) =
           IF p.way = w THEN Cardinality(Queued(w, queue)) - 1
                        ELSE Cardinality(Queued(w, queue))
  <1>1. IsFiniteSet(Queued(w, queue))
    BY FS_Subset DEF Queued
  <1>2. CASE p.way = w
    <2>1. Queued(w, queue \ {p}) = Queued(w, queue) \ {p} /\ p \in Queued(w, queue)
      BY <1>2 DEF Queued
    <2> QED BY <1>1, <1>2, <2>1, FS_RemoveElement
  <1>3. CASE p.way # w
    <2>1. Queued(w, queue \ {p}) = Queued(w, queue)
      BY <1>3 DEF Queued
    <2> QED BY <1>3, <2>1
  <1> QED BY <1>2, <1>3

\* Entering it: one more.
LEMMA OneMore ==
  ASSUME NEW S, IsFiniteSet(S), NEW p, p \notin S, NEW w
  PROVE  /\ IsFiniteSet(S \cup {p})
         /\ Cardinality(Queued(w, S)) \in Nat
         /\ Cardinality(Queued(w, S \cup {p})) =
              IF p.way = w THEN Cardinality(Queued(w, S)) + 1
                           ELSE Cardinality(Queued(w, S))
  <1>1. IsFiniteSet(Queued(w, S)) /\ Cardinality(Queued(w, S)) \in Nat
    BY FS_Subset, FS_CardinalityType DEF Queued
  <1>2. IsFiniteSet(S \cup {p})
    BY FS_AddElement
  <1>3. CASE p.way = w
    <2>1. Queued(w, S \cup {p}) = Queued(w, S) \cup {p} /\ p \notin Queued(w, S)
      BY <1>3 DEF Queued
    <2> QED BY <1>1, <1>2, <1>3, <2>1, FS_AddElement
  <1>4. CASE p.way # w
    <2>1. Queued(w, S \cup {p}) = Queued(w, S)
      BY <1>4 DEF Queued
    <2> QED BY <1>1, <1>2, <1>4, <2>1
  <1> QED BY <1>3, <1>4

\* An entry of a log is a datagram.
LEMMA LogEntry ==
  ASSUME NEW s \in Seq(Datagrams), NEW i \in DOMAIN s
  PROVE  /\ s[i] \in Datagrams /\ s[i].order \in Nat /\ s[i].jumped \in BOOLEAN
         /\ s[i].release \in Nat /\ s[i].arrived \in Nat
  <1>1. s[i] \in Datagrams
    OBVIOUS
  <1> QED BY <1>1 DEF Datagrams

\* A datagram accepted joins the end of the queue, and overtakes nothing yet.
LEMMA Push ==
  ASSUME TypeOK, NEW S, NEW n \in Nat, QueueOK(S, n),
         \A w \in Ways : LogOK(w, S, n),
         NEW p \in Datagrams, p.order = n, p.arrived = now,
         p.release = IF p.jumped THEN now ELSE now + Delay
  PROVE  /\ p \notin S
         /\ QueueOK(S \cup {p}, n + 1)
         /\ \A w \in Ways : LogOK(w, S \cup {p}, n + 1)
  <1>1. \A q \in S : /\ q.order \in Nat /\ q.arrived \in Nat
                     /\ q.order < n /\ q.arrived <= now
    BY DEF QueueOK, Datagrams
  <1>2. now \in Nat
    BY DEF TypeOK
  <1>3. p \notin S
    BY <1>1
  <1>4. QueueOK(S \cup {p}, n + 1)
    <2>1. IsFiniteSet(S \cup {p}) /\ S \cup {p} \subseteq Datagrams
      BY FS_AddElement DEF QueueOK
    <2>2. \A q \in S \cup {p} :
            /\ q.order < n + 1 /\ q.arrived <= now
            /\ q.release = IF q.jumped THEN q.arrived ELSE q.arrived + Delay
      BY <1>1, <1>2 DEF QueueOK
    <2>3. \A q, r \in S \cup {p} : q.order < r.order => q.arrived <= r.arrived
      BY <1>1, <1>2 DEF QueueOK
    <2>4. \A q, r \in S \cup {p} : q.order = r.order => q = r
      BY <1>1 DEF QueueOK
    <2> QED BY <2>1, <2>2, <2>3, <2>4 DEF QueueOK
  <1>5. ASSUME NEW w \in Ways PROVE LogOK(w, S \cup {p}, n + 1)
    <2>1. /\ log[w] \in Seq(Datagrams)
          /\ \A i \in DOMAIN log[w] :
               /\ log[w][i].order < n
               /\ \A q \in S :
                    q.way = w /\ log[w][i].order > q.order => log[w][i].jumped = TRUE
      BY DEF LogOK
    <2>2. \A i \in DOMAIN log[w] : log[w][i].order \in Nat
      BY <2>1, LogEntry
    <2> QED BY <2>1, <2>2 DEF LogOK
  <1> QED BY <1>3, <1>4, <1>5

\* What leaves the queue without skipping the delay leaves nothing older behind.
LEMMA TopIsOldest ==
  ASSUME QueueOK(queue, arrival_counter), NEW p \in queue, Top(p), p.jumped = FALSE,
         NEW q \in queue \ {p}
  PROVE  p.order < q.order
  <1>1. /\ p.order \in Nat /\ p.arrived \in Nat /\ p.release = p.arrived + Delay
        /\ q.order \in Nat /\ q.arrived \in Nat
        /\ q.release = IF q.jumped THEN q.arrived ELSE q.arrived + Delay
        /\ q.order < p.order => q.arrived <= p.arrived
        /\ q.order # p.order
    BY DEF QueueOK, Datagrams
  <1>2. p.release < q.release \/ (p.release = q.release /\ p.order < q.order)
    BY DEF Top, Before
  <1> QED BY <1>1, <1>2, ProxyAssumption
-----------------------------------------------------------------------------
\* One direction of StatsAddUp.
AddsUp(w, row, pending) ==
  LET accounted == row["forwarded"] + row["dropped"] + Cardinality(Queued(w, pending))
      total == row["received"] + row["duplicated"]
  IN /\ accounted <= total
     /\ w = "to_server" => accounted = total

\* StatsAddUp, direction by direction.
LEMMA StatsAre == StatsAddUp <=> \A w \in Ways : AddsUp(w, stats[w], queue)
  BY DEF StatsAddUp, AddsUp, Queued

\* The same after a step.
LEMMA StatsAreNext == StatsAddUp' <=> \A w \in Ways : AddsUp(w, stats'[w], queue')
  BY DEF StatsAddUp, AddsUp, Queued

\* A datagram is dropped.
LEMMA DropInv ==
  ASSUME IInv, NEW way \in Ways, Drop(way)
  PROVE  IInv'
  <1>1. /\ TypeOK /\ QueueOK(queue, arrival_counter) /\ DelayHonoured
        /\ \A w \in Ways : LogOK(w, queue, arrival_counter)
        /\ OnlyJumpersOvertake /\ \A w \in Ways : AddsUp(w, stats[w], queue)
    BY StatsAre DEF IInv
  <1>2. PICK counters \in {{"received", "dropped"}, {"received", "dropped", "burst_dropped"}} :
          stats' = Counted(way, counters)
    BY DEF Drop
  <1>3. UNCHANGED <<now, due, log, queue, arrival_counter>>
    BY DEF Drop, Arrive
  <1>4. TypeOK'
    BY <1>1, <1>2, <1>3, CountedIs DEF TypeOK
  <1>5. ASSUME NEW w \in Ways PROVE AddsUp(w, stats'[w], queue')
    <2> DEFINE n == Cardinality(Queued(w, queue))
    <2>1. n \in Nat
      BY <1>1, FS_Subset, FS_CardinalityType DEF QueueOK, Queued
    <2>2. AddsUp(w, stats[w], queue) /\ queue' = queue
      BY <1>1, <1>3
    <2>3. CASE w # way
      BY <1>1, <1>2, <2>2, <2>3, CountedIs
    <2>4. CASE w = way
      <3>1. \A c \in Counters : stats[w][c] \in Nat
        BY <1>1 DEF TypeOK
      <3>2. \A c \in Counters : stats'[w][c] =
              IF c \in counters THEN stats[w][c] + 1 ELSE stats[w][c]
        BY <1>1, <1>2, <2>4, CountedIs
      <3>3. /\ stats'[w]["received"] = stats[w]["received"] + 1
            /\ stats'[w]["dropped"] = stats[w]["dropped"] + 1
            /\ stats'[w]["forwarded"] = stats[w]["forwarded"]
            /\ stats'[w]["duplicated"] = stats[w]["duplicated"]
        BY <1>2, <3>2 DEF Counters
      <3> QED BY <2>1, <2>2, <3>1, <3>3 DEF AddsUp, Counters
    <2> QED BY <2>3, <2>4
  <1>6. StatsAddUp'
    BY <1>5, StatsAreNext
  <1> QED BY <1>1, <1>3, <1>4, <1>6
      DEF IInv, QueueOK, LogOK, OnlyJumpersOvertake, DelayHonoured

\* A datagram is queued, once or twice.
LEMMA EnqueueInv ==
  ASSUME IInv, NEW way \in Ways, Enqueue(way)
  PROVE  IInv'
  <1>1. /\ TypeOK /\ QueueOK(queue, arrival_counter) /\ DelayHonoured
        /\ \A w \in Ways : LogOK(w, queue, arrival_counter)
        /\ OnlyJumpersOvertake /\ \A w \in Ways : AddsUp(w, stats[w], queue)
        /\ now \in Nat /\ arrival_counter \in Nat /\ arrival_counter + 1 \in Nat
    BY StatsAre DEF IInv, TypeOK
  <1>2. UNCHANGED <<now, due, log>>
    BY DEF Enqueue, Arrive
  <1>3. PICK strikes \in SUBSET {"corrupt", "reorder", "duplicate"} :
          LET jumped == "reorder" \in strikes
              release == IF jumped THEN now ELSE now + Delay
              copies == IF "duplicate" \in strikes THEN 2 ELSE 1
          IN /\ queue' = queue \cup
                  {Pending(release, n, way, jumped) :
                     n \in arrival_counter .. arrival_counter + copies - 1}
             /\ arrival_counter' = arrival_counter + copies
             /\ stats' = Counted(way, Tally(strikes))
    BY DEF Enqueue
  <1> DEFINE jumped == "reorder" \in strikes
             release == IF jumped THEN now ELSE now + Delay
             P(n) == Pending(release, n, way, jumped)
             p == P(arrival_counter)
             q == P(arrival_counter + 1)
             twice == "duplicate" \in strikes
  <1>4. /\ stats' = Counted(way, Tally(strikes))
        /\ ~ twice => queue' = queue \cup {p} /\ arrival_counter' = arrival_counter + 1
        /\ twice => /\ queue' = (queue \cup {p}) \cup {q}
                    /\ arrival_counter' = (arrival_counter + 1) + 1
    <2>1. stats' = Counted(way, Tally(strikes))
      BY <1>3
    <2>2. CASE ~ twice
      <3>1. arrival_counter .. arrival_counter + 1 - 1 = {arrival_counter}
        BY <1>1
      <3>2. {P(n) : n \in {arrival_counter}} = {p}
        OBVIOUS
      <3>3. /\ queue' = queue \cup {P(n) : n \in arrival_counter .. arrival_counter + 1 - 1}
            /\ arrival_counter' = arrival_counter + 1
        BY <1>3, <2>2
      <3> QED BY <2>1, <2>2, <3>1, <3>2, <3>3
    <2>3. CASE twice
      <3>1. arrival_counter .. arrival_counter + 2 - 1 =
              {arrival_counter, arrival_counter + 1}
        BY <1>1
      <3>2. {P(n) : n \in {arrival_counter, arrival_counter + 1}} = {p, q}
        OBVIOUS
      <3>3. /\ queue' = queue \cup {P(n) : n \in arrival_counter .. arrival_counter + 2 - 1}
            /\ arrival_counter' = arrival_counter + 2
        BY <1>3, <2>3
      <3>4. arrival_counter + 2 = (arrival_counter + 1) + 1
        BY <1>1
      <3> QED BY <2>1, <2>3, <3>1, <3>2, <3>3, <3>4
    <2> QED BY <2>2, <2>3
  <1>5. \A n \in Nat : /\ P(n) \in Datagrams /\ P(n).order = n /\ P(n).arrived = now
                       /\ P(n).release = IF P(n).jumped THEN now ELSE now + Delay
                       /\ P(n).way = way
    <2>1. release \in Nat /\ jumped \in BOOLEAN
      BY <1>1, ProxyAssumption
    <2> HIDE DEF release
    <2>2. \A n \in Nat : /\ P(n) \in Datagrams /\ P(n).order = n /\ P(n).arrived = now
                         /\ P(n).release = release /\ P(n).jumped = jumped
                         /\ P(n).way = way
      BY <1>1, <2>1 DEF Pending, Datagrams
    <2> QED BY <2>2 DEF release
  <1> HIDE DEF P
  <1>6. /\ p \notin queue /\ QueueOK(queue \cup {p}, arrival_counter + 1)
        /\ \A w \in Ways : LogOK(w, queue \cup {p}, arrival_counter + 1)
    BY <1>1, <1>5, Push
  <1>7. /\ q \notin queue \cup {p}
        /\ QueueOK((queue \cup {p}) \cup {q}, (arrival_counter + 1) + 1)
        /\ \A w \in Ways : LogOK(w, (queue \cup {p}) \cup {q}, (arrival_counter + 1) + 1)
    BY <1>1, <1>5, <1>6, Push
  <1> HIDE DEF p, q, twice
  <1>8. /\ QueueOK(queue', arrival_counter') /\ arrival_counter' \in Nat
        /\ \A w \in Ways : LogOK(w, queue', arrival_counter')
    <2>1. CASE twice
      <3>1. /\ queue' = (queue \cup {p}) \cup {q}
            /\ arrival_counter' = (arrival_counter + 1) + 1
        BY <1>4, <2>1
      <3>2. arrival_counter' \in Nat
        BY <1>1, <3>1
      <3>3. /\ QueueOK(queue', arrival_counter')
            /\ \A w \in Ways : LogOK(w, queue', arrival_counter')
        BY <1>7, <3>1, Zenon
      <3> QED BY <3>2, <3>3
    <2>2. CASE ~ twice
      <3>1. queue' = queue \cup {p} /\ arrival_counter' = arrival_counter + 1
        BY <1>4, <2>2
      <3>2. arrival_counter' \in Nat
        BY <1>1, <3>1
      <3>3. /\ QueueOK(queue', arrival_counter')
            /\ \A w \in Ways : LogOK(w, queue', arrival_counter')
        BY <1>6, <3>1, Zenon
      <3> QED BY <3>2, <3>3
    <2> QED BY <2>1, <2>2
  <1>9. QueueOK(queue, arrival_counter)' /\ \A w \in Ways : LogOK(w, queue, arrival_counter)'
    BY <1>2, <1>8 DEF QueueOK, LogOK
  <1>10. TypeOK'
    BY <1>1, <1>2, <1>4, <1>8, CountedIs DEF TypeOK
  <1>11. ASSUME NEW w \in Ways PROVE AddsUp(w, stats'[w], queue')
    <2> DEFINE n == Cardinality(Queued(w, queue))
               m == Cardinality(Queued(w, queue'))
    <2>1. p.way = way /\ q.way = way
      BY <1>1, <1>5 DEF p, q
    <2>2. /\ n \in Nat
          /\ m = IF w # way THEN n ELSE IF twice THEN n + 2 ELSE n + 1
      <3>1. /\ IsFiniteSet(queue \cup {p}) /\ n \in Nat
            /\ Cardinality(Queued(w, queue \cup {p})) = IF way = w THEN n + 1 ELSE n
        BY <1>1, <1>6, <2>1, OneMore DEF QueueOK
      <3>2. Cardinality(Queued(w, (queue \cup {p}) \cup {q})) =
              IF way = w THEN Cardinality(Queued(w, queue \cup {p})) + 1
                         ELSE Cardinality(Queued(w, queue \cup {p}))
        BY <1>7, <2>1, <3>1, OneMore
      <3>3. CASE twice
        <4>1. m = Cardinality(Queued(w, (queue \cup {p}) \cup {q}))
          BY <1>4, <3>3
        <4> HIDE DEF m, n
        <4>2. m = IF way = w THEN n + 1 + 1 ELSE n
          BY <3>1, <3>2, <4>1
        <4>3. n + 1 + 1 = n + 2
          BY <3>1
        <4> QED BY <3>1, <3>3, <4>2, <4>3
      <3>4. CASE ~ twice
        <4>1. m = Cardinality(Queued(w, queue \cup {p}))
          BY <1>4, <3>4
        <4> HIDE DEF m, n
        <4> QED BY <3>1, <3>4, <4>1
      <3> QED BY <3>3, <3>4
    <2>3. AddsUp(w, stats[w], queue)
      BY <1>1
    <2>4. \A c \in Counters : stats[w][c] \in Nat
      BY <1>1 DEF TypeOK
    <2>5. CASE w # way
      <3>1. stats'[w] = stats[w] /\ m = n
        BY <1>1, <1>4, <2>2, <2>5, CountedIs
      <3> QED BY <2>3, <3>1 DEF AddsUp
    <2>6. CASE w = way
      <3>1. \A c \in Counters : stats'[w][c] =
              IF c \in Tally(strikes) THEN stats[w][c] + 1 ELSE stats[w][c]
        BY <1>1, <1>4, <2>6, CountedIs
      <3>2. /\ stats'[w]["received"] = stats[w]["received"] + 1
            /\ stats'[w]["dropped"] = stats[w]["dropped"]
            /\ stats'[w]["forwarded"] = stats[w]["forwarded"]
            /\ stats'[w]["duplicated"] = IF twice THEN stats[w]["duplicated"] + 1
                                         ELSE stats[w]["duplicated"]
        BY <3>1 DEF Counters, Tally, twice
      <3> HIDE DEF n, m
      <3> QED BY <2>2, <2>3, <2>4, <2>6, <3>2 DEF AddsUp, Counters, n, m
    <2> QED BY <2>5, <2>6
  <1>12. StatsAddUp'
    BY <1>11, StatsAreNext
  <1> QED BY <1>1, <1>2, <1>9, <1>10, <1>12 DEF IInv, OnlyJumpersOvertake, DelayHonoured

\* The top of the queue leaves it: it overtakes only if it skipped the delay.
LEMMA ForwardInv ==
  ASSUME IInv, NEW p \in queue, Forward(p)
  PROVE  IInv'
  <1>1. /\ TypeOK /\ QueueOK(queue, arrival_counter) /\ DelayHonoured
        /\ \A w \in Ways : LogOK(w, queue, arrival_counter)
        /\ OnlyJumpersOvertake /\ \A w \in Ways : AddsUp(w, stats[w], queue)
        /\ now \in Nat /\ due \in Nat /\ due <= now /\ arrival_counter \in Nat
    BY StatsAre DEF IInv, TypeOK
  <1>2. /\ queue' = queue \ {p} /\ p.release <= due /\ Top(p)
        /\ UNCHANGED <<now, due, arrival_counter>>
        /\ IF Routable(p)
           THEN /\ log' = [log EXCEPT ![p.way] = Append(@, [p EXCEPT !.release = now])]
                /\ stats' = Counted(p.way, {"forwarded"})
           ELSE UNCHANGED <<log, stats>>
    BY DEF Forward, DueNow
  <1>3. /\ p \in Datagrams /\ p.way \in Ways /\ p.order \in Nat /\ p.arrived \in Nat
        /\ p.jumped \in BOOLEAN /\ p.release \in Nat
        /\ p.order < arrival_counter
        /\ p.release = IF p.jumped THEN p.arrived ELSE p.arrived + Delay
    BY <1>1 DEF QueueOK, Datagrams
  <1> DEFINE left == [p EXCEPT !.release = now]
  <1>4. /\ left \in Datagrams /\ left.order = p.order /\ left.jumped = p.jumped
        /\ left.arrived = p.arrived /\ left.release = now
    BY <1>1, <1>3 DEF Datagrams
  <1> HIDE DEF left
  <1>5. QueueOK(queue, arrival_counter)'
    <2>1. IsFiniteSet(queue \ {p})
      BY <1>1, FS_Subset DEF QueueOK
    <2> QED BY <1>1, <1>2, <2>1 DEF QueueOK
  <1>6. p.jumped = TRUE \/ now - p.arrived >= Delay
    BY <1>1, <1>2, <1>3, ProxyAssumption
  <1>7. p.jumped = FALSE => \A q \in queue' : p.order < q.order
    BY <1>1, <1>2, TopIsOldest
  \* Each direction by itself: what it had, or that and p.
  <1>8. ASSUME NEW w \in Ways
        PROVE  \/ log'[w] = log[w]
               \/ w = p.way /\ log'[w] = Append(log[w], left)
    BY <1>1, <1>2 DEF left, TypeOK
  <1>9. DOMAIN log' = Ways
    BY <1>1, <1>2 DEF TypeOK
  <1>10. ASSUME NEW w \in Ways
         PROVE  /\ log[w] \in Seq(Datagrams) /\ log'[w] \in Seq(Datagrams)
                /\ DOMAIN log[w] \subseteq DOMAIN log'[w]
                /\ \A i \in DOMAIN log'[w] :
                     \/ i \in DOMAIN log[w] /\ log'[w][i] = log[w][i]
                     \/ /\ i \notin DOMAIN log[w] /\ w = p.way /\ log'[w][i] = left
                        /\ \A j \in DOMAIN log'[w] : j <= i
    <2>1. log[w] \in Seq(Datagrams)
      BY <1>1 DEF LogOK
    <2>2. CASE log'[w] = log[w]
      BY <2>1, <2>2
    <2>3. CASE w = p.way /\ log'[w] = Append(log[w], left)
      <3>1. /\ log'[w] \in Seq(Datagrams) /\ Len(log'[w]) = Len(log[w]) + 1
            /\ \A i \in 1 .. Len(log[w]) : log'[w][i] = log[w][i]
            /\ log'[w][Len(log[w]) + 1] = left
        BY <1>4, <2>1, <2>3, AppendProperties
      <3>2. /\ Len(log[w]) \in Nat /\ DOMAIN log[w] = 1 .. Len(log[w])
            /\ DOMAIN log'[w] = 1 .. Len(log[w]) + 1
        BY <2>1, <3>1
      <3> QED BY <2>1, <2>3, <3>1, <3>2
    <2> QED BY <1>8, <2>2, <2>3
  <1>11. \A w \in Ways : LogOK(w, queue, arrival_counter)'
    <2> SUFFICES ASSUME NEW w \in Ways, NEW i \in DOMAIN log'[w]
                 PROVE  /\ log'[w][i].order < arrival_counter
                        /\ \A q \in queue' : q.way = w /\ log'[w][i].order > q.order =>
                             log'[w][i].jumped = TRUE
      BY <1>2, <1>10 DEF LogOK
    <2>1. CASE i \in DOMAIN log[w] /\ log'[w][i] = log[w][i]
      BY <1>1, <1>2, <2>1 DEF LogOK
    <2>2. CASE log'[w][i] = left
      <3>1. \A q \in queue' : q.order \in Nat
        BY <1>1, <1>2 DEF QueueOK, Datagrams
      <3> QED BY <1>3, <1>4, <1>7, <2>2, <3>1
    <2>3. (i \in DOMAIN log[w] /\ log'[w][i] = log[w][i]) \/ log'[w][i] = left
      BY <1>10
    <2> QED BY <2>1, <2>2, <2>3
  <1>12. OnlyJumpersOvertake'
    <2> SUFFICES ASSUME NEW w \in Ways, NEW i \in DOMAIN log'[w], NEW j \in DOMAIN log'[w],
                        i < j, log'[w][i].order > log'[w][j].order
                 PROVE  log'[w][i].jumped
      BY DEF OnlyJumpersOvertake
    <2>1. i \in Nat /\ j \in Nat
      BY <1>10
    <2>2. i \in DOMAIN log[w] /\ log'[w][i] = log[w][i]
      BY <1>10, <2>1
    <2>3. CASE j \in DOMAIN log[w] /\ log'[w][j] = log[w][j]
      BY <1>1, <2>2, <2>3 DEF OnlyJumpersOvertake
    <2>4. CASE w = p.way /\ log'[w][j] = left
      BY <1>1, <1>4, <2>2, <2>4 DEF LogOK
    <2> QED BY <1>10, <2>3, <2>4
  <1>13. DelayHonoured'
    <2> SUFFICES ASSUME NEW w \in Ways, NEW i \in DOMAIN log'[w]
                 PROVE  log'[w][i].jumped \/ log'[w][i].release - log'[w][i].arrived >= Delay
      BY DEF DelayHonoured
    <2>1. CASE i \in DOMAIN log[w] /\ log'[w][i] = log[w][i]
      BY <1>1, <2>1 DEF DelayHonoured
    <2>2. CASE log'[w][i] = left
      BY <1>4, <1>6, <2>2
    <2> QED BY <1>10, <2>1, <2>2
  <1>14. TypeOK'
    BY <1>1, <1>2, <1>3, <1>9, CountedIs DEF TypeOK
  <1>15. ASSUME NEW w \in Ways PROVE AddsUp(w, stats'[w], queue')
    <2> DEFINE n == Cardinality(Queued(w, queue))
               m == Cardinality(Queued(w, queue'))
    <2>1. n \in Nat /\ m = IF p.way = w THEN n - 1 ELSE n
      <3>1. IsFiniteSet(queue) /\ n \in Nat
        BY <1>1, FS_Subset, FS_CardinalityType DEF QueueOK, Queued
      <3> QED BY <1>2, <3>1, OneLess
    <2>2. AddsUp(w, stats[w], queue)
      BY <1>1
    <2>3. \A c \in Counters : stats[w][c] \in Nat
      BY <1>1 DEF TypeOK
    <2>4. CASE w # p.way
      <3>1. stats'[w] = stats[w] /\ m = n
        BY <1>1, <1>2, <1>3, <2>1, <2>4, CountedIs
      <3> QED BY <2>2, <3>1 DEF AddsUp
    <2>5. CASE w = p.way /\ Routable(p)
      <3>1. \A c \in Counters : stats'[w][c] =
              IF c \in {"forwarded"} THEN stats[w][c] + 1 ELSE stats[w][c]
        BY <1>1, <1>2, <1>3, <2>5, CountedIs
      <3>2. /\ stats'[w]["received"] = stats[w]["received"]
            /\ stats'[w]["dropped"] = stats[w]["dropped"]
            /\ stats'[w]["forwarded"] = stats[w]["forwarded"] + 1
            /\ stats'[w]["duplicated"] = stats[w]["duplicated"]
        BY <3>1 DEF Counters
      <3> HIDE DEF n, m
      <3> QED BY <2>1, <2>2, <2>3, <2>5, <3>2 DEF AddsUp, Counters, n, m
    <2>6. CASE w = p.way /\ ~ Routable(p)
      <3>1. stats'[w] = stats[w] /\ w # "to_server"
        BY <1>2, <2>6 DEF Routable
      <3> HIDE DEF n, m
      <3> QED BY <2>1, <2>2, <2>3, <2>6, <3>1 DEF AddsUp, Counters, n, m
    <2> QED BY <2>4, <2>5, <2>6
  <1>16. StatsAddUp'
    BY <1>15, StatsAreNext
  <1> QED BY <1>5, <1>11, <1>12, <1>13, <1>14, <1>16 DEF IInv

\* Every step keeps the invariant: the rest of them only move on.
LEMMA NextInv ==
  ASSUME IInv, [Next]_proxy
  PROVE  IInv'
  <1>1. CASE \E way \in Ways : Drop(way) \/ Enqueue(way)
    BY <1>1, DropInv, EnqueueInv
  <1>2. CASE \E p \in queue : Forward(p)
    BY <1>2, ForwardInv
  <1>3. CASE \/ Wake \/ BeginRelease \/ EndRelease \/ Stop \/ Tick
             \/ UNCHANGED proxy
    <2>1. UNCHANGED <<queue, arrival_counter, stats, log>>
      BY <1>3 DEF Wake, BeginRelease, EndRelease, Stop, Tick, proxy
    <2>2. /\ now \in Nat /\ due \in Nat /\ due <= now
          /\ now' = now \/ now' = now + 1
          /\ due' \in {due, now, 0} /\ (due' = now => now' = now \/ now' = now + 1)
      BY <1>3 DEF IInv, TypeOK, Wake, BeginRelease, EndRelease, Stop, Tick, proxy
    <2>3. now' \in Nat /\ now <= now' /\ due' \in Nat /\ due' <= now'
      BY <2>2
    <2>4. TypeOK'
      BY <2>1, <2>3 DEF IInv, TypeOK
    <2>5. QueueOK(queue, arrival_counter)'
      <3>1. \A p \in queue : p.arrived \in Nat /\ p.arrived <= now
        BY DEF IInv, QueueOK, Datagrams
      <3>2. \A p \in queue : p.arrived <= now'
        BY <2>2, <2>3, <3>1
      <3> QED BY <2>1, <3>2 DEF IInv, QueueOK
    <2> QED BY <2>1, <2>4, <2>5
        DEF IInv, LogOK, OnlyJumpersOvertake, DelayHonoured, StatsAddUp
  <1> QED BY <1>1, <1>2, <1>3 DEF Next, Release
-----------------------------------------------------------------------------
\* The queue, the statistics and what has been forwarded are in order at all times.
THEOREM ProxyInOrder == Spec => []IInv
  <1>1. Init => IInv
    <2> SUFFICES ASSUME Init PROVE IInv
      OBVIOUS
    <2>1. TypeOK
      BY DEF Init, TypeOK, NoStats, Counters
    <2>2. \A w \in Ways : log[w] = <<>> /\ stats[w] = NoStats
      BY DEF Init
    <2>3. /\ QueueOK(queue, arrival_counter)
          /\ \A w \in Ways : LogOK(w, queue, arrival_counter)
          /\ OnlyJumpersOvertake /\ DelayHonoured
      <3>1. queue = {} /\ IsFiniteSet({})
        BY FS_EmptySet DEF Init
      <3>2. DOMAIN <<>> = {} /\ <<>> \in Seq(Datagrams)
        OBVIOUS
      <3> QED BY <2>2, <3>1, <3>2 DEF QueueOK, LogOK, OnlyJumpersOvertake, DelayHonoured
    <2>4. StatsAddUp
      <3>1. \A w \in Ways : Cardinality({p \in queue : p.way = w}) = 0
        <4>1. \A w \in Ways : {p \in queue : p.way = w} = {}
          BY DEF Init
        <4> QED BY <4>1, FS_EmptySet
      <3> QED BY <2>2, <3>1 DEF StatsAddUp, NoStats
    <2> QED BY <2>1, <2>3, <2>4 DEF IInv
  <1> QED BY <1>1, NextInv, PTL DEF Spec

\* OnlyJumpersOvertake: the release loop pops the queue in arrival order, but for
\* the datagrams --reorder picked.
THEOREM NoReorderingUnasked == Spec => []OnlyJumpersOvertake
  <1>1. IInv => OnlyJumpersOvertake
    BY DEF IInv
  <1> QED BY <1>1, ProxyInOrder, PTL

\* DelayHonoured: the release loop forwards nothing before its release time, so what
\* does not skip the delay has spent it.
THEOREM DelayIsSpent == Spec => []DelayHonoured
  <1>1. IInv => DelayHonoured
    BY DEF IInv
  <1> QED BY <1>1, ProxyInOrder, PTL

\* StatsAddUp: the counters of the PROXY_STATS line and the queue account for every
\* datagram accept has taken.
THEOREM StatsLineAddsUp == Spec => []StatsAddUp
  <1>1. IInv => StatsAddUp
    BY DEF IInv
  <1> QED BY <1>1, ProxyInOrder, PTL
=============================================================================
