----------------------------- MODULE DelayProxy -----------------------------
(***************************************************************************)
(* tools/delay_proxy.cpp: the impairment proxy the integration tests put   *)
(* between client and server.  Each datagram is dropped, corrupted,        *)
(* duplicated, or queued until its release time; a pass of the loop reads  *)
(* at most one datagram from either side, then forwards all that is due.   *)
(* Time may pass between any two steps of it.                              *)
(*                                                                         *)
(* The random draws are nondeterministic choices among the impairments     *)
(* that are switched on.  log is a history variable: what was forwarded in *)
(* each direction, in order.                                               *)
(***************************************************************************)
EXTENDS Integers, Sequences, FiniteSets

CONSTANTS Impairments,   \* those with a nonzero probability
          ImpairedWays,  \* --impair: the directions they apply to
          Delay,         \* the one-way delay, in ticks
          IdleExit,      \* idle_exit_ms, in ticks
          MaxArrivals,   \* bound: datagrams that arrive
          MaxTime        \* bound: ticks of the clock

Ways == {"to_server", "to_client"}

ASSUME ProxyAssumption ==
  /\ Impairments \subseteq {"loss", "burst", "corrupt", "reorder", "duplicate"}
  /\ ImpairedWays \subseteq Ways
  /\ Delay \in Nat /\ IdleExit \in Nat /\ MaxArrivals \in Nat /\ MaxTime \in Nat
  \* "--reorder needs a nonzero one-way delay": main refuses otherwise.
  /\ "reorder" \in Impairments => Delay > 0

VARIABLES now,             \* the clock
          queue,           \* the datagrams waiting for their release
          arrival_counter,
          arrivals,        \* datagrams received, both ways together
          bad,             \* the Gilbert-Elliott state of each direction
          stats,           \* DirectionStats
          client_known,
          last_activity,
          pc,              \* in a pass: "poll", "back", "release" or "drain";
                           \* "stopped" after a signal
          due,             \* the now of the release loop, while it runs
          running,
          log              \* see above

proxy == <<now, queue, arrival_counter, arrivals, bad, stats, client_known,
           last_activity, pc, due, running, log>>

NoStats == [received |-> 0, forwarded |-> 0, dropped |-> 0, burst_dropped |-> 0,
            duplicated |-> 0, reordered |-> 0, corrupted |-> 0]

Init ==
  /\ now = 0 /\ queue = {} /\ arrival_counter = 0 /\ arrivals = 0
  /\ bad = [w \in Ways |-> FALSE]
  /\ stats = [w \in Ways |-> NoStats]
  /\ client_known = FALSE /\ last_activity = 0
  /\ pc = "poll" /\ due = 0 /\ running = TRUE
  /\ log = [w \in Ways |-> <<>>]

\* An impairment is switched on for this direction and may strike.
May(impairment, way) == way \in ImpairedWays /\ impairment \in Impairments

\* Some of the counters of a direction go up by one.
Counted(way, counters) ==
  [stats EXCEPT ![way] =
     [c \in DOMAIN @ |-> IF c \in counters THEN @[c] + 1 ELSE @[c]]]

Pending(release, order, way, jumped) ==
  [release |-> release, order |-> order, way |-> way, jumped |-> jumped,
   arrived |-> now]

\* GilbertElliott::lost: the state decides, then may change.
Lost(way) == May("burst", way) /\ bad[way]
Flips(way) == IF May("burst", way) THEN {bad[way], ~ bad[way]} ELSE {bad[way]}
-----------------------------------------------------------------------------
(***************************************************************************)
(* accept                                                                  *)
(***************************************************************************)

\* One more datagram (early enough for its release to be within MaxTime).  A
\* pass reads from the front, then from the back, at most one from each.
Arrive(way) ==
  /\ running /\ arrivals < MaxArrivals /\ now + Delay <= MaxTime
  /\ \/ way = "to_server" /\ pc = "poll" /\ pc' \in {"back", "release"}
     \/ way = "to_client" /\ pc \in {"poll", "back"} /\ pc' = "release"
  /\ arrivals' = arrivals + 1
  /\ last_activity' = now
  /\ client_known' = (client_known \/ way = "to_server")
  /\ UNCHANGED <<now, due, running, log>>

Drop(way) ==
  /\ Arrive(way)
  /\ \/ May("loss", way) /\ stats' = Counted(way, {"received", "dropped"})
                         /\ UNCHANGED bad
     \/ /\ Lost(way)
        /\ stats' = Counted(way, {"received", "dropped", "burst_dropped"})
        /\ \E b \in Flips(way) : bad' = [bad EXCEPT ![way] = b]
  /\ UNCHANGED <<queue, arrival_counter>>

\* Mutant: a second copy is not counted.
Tally_uncopied(strikes) ==
  {"received"} \cup (IF "corrupt" \in strikes THEN {"corrupted"} ELSE {})
               \cup (IF "reorder" \in strikes THEN {"reordered"} ELSE {})

\* The counters that go up for a datagram that is queued.
Tally(strikes) ==
  {"received"} \cup (IF "corrupt" \in strikes THEN {"corrupted"} ELSE {})
               \cup (IF "reorder" \in strikes THEN {"reordered"} ELSE {})
               \cup (IF "duplicate" \in strikes THEN {"duplicated"} ELSE {})

\* What survives is queued for Delay from now, or to leave at once, alone or
\* with a second copy on the same schedule.
Enqueue(way) ==
  /\ Arrive(way)
  /\ ~ Lost(way)
  /\ \E b \in Flips(way) : bad' = [bad EXCEPT ![way] = b]
  /\ \E strikes \in SUBSET {i \in {"corrupt", "reorder", "duplicate"} : May(i, way)} :
       LET jumped == "reorder" \in strikes
           release == IF jumped THEN now ELSE now + Delay
           copies == IF "duplicate" \in strikes THEN 2 ELSE 1
       IN /\ queue' = queue \cup
               {Pending(release, n, way, jumped) :
                  n \in arrival_counter .. arrival_counter + copies - 1}
          /\ arrival_counter' = arrival_counter + copies
          /\ stats' = Counted(way, Tally(strikes))

\* Mutant: with nothing to read, ppoll sleeps on whatever is queued.
Wakes_idle == pc = "back" \/ queue = {}

\* ppoll's timeout: until the earliest release; with an empty queue, now and
\* then, to look at the idle deadline.
Wakes == pc = "back" \/ queue = {} \/ (\E p \in queue : p.release <= now)

\* ppoll returns with nothing (more) to read.
Wake ==
  /\ running /\ pc \in {"poll", "back"} /\ Wakes
  /\ pc' = "release"
  /\ UNCHANGED <<now, queue, arrival_counter, arrivals, bad, stats, client_known,
                 last_activity, due, running, log>>
-----------------------------------------------------------------------------
(***************************************************************************)
(* The release loop                                                        *)
(***************************************************************************)

\* Mutant: no tie-breaker, so ties leave last in, first out.
Before_untied(p, q) ==
  p.release < q.release \/ (p.release = q.release /\ p.order > q.order)

\* Pending::operator<, inverted: the earliest first, ties in arrival order.
Before(p, q) ==
  p.release < q.release \/ (p.release = q.release /\ p.order < q.order)

\* A reply can only be forwarded to a client that has been heard from.
Routable(p) == p.way = "to_server" \/ client_known

\* Mutant: everything queued leaves.
DueNow_all == queue

DueNow == {p \in queue : p.release <= due}

\* queue.top().
Top(p) == \A q \in queue \ {p} : Before(p, q)

\* The clock is read once, for all that is due by then.
BeginRelease ==
  /\ running /\ pc = "release"
  /\ pc' = "drain" /\ due' = now
  /\ UNCHANGED <<now, queue, arrival_counter, arrivals, bad, stats, client_known,
                 last_activity, running, log>>

\* The top of the queue is forwarded, if there is anyone to send it to, and popped.
Forward(p) ==
  /\ running /\ pc = "drain"
  /\ p \in DueNow /\ Top(p)
  /\ IF Routable(p)
     THEN /\ log' = [log EXCEPT ![p.way] = Append(@, [p EXCEPT !.release = now])]
          /\ stats' = Counted(p.way, {"forwarded"})
     ELSE UNCHANGED <<log, stats>>
  /\ queue' = queue \ {p}
  /\ UNCHANGED <<now, arrival_counter, arrivals, bad, client_known, last_activity,
                 pc, due, running>>

\* Mutant: the proxy exits although something is queued.
EndRelease_hasty ==
  /\ running /\ pc = "drain" /\ DueNow = {}
  /\ pc' = "poll" /\ due' = 0
  /\ running' = ~ (now - last_activity > IdleExit)
  /\ UNCHANGED <<now, queue, arrival_counter, arrivals, bad, stats, client_known,
                 last_activity, log>>

\* Nothing more is due; with nothing queued for long enough the proxy exits.
EndRelease ==
  /\ running /\ pc = "drain" /\ DueNow = {}
  /\ pc' = "poll" /\ due' = 0
  /\ running' = ~ (queue = {} /\ now - last_activity > IdleExit)
  /\ UNCHANGED <<now, queue, arrival_counter, arrivals, bad, stats, client_known,
                 last_activity, log>>

Release == BeginRelease \/ (\E p \in queue : Forward(p)) \/ EndRelease

\* SIGINT or SIGTERM, seen at the top of the loop.
Stop ==
  /\ running /\ pc = "poll"
  /\ running' = FALSE /\ pc' = "stopped"
  /\ UNCHANGED <<now, queue, arrival_counter, arrivals, bad, stats, client_known,
                 last_activity, due, log>>

Tick ==
  /\ running /\ now < MaxTime
  /\ now' = now + 1
  /\ UNCHANGED <<queue, arrival_counter, arrivals, bad, stats, client_known,
                 last_activity, pc, due, running, log>>

Next ==
  \/ \E way \in Ways : Drop(way) \/ Enqueue(way)
  \/ Wake
  \/ Release
  \/ Stop
  \/ Tick

\* ppoll returns when the earliest release is due, and the clock runs.
Fairness == WF_proxy(Tick) /\ WF_proxy(Wake) /\ WF_proxy(Release)

Spec == Init /\ [][Next]_proxy /\ Fairness
-----------------------------------------------------------------------------
\* "Reordering has to be something this tool does only when asked": a datagram
\* that overtakes another of its direction is one that skipped the delay.
OnlyJumpersOvertake ==
  \A w \in Ways : \A i, j \in DOMAIN log[w] :
    i < j /\ log[w][i].order > log[w][j].order => log[w][i].jumped

\* The delay is the one asked for, at least: what does not skip it has spent it.
DelayHonoured ==
  \A w \in Ways : \A i \in DOMAIN log[w] :
    log[w][i].jumped \/ log[w][i].release - log[w][i].arrived >= Delay

\* The PROXY_STATS line adds up: every datagram and every copy was forwarded,
\* dropped or is still queued, unless it was for a client never heard from.
StatsAddUp ==
  \A w \in Ways :
    LET accounted == stats[w].forwarded + stats[w].dropped
                     + Cardinality({p \in queue : p.way = w})
        total == stats[w].received + stats[w].duplicated
    IN /\ accounted <= total
       /\ w = "to_server" => accounted = total

\* What is queued leaves, unless a signal stops the proxy: no more datagrams need
\* arrive for the sleep in ppoll to end, and the proxy does not take itself to be
\* idle meanwhile.  (Arrivals are bounded, so the queue empties.)
QueueDrains == queue # {} ~> (queue = {} \/ pc = "stopped")
=============================================================================
