------------------------------- MODULE Server -------------------------------
(***************************************************************************)
(* swiftlink::server::run (server/epoll_server.cpp): one thread, one       *)
(* socket, a table of sessions keyed by the peer's address and the session *)
(* id it chose.  Each step handles one datagram, one timer tick (the       *)
(* sweep) or the shutdown signal; EventLoop.tla says when each can happen. *)
(*                                                                         *)
(* The clock is modelled by ages: how long a session has been idle, or,    *)
(* once it lingers, how long ago it settled (last_activity is never read   *)
(* again after that).  Ages stop growing one past the limit they are       *)
(* compared with.                                                          *)
(*                                                                         *)
(* The process may also be killed, at any moment (Crash): no destructor    *)
(* runs, no report is made, and what is on disk stays there for the next   *)
(* one that is started.  A kill in mid-handler leaves a directory that one *)
(* between two handlers leaves as well: each handler changes a name once.  *)
(*                                                                         *)
(* The module is open: Packets is everything that can arrive, in any order *)
(* and any number of times, which covers loss, duplication, reordering and *)
(* arbitrary delay.  Transfer.tla closes it with real senders.             *)
(***************************************************************************)
EXTENDS ReceiverSession

CONSTANTS Packets,       \* the datagrams that can arrive
          MaxSessions,   \* ServerConfig::max_sessions
          IdleTimeout,   \* ServerConfig::session_idle_timeout, in ticks
          Linger,        \* ServerConfig::session_linger, in ticks
          MaxOpened,     \* bound: sessions opened in a run
          MaxRefused,    \* bound: refusals in a run
          MaxStarts      \* bound: times the process is started

ASSUME ServerAssumption ==
  /\ MaxSessions \in Nat /\ IdleTimeout \in Nat /\ Linger \in Nat
  /\ MaxOpened \in Nat /\ MaxRefused \in Nat /\ MaxStarts \in Nat \ {0}

VARIABLES sessions,   \* the table: a function on the keys of open sessions
          disk,       \* the output directory
          count,      \* the counters of the shutdown report, and those opened
          running,    \* the loop condition
          starts,     \* how often the process has been started
          orphans     \* the partial files a killed process left (history)

vars == <<sessions, disk, count, running, starts, orphans>>
process == <<running, starts>>

\* SessionKey.
Key(p) == <<p.from, p.session_id>>

\* Extending and shrinking the table.
With(table, key, entry) ==
  [k \in DOMAIN table \cup {key} |-> IF k = key THEN entry ELSE table[k]]
Without(table, keys) == [k \in DOMAIN table \ keys |-> table[k]]

Active(table) == {k \in DOMAIN table : ~ table[k].lingering}
Lingering(table) == {k \in DOMAIN table : table[k].lingering}
OpenFiles(table) == {table[k].receiver.file : k \in DOMAIN table} \ {Closed}

\* The names under which the clients' sessions keep their partial files.
Partials == {TempPath(p.session_id) : p \in Packets}

\* Erasing sessions runs their destructors.
Leftovers(table, keys) == UNION {Leftover(table[k].receiver) : k \in keys}

\* A session that opens an abandoned partial file anew makes it its own.
Adopted(table) == {table[k].receiver.temp_path : k \in DOMAIN table}

NoCounts == [opened |-> 0, completed |-> 0, failed |-> 0, expired |-> 0,
             refused |-> 0, abandoned |-> 0]
-----------------------------------------------------------------------------
Init ==
  /\ sessions = <<>>
  /\ disk = EmptyDisk
  /\ count = NoCounts
  /\ running = TRUE
  /\ starts = 1
  /\ orphans = {}

\* Mutant: a finished session is not marked as lingering.
Settled_unmarked(receiver) ==
  [receiver |-> IF receiver.finished THEN close_file(receiver) ELSE receiver,
   lingering |-> FALSE, age |-> 0]

\* A session that has just finished is counted, its file closed, and it starts
\* to linger; any other one has merely been active.
Settled(receiver) ==
  IF receiver.finished
  THEN [receiver |-> close_file(receiver), lingering |-> TRUE, age |-> 0]
  ELSE [receiver |-> receiver, lingering |-> FALSE, age |-> 0]

Verdict(receiver) == IF receiver.error = "kNone" THEN "completed" ELSE "failed"

\* Mutant: a settled session is counted again by every packet.
Handle_counting_again(table, entry, p, out, tally) ==
  LET after == IF entry.lingering THEN entry ELSE Settled(out.session)
  IN /\ sessions' = With(table, Key(p), after)
     /\ disk' = Reclaim(out.disk, OpenFiles(With(table, Key(p), after)))
     /\ count' = IF out.session.finished
                 THEN [tally EXCEPT ![Verdict(out.session)] = @ + 1]
                 ELSE tally
     /\ orphans' = orphans \ Adopted(With(table, Key(p), after))
     /\ UNCHANGED process

\* Mutant: a packet restarts the linger clock.
Handle_refreshing(table, entry, p, out, tally) ==
  LET after == Settled(out.session)
      counted == out.session.finished /\ ~ entry.lingering
  IN /\ sessions' = With(table, Key(p), after)
     /\ disk' = Reclaim(out.disk, OpenFiles(With(table, Key(p), after)))
     /\ count' = IF counted
                 THEN [tally EXCEPT ![Verdict(out.session)] = @ + 1]
                 ELSE tally
     /\ orphans' = orphans \ Adopted(With(table, Key(p), after))
     /\ UNCHANGED process

\* One packet reaches the session entry of table, on a disk already relieved of
\* what was evicted.  out is one of the outcomes of handle_packet.
Handle(table, entry, p, out, tally) ==
  LET after == IF entry.lingering
               THEN [entry EXCEPT !.receiver = out.session]
               ELSE Settled(out.session)
      counted == out.session.finished /\ ~ entry.lingering
  IN /\ sessions' = With(table, Key(p), after)
     /\ disk' = Reclaim(out.disk, OpenFiles(With(table, Key(p), after)))
     /\ count' = IF counted
                 THEN [tally EXCEPT ![Verdict(out.session)] = @ + 1]
                 ELSE tally
     /\ orphans' = orphans \ Adopted(With(table, Key(p), after))
     /\ UNCHANGED process

\* A datagram for a session in the table.
HandleKnown(p, out) ==
  /\ running
  /\ Key(p) \in DOMAIN sessions
  /\ out \in handle_packet(sessions[Key(p)].receiver, disk, p)
  /\ Handle(sessions, sessions[Key(p)], p, out, count)

\* Mutant: lingering sessions are never retired early.
Evicted_never == {}

\* The sessions retired early to make room: all that linger, once the table
\* has twice as many entries as may be active.
Evicted ==
  IF Cardinality(DOMAIN sessions) >= MaxSessions * 2
  THEN Lingering(sessions) ELSE {}

\* The disk once the evicted sessions are destroyed.
Cleared ==
  Reclaim(unlink(disk, Leftovers(sessions, Evicted)),
          OpenFiles(Without(sessions, Evicted)))

\* Only a START creates a session, and only below the limit.
HandleNew(p, out) ==
  /\ running
  /\ Key(p) \notin DOMAIN sessions
  /\ p.type = "START"
  /\ Cardinality(Active(sessions)) < MaxSessions
  /\ count.opened < MaxOpened
  /\ out \in handle_packet(NewSession, Cleared, p)
  /\ Handle(Without(sessions, Evicted),
            [receiver |-> NewSession, lingering |-> FALSE, age |-> 0],
            p, out, [count EXCEPT !.opened = @ + 1])

\* What the session addressed by a packet, or a new one, may do with it.
Outcomes(p) ==
  IF Key(p) \in DOMAIN sessions
  THEN handle_packet(sessions[Key(p)].receiver, disk, p)
  ELSE handle_packet(NewSession, Cleared, p)

Receive(p) ==
  \E out \in Outcomes(p) : HandleKnown(p, out) \/ HandleNew(p, out)

\* At the limit a START is answered kServerBusy and nothing is kept.
Refuse(p) ==
  /\ running
  /\ Key(p) \notin DOMAIN sessions
  /\ p.type = "START"
  /\ Cardinality(Active(sessions)) >= MaxSessions
  /\ count.refused < MaxRefused
  /\ count' = [count EXCEPT !.refused = @ + 1]
  /\ UNCHANGED <<sessions, disk, orphans, process>>

\* Anything but a START for an unknown key is dropped.
Ignore(p) ==
  /\ running
  /\ Key(p) \notin DOMAIN sessions
  /\ p.type # "START"
  /\ UNCHANGED vars

\* Mutant: one tick early.
Overdue_early(k) ==
  sessions[k].age >= (IF sessions[k].lingering THEN Linger ELSE IdleTimeout)

\* The sweep: lingering sessions leave on the linger clock, the others when
\* idle for too long, which counts as a timeout.
Overdue(k) ==
  sessions[k].age > (IF sessions[k].lingering THEN Linger ELSE IdleTimeout)

Sweep ==
  LET gone == {k \in DOMAIN sessions : Overdue(k)}
      kept == Without(sessions, gone)
  IN /\ running
     /\ sessions' = kept
     /\ disk' = Reclaim(unlink(disk, Leftovers(sessions, gone)), OpenFiles(kept))
     /\ count' = [count EXCEPT !.expired = @ + Cardinality(gone \cap Active(sessions))]
     /\ UNCHANGED <<orphans, process>>

\* Time passes.
Older(entry) ==
  LET limit == IF entry.lingering THEN Linger ELSE IdleTimeout
  IN [entry EXCEPT !.age = IF @ > limit THEN @ ELSE @ + 1]

Tick ==
  /\ running
  /\ sessions' = [k \in DOMAIN sessions |-> Older(sessions[k])]
  /\ UNCHANGED <<disk, count, orphans, process>>

\* The shutdown report: what has neither settled nor expired is abandoned.
Report == [count EXCEPT !.abandoned = Cardinality(Active(sessions))]

\* SIGINT or SIGTERM: what is still active is reported as abandoned, and the
\* table is destroyed.
Shutdown ==
  /\ running
  /\ running' = FALSE
  /\ count' = Report
  /\ sessions' = <<>>
  /\ disk' = Reclaim(unlink(disk, Leftovers(sessions, DOMAIN sessions)), {})
  /\ UNCHANGED <<starts, orphans>>

\* The process is killed: the table and the counters are gone, the kernel closes
\* the descriptors, and every name stays where it is.
Crash ==
  /\ running /\ starts < MaxStarts
  /\ running' = FALSE
  /\ sessions' = <<>>
  /\ count' = NoCounts
  /\ disk' = Reclaim(disk, {})
  /\ orphans' = DOMAIN disk.names \cap Partials
  /\ UNCHANGED starts

\* It is started again on the same output directory, which run() does not look
\* at: it begins with an empty table.
Restart ==
  /\ ~ running /\ starts < MaxStarts
  /\ running' = TRUE
  /\ starts' = starts + 1
  /\ count' = NoCounts
  /\ UNCHANGED <<sessions, disk, orphans>>

Next ==
  \/ \E p \in Packets : Receive(p) \/ Refuse(p) \/ Ignore(p)
  \/ Sweep
  \/ Tick
  \/ Shutdown
  \/ Crash
  \/ Restart

Spec == Init /\ [][Next]_vars
-----------------------------------------------------------------------------
\* The shape of the table, and the counters within their bounds.
TypeOK ==
  /\ \A k \in DOMAIN sessions :
       /\ sessions[k].lingering \in BOOLEAN
       /\ sessions[k].age \in 0 .. 1 + (IF sessions[k].lingering
                                        THEN Linger ELSE IdleTimeout)
       /\ sessions[k].receiver.finished = sessions[k].lingering
       /\ sessions[k].receiver.session_id = k[2]
  /\ count \in [{"opened", "completed", "failed", "expired", "refused",
                 "abandoned"} -> Nat]
  /\ running \in BOOLEAN /\ starts \in 1 .. MaxStarts
  /\ ~ running => sessions = <<>>

\* Admission control holds whatever arrives: never more than max_sessions
\* active, and the table, lingerers included, never beyond twice that.
TableBounded ==
  /\ Cardinality(Active(sessions)) <= MaxSessions
  /\ Cardinality(DOMAIN sessions) <= 2 * MaxSessions

\* A descriptor is held exactly by the sessions that still need one, so
\* lingering, however long, costs none.
DescriptorsBounded ==
  \A k \in DOMAIN sessions :
    (sessions[k].receiver.file # Closed) <=> k \in Active(sessions)

\* Every session ends up in exactly one line of the shutdown report.
Accounting ==
  count.opened = count.completed + count.failed + count.expired
                 + (IF running THEN Cardinality(Active(sessions))
                    ELSE count.abandoned)

\* The names under which clients ask for their files to be published.
Requested ==
  {OutputPath(sanitize_filename(p.payload)) :
     p \in {q \in Packets : q.type = "START" /\ IsSafe(q.payload)}}

\* A partial file exists only while a session that has not published it is in
\* the table, or where a killed process left it: what times out, is evicted or
\* is shut down leaves nothing behind, and neither does what a client resumed.
\* What else has such a name was published under it, at a client's request.
PartialsOwned ==
  \A path \in DOMAIN disk.names \cap Partials :
    \/ path \in orphans
    \/ path \in Requested
    \/ \E k \in DOMAIN sessions :
         sessions[k].receiver.temp_path = path /\ ~ sessions[k].receiver.published

\* "A name in the output directory is always a complete, verified file": under
\* a name that is not a session's partial file there is, at all times, exactly
\* the file some client sent a FIN for under that name.
PublishedVerified ==
  \A path \in DOMAIN disk.names \ Partials :
    \E p, q \in Packets :
      /\ p.type = "START" /\ q.type = "FIN" /\ Key(p) = Key(q)
      /\ IsSafe(p.payload) /\ OutputPath(sanitize_filename(p.payload)) = path
      /\ Contents(disk, path) = q.payload

\* A settled session never changes its mind: while it lingers its verdict, and
\* all else about it, is what it was; a repeated FIN redoes nothing.
SettledIsFinal ==
  [][\A k \in Lingering(sessions) :
       \/ k \notin DOMAIN sessions'
       \/ sessions'[k].receiver = sessions[k].receiver]_vars

\* Published files stay.  A name goes away only if it is that of a partial file,
\* and only along with the session whose partial file it is: with its FIN, when
\* it is swept or evicted, or at shutdown.  (A file published under such a name,
\* which sanitize_filename accepts, is at the mercy of the session of that id.)
PublishedStays ==
  [][\A path \in DOMAIN disk.names \ DOMAIN disk'.names :
       /\ path \in Partials
       /\ \E k \in DOMAIN sessions :
            /\ sessions[k].receiver.temp_path = path
            /\ ~ sessions[k].receiver.published]_vars
=============================================================================
