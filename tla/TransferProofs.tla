--------------------------- MODULE TransferProofs ---------------------------
(***************************************************************************)
(* Proofs about Server.tla, for any datagrams, limits and timeouts, and    *)
(* about Transfer.tla, the server with its senders.                        *)
(*                                                                         *)
(* First the table (TableOK), the counters and the names, which together   *)
(* are the inductive invariant IInv; they hold whatever arrives.  Then the *)
(* files, which need to know who writes into the directory.  Honest(Units) *)
(* is what send_file puts on the wire: one size is announced at both ends  *)
(* of a transfer, the data are units of the file, no two clients draw the  *)
(* same session id, which alone names the partial file, and none asks for  *)
(* a name of that form.  HonestClients shows that the packets of real      *)
(* clients are of this kind; the run server_shared_id shows what happens   *)
(* when ids collide.                                                       *)
(*                                                                         *)
(* Then the end-to-end promise: what send_file reports as sent is in the   *)
(* output directory.  It rests on the invariants of the server, which is   *)
(* here one part of a larger system (ServerWithin), and on the way of a    *)
(* FIN_ACK from the session that published to the sender: it is sent once  *)
(* the file is in place, kept for replay, delayed and repeated at will,    *)
(* and the file stays.                                                     *)
(*                                                                         *)
(* Last the promise of the timeouts: on a timely network a retransmission  *)
(* finds its session (RetriesFindSession).                                 *)
(***************************************************************************)
EXTENDS Transfer, EventLoop, SessionProofs

\* An entry of the table, under its key.
EntryOK(k, e) ==
  /\ e = [m \in {"receiver", "lingering", "age"} |-> e[m]]
  /\ Shaped(e.receiver)
  /\ e.lingering \in BOOLEAN
  /\ e.age \in 0 .. 1 + (IF e.lingering THEN Linger ELSE IdleTimeout)
  /\ e.receiver.finished = e.lingering
  /\ e.receiver.session_id = k[2]
  /\ e.receiver.temp_path \in {NoPath, TempPath(k[2])}
  /\ TempPath(k[2]) \in Partials
  /\ ~ e.lingering =>
       /\ e.receiver.started = TRUE /\ e.receiver.published = FALSE
       /\ e.receiver.temp_path = TempPath(k[2])
       /\ e.receiver.output_path \in Requested

\* An entry as it is after a packet, before and after its session has settled.
Live(r) == [receiver |-> r, lingering |-> FALSE, age |-> 0]
Done(r) == [receiver |-> close_file(r), lingering |-> TRUE, age |-> 0]

\* Only a settled session's entry lingers.
LEMMA EntryMarks ==
  \A r : Live(r).lingering = FALSE /\ Done(r).lingering = TRUE
  BY DEF Live, Done

\* The counters, and one of them going up by one.
Counters == {"opened", "completed", "failed", "expired", "refused", "abandoned"}
Counted(c, x) == [c EXCEPT ![x] = @ + 1]

\* Counting keeps the counters natural, and changes one of them only.
LEMMA Counting ==
  \A c \in [Counters -> Nat] : \A x \in Counters :
    /\ Counted(c, x) \in [Counters -> Nat]
    /\ \A y \in Counters : Counted(c, x)[y] = IF y = x THEN c[y] + 1 ELSE c[y]
  BY DEF Counted

\* A packet for a session in the table: the ways it can turn out.
LEMMA KnownStep ==
  ASSUME NEW p, NEW out, HandleKnown(p, out), EntryOK(Key(p), sessions[Key(p)])
  PROVE  LET k == Key(p)
             e == sessions[k]
             s == e.receiver
         IN /\ k \in DOMAIN sessions
            /\ DOMAIN sessions' = DOMAIN sessions
            /\ \A j \in DOMAIN sessions \ {k} : sessions'[j] = sessions[j]
            /\ disk' = Reclaim(out.disk, OpenFiles(sessions'))
            /\ orphans' = orphans \ Adopted(sessions')
            /\ running /\ running' = running /\ starts' = starts
            /\ \/ /\ e.lingering /\ sessions'[k] = e
                  /\ out.session = s /\ out.disk = disk /\ count' = count
               \/ /\ ~ e.lingering /\ sessions'[k] = Live(s)
                  /\ out.session = s /\ out.disk = disk /\ count' = count
               \/ /\ ~ e.lingering /\ sessions'[k] = Live(out.session)
                  /\ Shaped(out.session) /\ Writes(s, disk, p, out)
                  /\ count' = count
               \/ /\ ~ e.lingering /\ sessions'[k] = Done(out.session)
                  /\ Shaped(out.session)
                  /\ Fails(s, disk, out) \/ Publishes(s, disk, p, out)
                  /\ count' = Counted(count, Verdict(out.session))
  <1> DEFINE k == Key(p)
             e == sessions[k]
             s == e.receiver
             after == IF e.lingering THEN [e EXCEPT !.receiver = out.session]
                      ELSE Settled(out.session)
  <1>1. /\ k \in DOMAIN sessions /\ out \in handle_packet(s, disk, p)
        /\ sessions' = With(sessions, k, after)
        /\ disk' = Reclaim(out.disk, OpenFiles(sessions'))
        /\ count' = IF out.session.finished /\ ~ e.lingering
                    THEN Counted(count, Verdict(out.session)) ELSE count
        /\ orphans' = orphans \ Adopted(sessions')
        /\ running /\ running' = running /\ starts' = starts
    BY DEF HandleKnown, Handle, process, Counted
  <1>2. /\ DOMAIN sessions' = DOMAIN sessions /\ sessions'[k] = after
        /\ \A j \in DOMAIN sessions \ {k} : sessions'[j] = sessions[j]
    <2> HIDE DEF after, k
    <2>1. sessions' = With(sessions, k, after)
      BY <1>1
    <2>2. DOMAIN sessions' = DOMAIN sessions
      BY <1>1, <2>1 DEF With
    <2>3. sessions'[k] = after
      BY <2>1 DEF With
    <2>4. \A j \in DOMAIN sessions \ {k} : sessions'[j] = sessions[j]
      BY <2>1 DEF With
    <2> QED BY <2>2, <2>3, <2>4
  <1>3. /\ Shaped(s) /\ s.finished = e.lingering /\ e.lingering \in BOOLEAN
        /\ ~ e.lingering => s.started = TRUE
        /\ e = [m \in {"receiver", "lingering", "age"} |-> e[m]]
    BY DEF EntryOK
  <1>4. /\ Shaped(out.session)
        /\ \/ out.session = s /\ out.disk = disk
           \/ ~ s.finished /\ Fails(s, disk, out)
           \/ ~ s.finished /\ Writes(s, disk, p, out)
           \/ ~ s.finished /\ Publishes(s, disk, p, out)
    BY <1>1, <1>3, KnownCases
  <1> HIDE DEF k, e, s
  <1>5. CASE e.lingering
    <2>1. out.session = s /\ out.disk = disk
      BY <1>3, <1>4, <1>5
    <2>2. [e EXCEPT !.receiver = s] = e
      BY <1>3 DEF s
    <2> QED BY <1>1, <1>2, <1>5, <2>1, <2>2 DEF k, e, s
  <1>6. CASE ~ e.lingering
    <2>1. after = IF out.session.finished THEN Done(out.session)
                                          ELSE Live(out.session)
      BY <1>6 DEF Settled, Done, Live
    <2> HIDE DEF after
    <2>2. CASE out.session = s /\ out.disk = disk
      BY <1>1, <1>2, <1>3, <1>6, <2>1, <2>2 DEF k, e, s
    <2>3. CASE Fails(s, disk, out) \/ Publishes(s, disk, p, out)
      <3>1. out.session.finished
        BY <2>3 DEF Fails, Publishes
      <3> QED BY <1>1, <1>2, <1>4, <1>6, <2>1, <2>3, <3>1 DEF k, e, s
    <2>4. CASE Writes(s, disk, p, out)
      <3>1. ~ out.session.finished
        BY <1>3, <1>6, <2>4 DEF Writes
      <3> QED BY <1>1, <1>2, <1>4, <1>6, <2>1, <2>4, <3>1 DEF k, e, s
    <2> QED BY <1>4, <2>2, <2>3, <2>4
  <1> QED BY <1>3, <1>5, <1>6

\* A START that is admitted.
LEMMA NewStep ==
  ASSUME NEW p, NEW out, HandleNew(p, out)
  PROVE  LET k == Key(p)
         IN /\ k \notin DOMAIN sessions /\ p.type = "START"
            /\ Cardinality(Active(sessions)) < MaxSessions
            /\ DOMAIN sessions' = (DOMAIN sessions \ Evicted) \cup {k}
            /\ \A j \in DOMAIN sessions \ Evicted : sessions'[j] = sessions[j]
            /\ disk' = Reclaim(out.disk, OpenFiles(sessions'))
            /\ orphans' = orphans \ Adopted(sessions')
            /\ running /\ running' = running /\ starts' = starts
            /\ Shaped(out.session) /\ out.session.session_id = p.session_id
            /\ out.session.published = FALSE
            /\ \/ /\ Opens(Cleared, p, out) /\ sessions'[k] = Live(out.session)
                  /\ count' = Counted(count, "opened")
               \/ /\ OpenFails(Cleared, p, out) /\ sessions'[k] = Done(out.session)
                  /\ count' = Counted(Counted(count, "opened"), Verdict(out.session))
  <1> DEFINE k == Key(p)
             kept == Without(sessions, Evicted)
             tally == Counted(count, "opened")
             fresh == [receiver |-> NewSession, lingering |-> FALSE, age |-> 0]
             after == Settled(out.session)
  <1>1. /\ k \notin DOMAIN sessions /\ p.type = "START"
        /\ Cardinality(Active(sessions)) < MaxSessions
        /\ out \in handle_packet(NewSession, Cleared, p)
        /\ Handle(kept, fresh, p, out, tally) /\ running
    BY DEF HandleNew, Counted
  <1>2. fresh.lingering = FALSE
    OBVIOUS
  <1>3. /\ sessions' = With(kept, k, after)
        /\ disk' = Reclaim(out.disk, OpenFiles(sessions'))
        /\ count' = IF out.session.finished
                    THEN Counted(tally, Verdict(out.session)) ELSE tally
        /\ orphans' = orphans \ Adopted(sessions')
        /\ running' = running /\ starts' = starts
    <2> HIDE DEF kept, fresh, tally
    <2> QED BY <1>1, <1>2 DEF Handle, process, Counted
  <1>4. /\ DOMAIN sessions' = (DOMAIN sessions \ Evicted) \cup {k}
        /\ sessions'[k] = after
        /\ \A j \in DOMAIN sessions \ Evicted : sessions'[j] = sessions[j]
    <2> HIDE DEF k, after
    <2>1. /\ DOMAIN kept = DOMAIN sessions \ Evicted
          /\ \A j \in DOMAIN sessions \ Evicted : kept[j] = sessions[j]
      BY DEF Without
    <2>2. k \notin DOMAIN sessions
      BY <1>1
    <2> HIDE DEF kept
    <2> QED BY <1>3, <2>1, <2>2 DEF With
  <1>5. /\ Shaped(out.session)
        /\ out.session.session_id = p.session_id /\ out.session.published = FALSE
        /\ Opens(Cleared, p, out) \/ OpenFails(Cleared, p, out)
    BY <1>1, StartCases
  <1>6. CASE Opens(Cleared, p, out)
    <2>1. out.session.finished = FALSE
      BY <1>6 DEF Opens
    <2>2. after = Live(out.session)
      BY <2>1 DEF Settled, Live
    <2> QED BY <1>1, <1>3, <1>4, <1>5, <1>6, <2>1, <2>2
  <1>7. CASE OpenFails(Cleared, p, out)
    <2>1. out.session.finished = TRUE
      BY <1>7 DEF OpenFails
    <2>2. after = Done(out.session)
      BY <2>1 DEF Settled, Done
    <2> QED BY <1>1, <1>3, <1>4, <1>5, <1>7, <2>1, <2>2
  <1> QED BY <1>5, <1>6, <1>7

\* The entry of a live session, and of one that has just settled.
LEMMA EntryLive ==
  ASSUME NEW k, NEW r, Shaped(r), r.finished = FALSE, r.session_id = k[2],
         r.started = TRUE, r.published = FALSE, r.temp_path = TempPath(k[2]),
         TempPath(k[2]) \in Partials, r.output_path \in Requested
  PROVE  EntryOK(k, Live(r))
  <1>1. 0 \in 0 .. 1 + IdleTimeout
    BY ServerAssumption
  <1> QED BY <1>1 DEF EntryOK, Live

\* The entry of a session that has just settled.
LEMMA EntryDone ==
  ASSUME NEW k, NEW r, Shaped(r), r.finished = TRUE, r.session_id = k[2],
         r.temp_path \in {NoPath, TempPath(k[2])}, TempPath(k[2]) \in Partials
  PROVE  EntryOK(k, Done(r))
  <1>1. 0 \in 0 .. 1 + Linger
    BY ServerAssumption
  <1>2. /\ Shaped(close_file(r)) /\ close_file(r).finished = TRUE
        /\ close_file(r).session_id = k[2]
        /\ close_file(r).temp_path = r.temp_path
    BY CloseFile DEF Members
  <1> QED BY <1>1, <1>2 DEF EntryOK, Done

\* Packets keep every entry of the table in order.
LEMMA KnownEntry ==
  ASSUME NEW p, NEW out, HandleKnown(p, out), EntryOK(Key(p), sessions[Key(p)])
  PROVE  LET k == Key(p) IN
         /\ EntryOK(k, sessions'[k])
         /\ sessions'[k].receiver.temp_path = sessions[k].receiver.temp_path
  <1> DEFINE k == Key(p)
             e == sessions[k]
             s == e.receiver
  <1>1. \/ e.lingering /\ sessions'[k] = e
        \/ ~ e.lingering /\ sessions'[k] = Live(s)
        \/ /\ ~ e.lingering /\ sessions'[k] = Live(out.session)
           /\ Shaped(out.session) /\ Writes(s, disk, p, out)
        \/ /\ ~ e.lingering /\ sessions'[k] = Done(out.session)
           /\ Shaped(out.session)
           /\ Fails(s, disk, out) \/ Publishes(s, disk, p, out)
    BY KnownStep
  <1>2. EntryOK(k, e)
    OBVIOUS
  <1> HIDE DEF k, e
  <1>3. CASE e.lingering /\ sessions'[k] = e
    BY <1>2, <1>3 DEF k, e
  <1>4. ASSUME ~ e.lingering
        PROVE  /\ Shaped(s) /\ s.finished = FALSE /\ s.session_id = k[2]
               /\ s.started = TRUE /\ s.published = FALSE
               /\ s.temp_path = TempPath(k[2])
               /\ s.output_path \in Requested
    BY <1>2, <1>4 DEF EntryOK
  <1>8. TempPath(k[2]) \in Partials
    BY <1>2 DEF EntryOK
  <1> HIDE DEF s
  <1>5. CASE ~ e.lingering /\ sessions'[k] = Live(s)
    <2>1. EntryOK(k, Live(s)) /\ Live(s).receiver = s
      BY <1>4, <1>5, <1>8, EntryLive DEF Live
    <2> QED BY <1>5, <2>1 DEF k, e, s
  <1>6. CASE /\ ~ e.lingering /\ sessions'[k] = Live(out.session)
             /\ Shaped(out.session) /\ Writes(s, disk, p, out)
    <2>1. SameFile(s, out.session) /\ out.session.finished = s.finished
          /\ out.session.published = s.published
      BY <1>6 DEF Writes
    <2>2. EntryOK(k, Live(out.session)) /\ Live(out.session).receiver = out.session
      BY <1>4, <1>6, <1>8, <2>1, EntryLive DEF Live, SameFile
    <2> QED BY <1>6, <2>1, <2>2 DEF k, e, s, SameFile
  <1>7. CASE /\ ~ e.lingering /\ sessions'[k] = Done(out.session)
             /\ Shaped(out.session)
             /\ Fails(s, disk, out) \/ Publishes(s, disk, p, out)
    <2>1. SameFile(s, out.session) /\ out.session.finished = TRUE
      BY <1>7 DEF Fails, Publishes
    <2>2. EntryOK(k, Done(out.session))
      BY <1>4, <1>7, <1>8, <2>1, EntryDone DEF SameFile
    <2>3. Done(out.session).receiver.temp_path = out.session.temp_path
      BY <1>7, CloseFile DEF Done, Members
    <2> QED BY <1>7, <2>1, <2>2, <2>3 DEF k, e, s, SameFile
  <1> QED BY <1>1, <1>3, <1>5, <1>6, <1>7

\* The entry a START makes: in order, and nothing published yet.
LEMMA NewEntry ==
  ASSUME NEW p \in Packets, NEW out, HandleNew(p, out)
  PROVE  /\ EntryOK(Key(p), sessions'[Key(p)])
         /\ sessions'[Key(p)].receiver.published = FALSE
         /\ sessions'[Key(p)].receiver.temp_path = out.session.temp_path
  <1> DEFINE k == Key(p)
             r == out.session
  <1>0. k[2] = p.session_id /\ TempPath(p.session_id) \in Partials
    BY DEF Key, Partials
  <1> HIDE DEF k
  <1>1. /\ Shaped(r) /\ r.session_id = p.session_id /\ r.published = FALSE
        /\ \/ Opens(Cleared, p, out) /\ sessions'[k] = Live(r)
           \/ OpenFails(Cleared, p, out) /\ sessions'[k] = Done(r)
    BY NewStep DEF k
  <1>2. CASE Opens(Cleared, p, out) /\ sessions'[k] = Live(r)
    <2>1. r.output_path \in Requested
      <3>1. p.type = "START"
        BY NewStep
      <3> QED BY <1>2, <3>1 DEF Opens, Requested
    <2>2. EntryOK(k, Live(r)) /\ Live(r).receiver = r
      BY <1>0, <1>1, <1>2, <2>1, EntryLive DEF Live, Opens
    <2> QED BY <1>1, <1>2, <2>2 DEF k, Opens
  <1>3. CASE OpenFails(Cleared, p, out) /\ sessions'[k] = Done(r)
    <2>1. EntryOK(k, Done(r))
      BY <1>0, <1>1, <1>3, EntryDone DEF OpenFails
    <2>2. Done(r).receiver.temp_path = r.temp_path
          /\ Done(r).receiver.published = r.published
      BY <1>1, CloseFile DEF Done, Members
    <2> QED BY <1>1, <1>3, <2>1, <2>2 DEF k
  <1> QED BY <1>1, <1>2, <1>3
-----------------------------------------------------------------------------
\* The inductive invariant of the table, the counters and the names.
TableOK == \A k \in DOMAIN sessions : EntryOK(k, sessions[k])

NamesOK == DiskShaped(disk) /\ NoPath \notin DOMAIN disk.names

OrphansApart ==
  /\ NoPath \notin orphans
  /\ \A k \in DOMAIN sessions : sessions[k].receiver.temp_path \notin orphans

IInv ==
  /\ TypeOK /\ TableOK /\ IsFiniteSet(DOMAIN sessions)
  /\ TableBounded /\ Accounting
  /\ NamesOK /\ OrphansApart /\ PartialsOwned

\* A settled session is counted as completed or as failed.
LEMMA VerdictCounted == \A r : Verdict(r) \in {"completed", "failed"}
  BY DEF Verdict

\* Growing older keeps an entry in order.
LEMMA EntryOlder ==
  ASSUME NEW k, NEW e, EntryOK(k, e)
  PROVE  /\ EntryOK(k, Older(e))
         /\ Older(e).receiver = e.receiver /\ Older(e).lingering = e.lingering
  <1> DEFINE limit == IF e.lingering THEN Linger ELSE IdleTimeout
             age == IF e.age > limit THEN e.age ELSE e.age + 1
  <1>1. e.age \in 0 .. 1 + limit /\ limit \in Nat
    BY ServerAssumption DEF EntryOK
  <1>2. age \in 0 .. 1 + limit
    BY <1>1
  <1>3. Older(e) = [e EXCEPT !.age = age]
    BY DEF Older
  <1> HIDE DEF age
  <1>4. /\ Older(e) = [m \in {"receiver", "lingering", "age"} |-> Older(e)[m]]
        /\ Older(e).receiver = e.receiver /\ Older(e).lingering = e.lingering
        /\ Older(e).age = age
    BY <1>3 DEF EntryOK
  <1> QED BY <1>2, <1>4 DEF EntryOK

\* Every step keeps the entries of the table, the counters and the process typed.
LEMMA TypeStep ==
  ASSUME TypeOK, TableOK, IsFiniteSet(DOMAIN sessions), [Next]_vars
  PROVE  TypeOK' /\ TableOK'
  <1> DEFINE Rest == /\ count \in [Counters -> Nat]
                     /\ running \in BOOLEAN /\ starts \in 1 .. MaxStarts
                     /\ ~ running => sessions = <<>>
  <1>1. TypeOK <=> Rest /\ \A k \in DOMAIN sessions :
          /\ sessions[k].lingering \in BOOLEAN
          /\ sessions[k].age \in 0 .. 1 + (IF sessions[k].lingering
                                           THEN Linger ELSE IdleTimeout)
          /\ sessions[k].receiver.finished = sessions[k].lingering
          /\ sessions[k].receiver.session_id = k[2]
    BY DEF TypeOK, Counters
  <1>2. TypeOK' <=> Rest' /\ \A k \in DOMAIN sessions' :
          /\ sessions'[k].lingering \in BOOLEAN
          /\ sessions'[k].age \in 0 .. 1 + (IF sessions'[k].lingering
                                           THEN Linger ELSE IdleTimeout)
          /\ sessions'[k].receiver.finished = sessions'[k].lingering
          /\ sessions'[k].receiver.session_id = k[2]
    BY DEF TypeOK, Counters
  <1>3. SUFFICES Rest' /\ TableOK'
    BY <1>2 DEF TableOK, EntryOK
  <1>4. ASSUME NEW p \in Packets, NEW out, HandleKnown(p, out)
        PROVE  Rest' /\ TableOK'
    <2>1. EntryOK(Key(p), sessions[Key(p)])
      BY <1>4 DEF HandleKnown, TableOK
    <2>2. /\ DOMAIN sessions' = DOMAIN sessions
          /\ \A j \in DOMAIN sessions \ {Key(p)} : sessions'[j] = sessions[j]
          /\ running /\ running' = running /\ starts' = starts
          /\ \/ count' = count
             \/ count' = Counted(count, Verdict(out.session))
      BY <1>4, <2>1, KnownStep
    <2>3. TableOK'
      BY <1>4, <2>1, <2>2, KnownEntry DEF TableOK
    <2>4. Rest'
      <3>1. count \in [Counters -> Nat] /\ Verdict(out.session) \in Counters
        BY <1>1, VerdictCounted DEF Counters
      <3>2. count' \in [Counters -> Nat]
        BY <2>2, <3>1, Counting
      <3> QED BY <1>1, <2>2, <3>2
    <2> QED BY <2>3, <2>4
  <1>5. ASSUME NEW p \in Packets, NEW out, HandleNew(p, out)
        PROVE  Rest' /\ TableOK'
    <2>1. /\ DOMAIN sessions' = (DOMAIN sessions \ Evicted) \cup {Key(p)}
          /\ \A j \in DOMAIN sessions \ Evicted : sessions'[j] = sessions[j]
          /\ running /\ running' = running /\ starts' = starts
          /\ \/ count' = Counted(count, "opened")
             \/ count' = Counted(Counted(count, "opened"), Verdict(out.session))
      BY <1>5, NewStep
    <2>2. TableOK'
      BY <1>5, <2>1, NewEntry DEF TableOK
    <2>3. Counted(count, "opened") \in [Counters -> Nat]
      BY <1>1, Counting DEF Counters
    <2>4. Rest'
      <3> DEFINE tally == Counted(count, "opened")
      <3>1. Verdict(out.session) \in Counters
        BY VerdictCounted DEF Counters
      <3>2. count' \in [Counters -> Nat]
        <4>1. /\ tally \in [Counters -> Nat]
              /\ \/ count' = tally
                 \/ count' = Counted(tally, Verdict(out.session))
          BY <2>1, <2>3
        <4> HIDE DEF tally
        <4> QED BY <3>1, <4>1, Counting
      <3> QED BY <1>1, <2>1, <3>2
    <2> QED BY <2>2, <2>4
  <1>6. ASSUME NEW p \in Packets, Refuse(p)
        PROVE  Rest' /\ TableOK'
    BY <1>1, <1>6 DEF Refuse, process, Counters, TableOK
  <1>7. CASE Sweep
    <2> DEFINE gone == {k \in DOMAIN sessions : Overdue(k)}
    <2>1. Cardinality(gone \cap Active(sessions)) \in Nat
      <3>1. IsFiniteSet(gone \cap Active(sessions))
        BY FS_Subset DEF Active
      <3> QED BY <3>1, FS_CardinalityType
    <2>2. /\ sessions' = Without(sessions, gone) /\ running
          /\ count' = [count EXCEPT !.expired = @ + Cardinality(gone \cap Active(sessions))]
          /\ running' = running /\ starts' = starts
      BY <1>7 DEF Sweep, process
    <2> HIDE DEF gone
    <2>3. TableOK'
      BY <2>2 DEF TableOK, Without
    <2>4. Rest'
      BY <1>1, <2>1, <2>2 DEF Counters
    <2> QED BY <2>3, <2>4
  <1>8. CASE Tick
    <2>1. /\ DOMAIN sessions' = DOMAIN sessions /\ running
          /\ \A k \in DOMAIN sessions : sessions'[k] = Older(sessions[k])
          /\ count' = count /\ running' = running /\ starts' = starts
      BY <1>8 DEF Tick, process
    <2>2. TableOK'
      BY <2>1, EntryOlder DEF TableOK
    <2> QED BY <1>1, <2>1, <2>2
  <1>9. CASE Shutdown
    <2>1. Cardinality(Active(sessions)) \in Nat
      <3>1. IsFiniteSet(Active(sessions))
        BY FS_Subset DEF Active
      <3> QED BY <3>1, FS_CardinalityType
    <2>2. /\ sessions' = <<>> /\ running' = FALSE /\ starts' = starts
          /\ count' = [count EXCEPT !.abandoned = Cardinality(Active(sessions))]
      BY <1>9 DEF Shutdown, Report
    <2>3. TableOK'
      BY <2>2, NoEntries DEF TableOK
    <2> QED BY <1>1, <2>1, <2>2, <2>3 DEF Counters
  <1>10. CASE Crash
    <2>1. sessions' = <<>> /\ running' = FALSE /\ starts' = starts /\ count' = NoCounts
      BY <1>10 DEF Crash
    <2>2. TableOK'
      BY <2>1, NoEntries DEF TableOK
    <2>3. NoCounts \in [Counters -> Nat]
      BY DEF NoCounts, Counters
    <2> QED BY <1>1, <2>1, <2>2, <2>3
  <1>11. CASE Restart
    BY <1>1, <1>11, ServerAssumption DEF Restart, NoCounts, Counters, TableOK
  <1>12. CASE UNCHANGED vars
    BY <1>1, <1>12 DEF vars, TableOK
  <1>13. ASSUME NEW p \in Packets, Ignore(p)
         PROVE  Rest' /\ TableOK'
    BY <1>12, <1>13 DEF Ignore
  <1> QED
    BY <1>4, <1>5, <1>6, <1>7, <1>8, <1>9, <1>10, <1>11, <1>12, <1>13 DEF Next, Receive

\* The parts of a finite table are finite.
LEMMA FiniteParts ==
  ASSUME IsFiniteSet(DOMAIN sessions)
  PROVE  /\ Cardinality(DOMAIN sessions) \in Nat
         /\ IsFiniteSet(Active(sessions)) /\ Cardinality(Active(sessions)) \in Nat
  <1>1. Active(sessions) \in SUBSET DOMAIN sessions
    BY DEF Active
  <1>2. IsFiniteSet(Active(sessions))
    BY <1>1, FS_Subset
  <1> QED BY <1>2, FS_CardinalityType

\* Admission, settling, expiry and shutdown keep the table within its bounds, and
\* the report's lines adding up to the sessions opened.
LEMMA CountingStep ==
  ASSUME TypeOK, TableOK, IsFiniteSet(DOMAIN sessions), TableBounded, Accounting,
         [Next]_vars
  PROVE  IsFiniteSet(DOMAIN sessions') /\ TableBounded' /\ Accounting'
  <1> DEFINE A == Active(sessions)
             N == Cardinality(A)
  <1>1. /\ count \in [Counters -> Nat] /\ MaxSessions \in Nat
        /\ N <= MaxSessions /\ Cardinality(DOMAIN sessions) <= 2 * MaxSessions
        /\ IsFiniteSet(A) /\ N \in Nat /\ Cardinality(DOMAIN sessions) \in Nat
        /\ running \in BOOLEAN
        /\ ~ running => sessions = <<>>
    BY FiniteParts, ServerAssumption DEF TypeOK, TableBounded, Counters
  <1>2. running => count.opened = count.completed + count.failed + count.expired + N
    BY DEF Accounting
  <1>3. ASSUME NEW p \in Packets, NEW out, HandleKnown(p, out)
        PROVE  IsFiniteSet(DOMAIN sessions') /\ TableBounded' /\ Accounting'
    <2> DEFINE k == Key(p)
               e == sessions[k]
    <2>1. EntryOK(k, e) /\ k \in DOMAIN sessions
      BY <1>3 DEF HandleKnown, TableOK
    <2>2. /\ DOMAIN sessions' = DOMAIN sessions
          /\ \A j \in DOMAIN sessions \ {k} : sessions'[j] = sessions[j]
          /\ running /\ running' = running
          /\ \/ /\ sessions'[k].lingering = e.lingering /\ count' = count
             \/ /\ ~ e.lingering /\ sessions'[k].lingering = TRUE
                /\ count' = Counted(count, Verdict(out.session))
      <3>1. /\ DOMAIN sessions' = DOMAIN sessions
            /\ \A j \in DOMAIN sessions \ {k} : sessions'[j] = sessions[j]
            /\ running /\ running' = running
            /\ \/ e.lingering /\ sessions'[k] = e /\ count' = count
               \/ /\ ~ e.lingering /\ count' = count
                  /\ \E r : sessions'[k] = Live(r)
               \/ /\ ~ e.lingering
                  /\ count' = Counted(count, Verdict(out.session))
                  /\ \E r : sessions'[k] = Done(r)
        BY <1>3, <2>1, KnownStep
      <3>2. e.lingering \in BOOLEAN
        BY <2>1 DEF EntryOK
      <3> HIDE DEF k, e
      <3> QED BY <3>1, <3>2, EntryMarks
    <2> HIDE DEF k, e
    <2>3. CASE sessions'[k].lingering = e.lingering /\ count' = count
      <3>1. Active(sessions') = A
        BY <2>1, <2>2, <2>3 DEF Active, e
      <3> QED BY <2>2, <2>3, <3>1 DEF TableBounded, Accounting
    <2>4. CASE /\ ~ e.lingering /\ sessions'[k].lingering = TRUE
               /\ count' = Counted(count, Verdict(out.session))
      <3>1. Active(sessions') = A \ {k} /\ k \in A
        BY <2>1, <2>2, <2>4 DEF Active, e
      <3>2. Cardinality(Active(sessions')) = N - 1
        BY <1>1, <3>1, FS_RemoveElement
      <3>3. /\ count'.opened = count.opened /\ count'.expired = count.expired
            /\ count'.completed + count'.failed = count.completed + count.failed + 1
        BY <1>1, <2>4, VerdictCounted DEF Counters, Counted
      <3>4. /\ count.opened \in Nat /\ count.completed \in Nat
            /\ count.failed \in Nat /\ count.expired \in Nat
            /\ count'.completed \in Nat /\ count'.failed \in Nat
        BY <1>1, <2>4, VerdictCounted DEF Counters, Counted
      <3>5. count'.opened = count'.completed + count'.failed + count'.expired + (N - 1)
        BY <1>1, <1>2, <2>2, <3>3, <3>4
      <3> QED BY <1>1, <2>2, <3>2, <3>5 DEF TableBounded, Accounting
    <2> QED BY <2>2, <2>3, <2>4
  <1>4. ASSUME NEW p \in Packets, NEW out, HandleNew(p, out)
        PROVE  IsFiniteSet(DOMAIN sessions') /\ TableBounded' /\ Accounting'
    <2> DEFINE k == Key(p)
               kept == DOMAIN sessions \ Evicted
               n == IF sessions'[k].lingering THEN N ELSE N + 1
    <2>1. /\ k \notin DOMAIN sessions /\ N < MaxSessions
          /\ DOMAIN sessions' = kept \cup {k}
          /\ \A j \in kept : sessions'[j] = sessions[j]
          /\ running /\ running' = running
          /\ \/ /\ sessions'[k].lingering = FALSE
                /\ count' = Counted(count, "opened")
             \/ /\ sessions'[k].lingering = TRUE
                /\ count' = Counted(Counted(count, "opened"), Verdict(out.session))
      <3>1. /\ k \notin DOMAIN sessions /\ N < MaxSessions
            /\ DOMAIN sessions' = kept \cup {k}
            /\ \A j \in kept : sessions'[j] = sessions[j]
            /\ running /\ running' = running
        BY <1>4, NewStep
      <3>2. \/ /\ sessions'[k] = Live(out.session)
               /\ count' = Counted(count, "opened")
            \/ /\ sessions'[k] = Done(out.session)
               /\ count' = Counted(Counted(count, "opened"), Verdict(out.session))
        BY <1>4, NewStep
      <3> HIDE DEF k, kept
      <3> QED BY <3>1, <3>2, EntryMarks
    <2>2. IsFiniteSet(kept) /\ Cardinality(kept) \in Nat
      <3>1. IsFiniteSet(kept)
        BY FS_Subset
      <3> QED BY <3>1, FS_CardinalityType
    <2>3. Cardinality(kept) + 1 <= 2 * MaxSessions
      <3>1. CASE Cardinality(DOMAIN sessions) >= MaxSessions * 2
        <4>1. kept = A
          BY <3>1 DEF Evicted, Active, Lingering
        <4>2. Cardinality(kept) = N
          BY <4>1
        <4> HIDE DEF N, kept
        <4> QED BY <1>1, <2>1, <4>2
      <3>2. CASE ~ (Cardinality(DOMAIN sessions) >= MaxSessions * 2)
        <4>1. kept = DOMAIN sessions
          BY <3>2 DEF Evicted
        <4> QED BY <1>1, <3>2, <4>1
      <3> QED BY <3>1, <3>2
    <2>4. A \subseteq kept
      BY DEF Evicted, Active, Lingering
    <2> HIDE DEF k, kept
    <2>5. IsFiniteSet(DOMAIN sessions') /\ Cardinality(DOMAIN sessions') <= 2 * MaxSessions
      <3>1. k \notin kept
        BY <2>1 DEF kept
      <3>2. /\ IsFiniteSet(kept \cup {k})
            /\ Cardinality(kept \cup {k}) = Cardinality(kept) + 1
        BY <2>2, <3>1, FS_AddElement
      <3> QED BY <2>1, <2>3, <3>2
    <2>6. Active(sessions') = IF sessions'[k].lingering THEN A ELSE A \cup {k}
      <3>1. k \notin A
        BY <2>1 DEF Active
      <3> QED BY <2>1, <2>4, <3>1 DEF Active, kept
    <2>7. Cardinality(Active(sessions')) = n
      <3>1. k \notin A
        BY <2>1 DEF Active
      <3>2. Cardinality(A \cup {k}) = N + 1
        BY <1>1, <3>1, FS_AddElement
      <3> QED BY <2>6, <3>2
    <2>8. n \in Nat /\ n <= MaxSessions
      BY <1>1, <2>1
    <2>9. count'.opened = count'.completed + count'.failed + count'.expired + n
      <3>1. /\ count.opened \in Nat /\ count.completed \in Nat
            /\ count.failed \in Nat /\ count.expired \in Nat
        BY <1>1 DEF Counters
      <3>2. CASE sessions'[k].lingering = FALSE /\ count' = Counted(count, "opened")
        <4>1. /\ count'.opened = count.opened + 1 /\ count'.expired = count.expired
              /\ count'.completed = count.completed /\ count'.failed = count.failed
          BY <1>1, <3>2 DEF Counters, Counted
        <4> QED BY <1>1, <1>2, <2>1, <3>1, <3>2, <4>1
      <3>3. CASE /\ sessions'[k].lingering = TRUE
                 /\ count' = Counted(Counted(count, "opened"), Verdict(out.session))
        <4>1. /\ count'.opened = count.opened + 1 /\ count'.expired = count.expired
              /\ \/ /\ count'.completed = count.completed + 1
                    /\ count'.failed = count.failed
                 \/ /\ count'.completed = count.completed
                    /\ count'.failed = count.failed + 1
          <5> DEFINE tally == Counted(count, "opened")
          <5>1. /\ tally \in [Counters -> Nat] /\ tally.opened = count.opened + 1
                /\ tally.completed = count.completed /\ tally.failed = count.failed
                /\ tally.expired = count.expired
            BY <1>1 DEF Counters, Counted
          <5> HIDE DEF tally
          <5>2. count' = Counted(tally, Verdict(out.session))
            BY <3>3 DEF tally
          <5> QED BY <5>1, <5>2, VerdictCounted DEF Counters, Counted
        <4> QED BY <1>1, <1>2, <2>1, <3>1, <3>3, <4>1
      <3> QED BY <2>1, <3>2, <3>3
    <2> HIDE DEF n
    <2> QED BY <2>1, <2>5, <2>7, <2>8, <2>9 DEF TableBounded, Accounting
  <1>5. CASE Sweep
    <2> DEFINE gone == {k \in DOMAIN sessions : Overdue(k)}
               swept == Cardinality(A \cap gone)
    <2>1. /\ sessions' = Without(sessions, gone) /\ running /\ running' = running
          /\ count' = [count EXCEPT !.expired = @ + Cardinality(gone \cap A)]
      BY <1>5 DEF Sweep, process
    <2>2. gone \cap A = A \cap gone /\ gone \subseteq DOMAIN sessions
      OBVIOUS
    <2> HIDE DEF gone
    <2>3. /\ DOMAIN sessions' = DOMAIN sessions \ gone
          /\ \A j \in DOMAIN sessions' : sessions'[j] = sessions[j]
      BY <2>1 DEF Without
    <2>4. Active(sessions') = A \ gone
      BY <2>3 DEF Active
    <2> HIDE DEF A
    <2>5. IsFiniteSet(A \cap gone) /\ swept \in Nat /\ swept <= N
      <3>1. A \cap gone \in SUBSET A
        OBVIOUS
      <3>2. IsFiniteSet(A \cap gone) /\ Cardinality(A \cap gone) <= Cardinality(A)
        BY <1>1, <3>1, FS_Subset
      <3> QED BY <3>2, FS_CardinalityType
    <2>6. Cardinality(Active(sessions')) = N - swept
      BY <1>1, <2>4, FS_Difference
    <2>7. /\ IsFiniteSet(DOMAIN sessions') /\ Cardinality(DOMAIN sessions') \in Nat
          /\ Cardinality(DOMAIN sessions') <= Cardinality(DOMAIN sessions)
      <3>1. DOMAIN sessions' \in SUBSET DOMAIN sessions
        BY <2>3
      <3>2. IsFiniteSet(DOMAIN sessions')
            /\ Cardinality(DOMAIN sessions') <= Cardinality(DOMAIN sessions)
        BY <3>1, FS_Subset
      <3> QED BY <3>2, FS_CardinalityType
    <2>8. TableBounded'
      <3> HIDE DEF N, swept
      <3>1. N - swept <= MaxSessions
        BY <1>1, <2>5
      <3>2. Cardinality(DOMAIN sessions') <= 2 * MaxSessions
        BY <1>1, <2>7
      <3> QED BY <2>6, <3>1, <3>2 DEF TableBounded
    <2>9. Accounting'
      <3>1. /\ count.opened \in Nat /\ count.completed \in Nat
            /\ count.failed \in Nat /\ count.expired \in Nat
        BY <1>1 DEF Counters
      <3>2. count' = [count EXCEPT !.expired = @ + swept]
        BY <2>1, <2>2
      <3> HIDE DEF N, swept
      <3>3. /\ count'.opened = count.opened /\ count'.completed = count.completed
            /\ count'.failed = count.failed /\ count'.expired = count.expired + swept
        BY <1>1, <3>2 DEF Counters
      <3>4. count'.opened = count'.completed + count'.failed + count'.expired + (N - swept)
        BY <1>1, <1>2, <2>1, <2>5, <3>1, <3>3
      <3> QED BY <2>1, <2>6, <3>4 DEF Accounting
    <2> QED BY <2>7, <2>8, <2>9
  <1>6. CASE Tick
    <2>1. /\ DOMAIN sessions' = DOMAIN sessions /\ running /\ running' = running
          /\ \A k \in DOMAIN sessions : sessions'[k] = Older(sessions[k])
          /\ count' = count
      BY <1>6 DEF Tick, process
    <2>2. \A k \in DOMAIN sessions : sessions'[k].lingering = sessions[k].lingering
      BY <2>1, EntryOlder DEF TableOK
    <2>3. Active(sessions') = Active(sessions)
      BY <2>1, <2>2 DEF Active
    <2> QED BY <2>1, <2>3 DEF TableBounded, Accounting
  <1>7. ASSUME sessions' = <<>>
        PROVE  /\ IsFiniteSet(DOMAIN sessions') /\ TableBounded'
               /\ Cardinality(Active(sessions')) = 0
    <2>1. DOMAIN sessions' = {} /\ Active(sessions') = {}
      BY <1>7, NoEntries DEF Active
    <2>2. Cardinality({}) = 0 /\ IsFiniteSet({})
      BY FS_EmptySet
    <2> QED BY <2>1, <2>2, ServerAssumption DEF TableBounded
  <1>8. CASE Shutdown
    <2>1. /\ sessions' = <<>> /\ running /\ running' = FALSE
          /\ count' = [count EXCEPT !.abandoned = N]
      BY <1>8 DEF Shutdown, Report
    <2> HIDE DEF N
    <2>2. /\ count'.opened = count.opened /\ count'.completed = count.completed
          /\ count'.failed = count.failed /\ count'.expired = count.expired
          /\ count'.abandoned = N
      BY <1>1, <2>1 DEF Counters
    <2>3. Accounting'
      BY <1>2, <2>1, <2>2 DEF Accounting
    <2> QED BY <1>7, <2>1, <2>3
  <1>9. CASE Crash
    <2>1. sessions' = <<>> /\ running' = FALSE /\ count' = NoCounts
      BY <1>9 DEF Crash
    <2>2. Accounting'
      BY <2>1 DEF Accounting, NoCounts
    <2> QED BY <1>7, <2>1, <2>2
  <1>10. CASE Restart
    <2>1. sessions' = <<>> /\ count' = NoCounts
      BY <1>1, <1>10 DEF Restart
    <2>2. Cardinality(Active(sessions')) = 0
      BY <1>7, <2>1
    <2>3. Accounting'
      BY <2>1, <2>2 DEF Accounting, NoCounts
    <2> QED BY <1>7, <2>1, <2>3
  <1>11. ASSUME NEW p \in Packets, Refuse(p)
         PROVE  IsFiniteSet(DOMAIN sessions') /\ TableBounded' /\ Accounting'
    <2>1. /\ sessions' = sessions /\ running' = running
          /\ count' = [count EXCEPT !.refused = @ + 1]
      BY <1>11 DEF Refuse, process
    <2>2. \A x \in Counters \ {"refused"} : count'[x] = count[x]
      BY <1>1, <2>1 DEF Counters
    <2>3. /\ count'.opened = count.opened /\ count'.completed = count.completed
          /\ count'.failed = count.failed /\ count'.expired = count.expired
          /\ count'.abandoned = count.abandoned
      BY <2>2 DEF Counters
    <2>4. Active(sessions') = Active(sessions) /\ DOMAIN sessions' = DOMAIN sessions
      BY <2>1
    <2> QED BY <2>1, <2>3, <2>4 DEF TableBounded, Accounting
  <1>12. CASE UNCHANGED vars
    BY <1>12 DEF vars, TableBounded, Accounting
  <1>13. ASSUME NEW p \in Packets, Ignore(p)
         PROVE  IsFiniteSet(DOMAIN sessions') /\ TableBounded' /\ Accounting'
    BY <1>12, <1>13 DEF Ignore
  <1> QED
    BY <1>3, <1>4, <1>5, <1>6, <1>8, <1>9, <1>10, <1>11, <1>12, <1>13 DEF Next, Receive
-----------------------------------------------------------------------------
\* What is not the name of a partial file.
Outputs(paths) == paths \ Partials

\* A name that may go: it is that of the partial file of a session.
TakenAlong(x) ==
  /\ x \in Partials
  /\ \E j \in DOMAIN sessions :
       /\ sessions[j].receiver.temp_path = x
       /\ ~ sessions[j].receiver.published

\* What a session destroyed unlinks is its own partial file, if it has not
\* published: what is left under such a name is an orphan, was asked for by a
\* client, or belongs to a session that stays.
LEMMA Forgetting ==
  ASSUME TableOK, NamesOK, PartialsOwned, NEW gone \in SUBSET DOMAIN sessions
  PROVE  LET left == DOMAIN disk.names \ Leftovers(sessions, gone) IN
         /\ \A x \in DOMAIN disk.names \ left : TakenAlong(x)
         /\ \A x \in left \cap Partials :
              \/ x \in orphans \/ x \in Requested
              \/ \E j \in DOMAIN sessions \ gone :
                   /\ sessions[j].receiver.temp_path = x
                   /\ ~ sessions[j].receiver.published
  <1> DEFINE lost == Leftovers(sessions, gone)
  <1>1. \A j \in DOMAIN sessions : sessions[j].receiver.temp_path \in {NoPath} \cup Partials
    BY DEF TableOK, EntryOK
  <1>2. \A x \in lost : \E j \in gone :
          /\ x = sessions[j].receiver.temp_path /\ x # NoPath
          /\ ~ sessions[j].receiver.published
    BY DEF Leftovers, Leftover
  <1>3. \A x \in lost : TakenAlong(x)
    BY <1>1, <1>2 DEF TakenAlong
  <1>4. \A j \in gone : ~ sessions[j].receiver.published
          /\ sessions[j].receiver.temp_path # NoPath
          => sessions[j].receiver.temp_path \in lost
    BY DEF Leftovers, Leftover
  <1> HIDE DEF lost
  <1>5. ASSUME NEW x \in (DOMAIN disk.names \ lost) \cap Partials,
               x \notin orphans, x \notin Requested
        PROVE  \E j \in DOMAIN sessions \ gone :
                 /\ sessions[j].receiver.temp_path = x
                 /\ ~ sessions[j].receiver.published
    <2>1. x \in DOMAIN disk.names \cap Partials /\ x \notin lost /\ x # NoPath
      BY <1>5 DEF NamesOK
    <2>2. PICK j \in DOMAIN sessions :
            sessions[j].receiver.temp_path = x /\ ~ sessions[j].receiver.published
      BY <1>5, <2>1 DEF PartialsOwned
    <2>3. j \notin gone
      BY <1>4, <2>1, <2>2
    <2> QED BY <2>2, <2>3
  <1> QED BY <1>3, <1>5 DEF lost

\* A packet for a session in the table.
LEMMA KnownNames ==
  ASSUME TableOK, NamesOK, OrphansApart, PartialsOwned,
         NEW p, NEW out, HandleKnown(p, out)
  PROVE  /\ NamesOK' /\ OrphansApart' /\ PartialsOwned'
         /\ \A x \in DOMAIN disk.names \ DOMAIN disk'.names : TakenAlong(x)
  <1> DEFINE k == Key(p)
             e == sessions[k]
             s == e.receiver
  <1>1. k \in DOMAIN sessions /\ EntryOK(k, e)
    BY DEF HandleKnown, TableOK
  <1>2. /\ DOMAIN sessions' = DOMAIN sessions
        /\ \A j \in DOMAIN sessions \ {k} : sessions'[j] = sessions[j]
        /\ disk' = Reclaim(out.disk, OpenFiles(sessions'))
        /\ orphans' = orphans \ Adopted(sessions')
    BY <1>1, KnownStep
  <1>3. /\ sessions'[k].receiver.temp_path = s.temp_path
    BY <1>1, KnownEntry
  <1>4. \/ /\ sessions'[k].receiver.published = s.published
           /\ DiskShaped(out.disk) /\ out.disk.names = disk.names
        \/ /\ DiskShaped(out.disk) /\ s.temp_path = TempPath(k[2])
           /\ ~ s.published /\ s.output_path \in Requested
           /\ DOMAIN out.disk.names =
                (DOMAIN disk.names \ {s.temp_path}) \cup {s.output_path}
    <2>1. \/ sessions'[k] = e /\ out.disk = disk
          \/ sessions'[k] = Live(s) /\ out.disk = disk
          \/ sessions'[k] = Live(out.session) /\ Writes(s, disk, p, out)
          \/ /\ ~ e.lingering /\ sessions'[k] = Done(out.session)
             /\ Shaped(out.session)
             /\ Fails(s, disk, out) \/ Publishes(s, disk, p, out)
      BY <1>1, KnownStep
    <2>2. DiskShaped(disk)
      BY DEF NamesOK
    <2> HIDE DEF k, e
    <2>3. CASE sessions'[k] = e /\ out.disk = disk
      BY <2>2, <2>3
    <2>4. CASE sessions'[k] = Live(s) /\ out.disk = disk
      BY <2>2, <2>4 DEF Live
    <2> HIDE DEF s
    <2>5. CASE sessions'[k] = Live(out.session) /\ Writes(s, disk, p, out)
      <3>1. out.session.published = s.published
            /\ out.disk = write_at(disk, s.file, p.payload, p.offset)
        BY <2>5 DEF Writes
      <3>2. sessions'[k].receiver = out.session
        BY <2>5 DEF Live
      <3> QED BY <2>2, <3>1, <3>2, DiskOperations
    <2>6. CASE /\ ~ e.lingering /\ sessions'[k] = Done(out.session)
               /\ Shaped(out.session)
               /\ Fails(s, disk, out)
      <3>1. out.session.published = s.published /\ out.disk = disk
        BY <2>6 DEF Fails
      <3>2. sessions'[k].receiver.published = out.session.published
        BY <2>6, CloseFile DEF Done, Members
      <3> QED BY <2>2, <3>1, <3>2
    <2>7. CASE ~ e.lingering /\ Publishes(s, disk, p, out)
      <3>1. out.disk = rename(disk, s.temp_path, s.output_path)
        BY <2>7 DEF Publishes
      <3>2. s.temp_path = TempPath(k[2]) /\ ~ s.published /\ s.output_path \in Requested
        BY <1>1, <2>7 DEF EntryOK, k, e, s
      <3>3. /\ DiskShaped(out.disk)
            /\ DOMAIN out.disk.names =
                 (DOMAIN disk.names \ {s.temp_path}) \cup {s.output_path}
        BY <2>2, <3>1, DiskOperations
      <3> QED BY <3>2, <3>3
    <2> QED BY <2>1, <2>3, <2>4, <2>5, <2>6, <2>7
  <1>5. DiskShaped(disk') /\ disk'.names = out.disk.names
    BY <1>2, <1>4, DiskOperations
  <1> HIDE DEF k, e, s
  <1>6. \A j \in DOMAIN sessions :
          sessions'[j].receiver.temp_path = sessions[j].receiver.temp_path
    BY <1>2, <1>3 DEF e, s
  <1>7. orphans' = orphans
    <2>1. Adopted(sessions') = Adopted(sessions)
      BY <1>2, <1>6 DEF Adopted
    <2>2. orphans \cap Adopted(sessions) = {}
      BY DEF OrphansApart, Adopted
    <2> QED BY <1>2, <2>1, <2>2
  <1>8. OrphansApart'
    BY <1>2, <1>6, <1>7 DEF OrphansApart
  <1>9. CASE /\ sessions'[k].receiver.published = s.published
             /\ out.disk.names = disk.names
    <2>1. \A j \in DOMAIN sessions :
            sessions'[j].receiver.published = sessions[j].receiver.published
      BY <1>2, <1>9 DEF e, s
    <2>2. disk'.names = disk.names
      BY <1>5, <1>9
    <2>3. PartialsOwned'
      BY <1>2, <1>6, <1>7, <2>1, <2>2 DEF PartialsOwned
    <2> QED BY <1>5, <1>8, <2>2, <2>3 DEF NamesOK
  <1>10. ASSUME s.temp_path = TempPath(k[2]), ~ s.published, s.output_path \in Requested,
                DOMAIN out.disk.names =
                  (DOMAIN disk.names \ {s.temp_path}) \cup {s.output_path}
         PROVE  /\ NamesOK' /\ PartialsOwned'
                /\ \A x \in DOMAIN disk.names \ DOMAIN disk'.names : TakenAlong(x)
    <2>1. DOMAIN disk'.names = (DOMAIN disk.names \ {s.temp_path}) \cup {s.output_path}
      BY <1>5, <1>10
    <2>2. NamesOK'
      BY <1>5, <1>10, <2>1, PathsApart DEF NamesOK, Requested
    <2>3. ASSUME NEW x \in DOMAIN disk'.names \cap Partials, x \notin orphans',
                 x \notin Requested
          PROVE  \E j \in DOMAIN sessions' :
                   sessions'[j].receiver.temp_path = x
                   /\ ~ sessions'[j].receiver.published
      <3>1. x \in DOMAIN disk.names /\ x # s.temp_path
        BY <1>10, <2>1, <2>3
      <3>2. PICK j \in DOMAIN sessions :
              sessions[j].receiver.temp_path = x /\ ~ sessions[j].receiver.published
        BY <1>7, <2>3, <3>1 DEF PartialsOwned
      <3>3. j # k
        BY <3>1, <3>2 DEF e, s
      <3> QED BY <1>2, <3>2, <3>3
    <2>4. PartialsOwned'
      BY <2>3 DEF PartialsOwned
    <2>5. \A x \in DOMAIN disk.names \ DOMAIN disk'.names : TakenAlong(x)
      <3>1. k \in DOMAIN sessions /\ sessions[k].receiver = s /\ s.temp_path \in Partials
        BY <1>1, <1>10 DEF EntryOK, e, s
      <3> QED BY <1>10, <2>1, <3>1 DEF TakenAlong
    <2> QED BY <2>2, <2>4, <2>5
  <1> QED BY <1>4, <1>8, <1>9, <1>10

\* A START that is admitted.
LEMMA NewNames ==
  ASSUME TableOK, NamesOK, OrphansApart, PartialsOwned,
         NEW p \in Packets, NEW out, HandleNew(p, out)
  PROVE  /\ NamesOK' /\ OrphansApart' /\ PartialsOwned'
         /\ \A x \in DOMAIN disk.names \ DOMAIN disk'.names : TakenAlong(x)
  <1> DEFINE k == Key(p)
             t == out.session.temp_path
             left == DOMAIN disk.names \ Leftovers(sessions, Evicted)
  <1>1. /\ DOMAIN sessions' = (DOMAIN sessions \ Evicted) \cup {k}
        /\ \A j \in DOMAIN sessions \ Evicted : sessions'[j] = sessions[j]
        /\ disk' = Reclaim(out.disk, OpenFiles(sessions'))
        /\ orphans' = orphans \ Adopted(sessions')
        /\ Opens(Cleared, p, out) \/ OpenFails(Cleared, p, out)
    BY NewStep
  <1>2. /\ sessions'[k].receiver.published = FALSE
        /\ sessions'[k].receiver.temp_path = t
    BY NewEntry
  <1>3. DiskShaped(Cleared) /\ DOMAIN Cleared.names = left
    <2>1. DiskShaped(disk)
      BY DEF NamesOK
    <2>2. /\ DiskShaped(unlink(disk, Leftovers(sessions, Evicted)))
          /\ DOMAIN unlink(disk, Leftovers(sessions, Evicted)).names = left
      BY <2>1, DiskOperations
    <2> QED BY <2>2, DiskOperations DEF Cleared
  <1> HIDE DEF k, left
  <1>4. /\ DiskShaped(out.disk) /\ DOMAIN out.disk.names \in {left, left \cup {t}}
        /\ t \in DOMAIN out.disk.names => t \in left \/ t # NoPath
    <2>1. CASE Opens(Cleared, p, out)
      <3>1. t = TempPath(p.session_id) /\ out.disk = open_write(Cleared, t)
        BY <2>1 DEF Opens
      <3>2. t # NoPath
        BY <3>1, PathsApart
      <3> HIDE DEF t
      <3>3. DiskShaped(out.disk) /\ DOMAIN out.disk.names = left \cup {t}
        BY <1>3, <3>1, DiskOperations
      <3> QED BY <3>2, <3>3
    <2>2. CASE OpenFails(Cleared, p, out)
      <3>1. out.disk = Cleared
        BY <2>2 DEF OpenFails
      <3>2. DiskShaped(out.disk) /\ DOMAIN out.disk.names = left
        BY <1>3, <3>1
      <3> HIDE DEF t
      <3> QED BY <3>2
    <2> QED BY <1>1, <2>1, <2>2
  <1>5. /\ DiskShaped(disk') /\ DOMAIN disk'.names \in {left, left \cup {t}}
        /\ t \in DOMAIN disk'.names => t \in left \/ t # NoPath
    BY <1>1, <1>4, DiskOperations
  <1>6. NamesOK'
    BY <1>5 DEF NamesOK, left
  <1>7. OrphansApart'
    <2>1. \A j \in DOMAIN sessions' : sessions'[j].receiver.temp_path \in Adopted(sessions')
      BY DEF Adopted
    <2> QED BY <1>1, <2>1 DEF OrphansApart
  <1>8. Evicted \in SUBSET DOMAIN sessions
    BY DEF Evicted, Lingering
  <1>9. /\ \A x \in DOMAIN disk.names \ left : TakenAlong(x)
        /\ \A x \in left \cap Partials :
             \/ x \in orphans \/ x \in Requested
             \/ \E j \in DOMAIN sessions \ Evicted :
                  /\ sessions[j].receiver.temp_path = x
                  /\ ~ sessions[j].receiver.published
    BY <1>8, Forgetting DEF left
  <1>10. ASSUME NEW x \in DOMAIN disk'.names \cap Partials, x \notin orphans',
                x \notin Requested
         PROVE  \E j \in DOMAIN sessions' :
                  /\ sessions'[j].receiver.temp_path = x
                  /\ ~ sessions'[j].receiver.published
    <2>1. CASE x = t
      BY <1>1, <1>2, <2>1
    <2>2. CASE x # t /\ x \in orphans
      <3>1. x \in Adopted(sessions')
        BY <1>1, <1>10, <2>2
      <3>2. PICK j \in DOMAIN sessions' : sessions'[j].receiver.temp_path = x
        BY <3>1 DEF Adopted
      <3>3. j # k
        BY <1>2, <2>2, <3>2
      <3>4. j \in DOMAIN sessions /\ sessions[j].receiver.temp_path = x
        BY <1>1, <3>2, <3>3
      <3> QED BY <2>2, <3>4 DEF OrphansApart
    <2>3. CASE x # t /\ x \notin orphans
      <3>1. x \in left \cap Partials
        BY <1>5, <1>10, <2>3
      <3> QED BY <1>1, <1>9, <1>10, <2>3, <3>1
    <2> QED BY <2>1, <2>2, <2>3
  <1>11. PartialsOwned'
    BY <1>10 DEF PartialsOwned
  <1> QED BY <1>5, <1>6, <1>7, <1>9, <1>11

\* Sessions that leave the table, at a sweep or at the shutdown.
LEMMA ForgettingStep ==
  ASSUME TableOK, NamesOK, OrphansApart, PartialsOwned,
         NEW gone \in SUBSET DOMAIN sessions, NEW open,
         sessions' = Without(sessions, gone), orphans' = orphans,
         disk' = Reclaim(unlink(disk, Leftovers(sessions, gone)), open)
  PROVE  /\ NamesOK' /\ OrphansApart' /\ PartialsOwned'
         /\ \A x \in DOMAIN disk.names \ DOMAIN disk'.names : TakenAlong(x)
  <1> DEFINE left == DOMAIN disk.names \ Leftovers(sessions, gone)
  <1>1. DiskShaped(disk') /\ DOMAIN disk'.names = left
    <2>1. DiskShaped(disk)
      BY DEF NamesOK
    <2>2. /\ DiskShaped(unlink(disk, Leftovers(sessions, gone)))
          /\ DOMAIN unlink(disk, Leftovers(sessions, gone)).names = left
      BY <2>1, DiskOperations
    <2> QED BY <2>2, DiskOperations
  <1>2. /\ DOMAIN sessions' = DOMAIN sessions \ gone
        /\ \A j \in DOMAIN sessions \ gone : sessions'[j] = sessions[j]
    BY DEF Without
  <1>3. /\ \A x \in DOMAIN disk.names \ left : TakenAlong(x)
        /\ \A x \in left \cap Partials :
             \/ x \in orphans \/ x \in Requested
             \/ \E j \in DOMAIN sessions \ gone :
                  /\ sessions[j].receiver.temp_path = x
                  /\ ~ sessions[j].receiver.published
    BY Forgetting
  <1> HIDE DEF left
  <1>4. NamesOK'
    BY <1>1 DEF NamesOK, left
  <1>5. OrphansApart'
    BY <1>2 DEF OrphansApart
  <1>6. PartialsOwned'
    BY <1>1, <1>2, <1>3 DEF PartialsOwned
  <1> QED BY <1>1, <1>3, <1>4, <1>5, <1>6

\* Every step keeps the partial files owned, and takes no other name away.
LEMMA NamesStep ==
  ASSUME TypeOK, TableOK, NamesOK, OrphansApart, PartialsOwned, [Next]_vars
  PROVE  /\ NamesOK' /\ OrphansApart' /\ PartialsOwned'
         /\ \A x \in DOMAIN disk.names \ DOMAIN disk'.names : TakenAlong(x)
  <1> DEFINE Goal == /\ NamesOK' /\ OrphansApart' /\ PartialsOwned'
                     /\ \A x \in DOMAIN disk.names \ DOMAIN disk'.names : TakenAlong(x)
  <1>1. ASSUME NEW p \in Packets, Receive(p)
        PROVE  Goal
    BY <1>1, KnownNames, NewNames DEF Receive
  <1>2. CASE Sweep
    <2> DEFINE gone == {k \in DOMAIN sessions : Overdue(k)}
    <2>1. /\ sessions' = Without(sessions, gone) /\ orphans' = orphans
          /\ disk' = Reclaim(unlink(disk, Leftovers(sessions, gone)),
                             OpenFiles(Without(sessions, gone)))
      BY <1>2 DEF Sweep
    <2>2. gone \in SUBSET DOMAIN sessions
      OBVIOUS
    <2> HIDE DEF gone
    <2> QED BY <2>1, <2>2, ForgettingStep
  <1>3. CASE Shutdown
    <2>1. /\ sessions' = <<>> /\ orphans' = orphans
          /\ disk' = Reclaim(unlink(disk, Leftovers(sessions, DOMAIN sessions)), {})
      BY <1>3 DEF Shutdown
    <2>2. sessions' = Without(sessions, DOMAIN sessions)
      BY <2>1 DEF Without
    <2> QED BY <2>1, <2>2, ForgettingStep
  <1>4. CASE Tick
    <2>1. /\ DOMAIN sessions' = DOMAIN sessions /\ disk' = disk /\ orphans' = orphans
          /\ \A k \in DOMAIN sessions : sessions'[k] = Older(sessions[k])
      BY <1>4 DEF Tick
    <2>2. \A k \in DOMAIN sessions : sessions'[k].receiver = sessions[k].receiver
      BY <2>1, EntryOlder DEF TableOK
    <2> QED BY <2>1, <2>2 DEF NamesOK, OrphansApart, PartialsOwned
  <1>5. CASE Crash
    <2>1. /\ sessions' = <<>> /\ disk' = Reclaim(disk, {})
          /\ orphans' = DOMAIN disk.names \cap Partials
      BY <1>5 DEF Crash
    <2>2. DiskShaped(disk') /\ disk'.names = disk.names
      BY <2>1, DiskOperations DEF NamesOK
    <2>3. DOMAIN sessions' = {}
      BY <2>1, NoEntries
    <2> QED BY <2>1, <2>2, <2>3
            DEF NamesOK, OrphansApart, PartialsOwned
  <1>6. CASE sessions' = sessions /\ disk' = disk /\ orphans' = orphans
    BY <1>6 DEF NamesOK, OrphansApart, PartialsOwned
  <1>7. ASSUME NEW p \in Packets, Refuse(p) \/ Ignore(p)
        PROVE  Goal
    BY <1>6, <1>7 DEF Refuse, Ignore, vars
  <1>8. CASE Restart \/ UNCHANGED vars
    BY <1>6, <1>8 DEF Restart, vars
  <1> QED BY <1>1, <1>2, <1>3, <1>4, <1>5, <1>7, <1>8 DEF Next

\* What is not the name of a partial file stays.
LEMMA OutputsStay ==
  ASSUME TypeOK, TableOK, NamesOK, OrphansApart, PartialsOwned, [Next]_vars
  PROVE  Outputs(DOMAIN disk.names) \subseteq DOMAIN disk'.names
  BY NamesStep DEF TakenAlong, Outputs

\* A settled session keeps its verdict while it is in the table.
LEMMA SettledStep ==
  ASSUME TableOK, [Next]_vars, NEW k \in Lingering(sessions), k \in DOMAIN sessions'
  PROVE  sessions'[k].receiver = sessions[k].receiver
  <1>1. k \in DOMAIN sessions /\ sessions[k].lingering
    BY DEF Lingering
  <1>2. ASSUME NEW p, NEW out, HandleKnown(p, out)
        PROVE  sessions'[k].receiver = sessions[k].receiver
    <2>1. Key(p) \in DOMAIN sessions /\ EntryOK(Key(p), sessions[Key(p)])
      BY <1>2 DEF HandleKnown, TableOK
    <2>2. /\ \A j \in DOMAIN sessions \ {Key(p)} : sessions'[j] = sessions[j]
          /\ \/ sessions'[Key(p)] = sessions[Key(p)]
             \/ ~ sessions[Key(p)].lingering
      BY <1>2, <2>1, KnownStep
    <2> QED BY <1>1, <2>2
  <1>3. ASSUME NEW p, NEW out, HandleNew(p, out)
        PROVE  sessions'[k].receiver = sessions[k].receiver
    <2>1. /\ Key(p) \notin DOMAIN sessions
          /\ DOMAIN sessions' = (DOMAIN sessions \ Evicted) \cup {Key(p)}
          /\ \A j \in DOMAIN sessions \ Evicted : sessions'[j] = sessions[j]
      BY <1>3, NewStep
    <2> QED BY <1>1, <2>1
  <1>4. CASE Sweep
    BY <1>4 DEF Sweep, Without
  <1>5. CASE Tick
    <2>1. sessions'[k] = Older(sessions[k])
      BY <1>1, <1>5 DEF Tick
    <2> QED BY <1>1, <2>1, EntryOlder DEF TableOK
  <1>6. CASE Shutdown \/ Crash
    <2>1. DOMAIN sessions' = {}
      BY <1>6, NoEntries DEF Shutdown, Crash
    <2> QED BY <2>1
  <1>7. CASE sessions' = sessions
    BY <1>7
  <1>8. ASSUME NEW p, Refuse(p) \/ Ignore(p)
        PROVE  sessions' = sessions
    BY <1>8 DEF Refuse, Ignore, vars
  <1>9. CASE Restart \/ UNCHANGED vars
    BY <1>7, <1>9 DEF Restart, vars
  <1> QED BY <1>2, <1>3, <1>4, <1>5, <1>6, <1>7, <1>8, <1>9 DEF Next, Receive
-----------------------------------------------------------------------------
\* The server begins in order.
LEMMA InitInv ==
  ASSUME Init
  PROVE  IInv
  <1>1. /\ sessions = <<>> /\ disk = EmptyDisk /\ count = NoCounts
        /\ running = TRUE /\ starts = 1 /\ orphans = {}
    BY DEF Init
  <1>2. DOMAIN sessions = {} /\ Active(sessions) = {}
    BY <1>1, NoEntries DEF Active
  <1>3. TypeOK /\ TableOK
    BY <1>1, <1>2, ServerAssumption DEF TypeOK, TableOK, NoCounts
  <1>4. IsFiniteSet(DOMAIN sessions) /\ TableBounded /\ Accounting
    <2>1. Cardinality({}) = 0 /\ IsFiniteSet({})
      BY FS_EmptySet
    <2>2. Cardinality(Active(sessions)) = 0 /\ Cardinality(DOMAIN sessions) = 0
          /\ IsFiniteSet(DOMAIN sessions)
      BY <1>2, <2>1
    <2>3. TableBounded
      BY <2>2, ServerAssumption DEF TableBounded
    <2>4. Accounting
      BY <1>1, <2>2 DEF Accounting, NoCounts
    <2> QED BY <2>2, <2>3, <2>4
  <1>5. DiskShaped(disk) /\ DOMAIN disk.names = {}
    BY <1>1, NoEntries DEF EmptyDisk, DiskShaped
  <1> QED BY <1>1, <1>2, <1>3, <1>4, <1>5
      DEF IInv, NamesOK, OrphansApart, PartialsOwned

\* Every step keeps it in order.
LEMMA NextInv ==
  ASSUME IInv, [Next]_vars
  PROVE  IInv'
  BY TypeStep, CountingStep, NamesStep DEF IInv

\* The table, the counters and the names are in order at all times.
THEOREM InOrder == Spec => []IInv
  BY InitInv, NextInv, PTL DEF Spec

\* The shape of the table and the counters: every datagram, timer tick, signal,
\* kill and restart keeps it, whatever arrives.
THEOREM TypeCorrect == Spec => []TypeOK
  <1>1. IInv => TypeOK
    BY DEF IInv
  <1> QED BY <1>1, InOrder, PTL

\* Admission control: at most max_sessions active, at most twice that in all.
THEOREM AdmissionBounded == Spec => []TableBounded
  <1>1. IInv => TableBounded
    BY DEF IInv
  <1> QED BY <1>1, InOrder, PTL

\* The lines of the shutdown report add up to the sessions opened.
THEOREM ReportAddsUp == Spec => []Accounting
  <1>1. IInv => Accounting
    BY DEF IInv
  <1> QED BY <1>1, InOrder, PTL

\* No partial file outlives the session that wrote it, but for a killed process.
THEOREM NothingLeftBehind == Spec => []PartialsOwned
  <1>1. IInv => PartialsOwned
    BY DEF IInv
  <1> QED BY <1>1, InOrder, PTL

\* A session that has settled never changes its mind.
THEOREM VerdictStands == Spec => SettledIsFinal
  <1>1. IInv /\ [Next]_vars =>
          [\A k \in Lingering(sessions) :
             \/ k \notin DOMAIN sessions'
             \/ sessions'[k].receiver = sessions[k].receiver]_vars
    BY SettledStep DEF IInv
  <1> QED BY <1>1, InOrder, PTL DEF Spec, SettledIsFinal

\* Whatever arrives, a name goes away only along with the unpublished session whose
\* partial file has it: no other file of the directory is ever removed.
THEOREM NamesStay == Spec => PublishedStays
  <1>1. IInv /\ [Next]_vars =>
          [\A path \in DOMAIN disk.names \ DOMAIN disk'.names :
             /\ path \in Partials
             /\ \E k \in DOMAIN sessions :
                  /\ sessions[k].receiver.temp_path = path
                  /\ ~ sessions[k].receiver.published]_vars
    BY NamesStep DEF IInv, TakenAlong
  <1> QED BY <1>1, InOrder, PTL DEF Spec, PublishedStays

\* The event loop takes no step that is not one of the server's: what is shown of
\* the server holds of it, whatever it is busy with.
THEOREM LoopIsServer == LoopSpec => Spec
  <1>1. LoopInit => Init
    BY DEF LoopInit
  <1>2. [LoopNext]_loopVars => [Next]_vars
    BY DEF LoopNext, loopVars, Next, SocketReadable, Datagram, Drained, TimerFires,
           SignalArrives, ClockTicks, Killed, Started
  <1> QED BY <1>1, <1>2, PTL DEF LoopSpec, Spec
-----------------------------------------------------------------------------
(***************************************************************************)
(* The files                                                               *)
(***************************************************************************)

\* What send_file puts on the wire; and no client asks for a name by which a
\* partial file goes, which the code does not forbid.
Honest(Units) ==
  /\ Hole \in Units /\ Requested \cap Partials = {}
  /\ \A p \in Packets :
       /\ p.type = "START" => p.offset \in Nat
       /\ p.type = "DATA" => p.offset \in Nat /\ p.payload \in Seq(Units)
  /\ \A p, q \in Packets :
       /\ p.type = "START" /\ q.type = "FIN" /\ Key(p) = Key(q) => p.offset = q.offset
       /\ p.session_id = q.session_id => p.from = q.from

\* A session that is active under key k holds the file its partial name refers to,
\* which never grows beyond the size its START announced.
Holds(k, s, d, Units) ==
  /\ s.temp_path \in DOMAIN d.names /\ s.file = d.names[s.temp_path]
  /\ Contents(d, s.temp_path) \in Seq(Units)
  /\ Len(Contents(d, s.temp_path)) <= s.declared_size
  /\ \E p \in Packets :
       /\ p.type = "START" /\ Key(p) = k /\ IsSafe(p.payload)
       /\ s.output_path = OutputPath(sanitize_filename(p.payload))
       /\ s.declared_size = p.offset

\* One entry of the table and its file: only an active session has one.
EntryHolds(k, e, d, Units) ==
  /\ k \in {Key(p) : p \in Packets}
  /\ IF e.lingering THEN e.receiver.file = Closed ELSE Holds(k, e.receiver, d, Units)

\* What PublishedVerified says of one name.
Verified(x, contents) ==
  \E p, q \in Packets :
    /\ p.type = "START" /\ q.type = "FIN" /\ Key(p) = Key(q)
    /\ IsSafe(p.payload) /\ OutputPath(sanitize_filename(p.payload)) = x
    /\ contents = q.payload

\* The inductive invariant of the files, beside IInv.
FInv(Units) ==
  /\ Linked(disk)
  /\ \A k \in DOMAIN sessions : EntryHolds(k, sessions[k], disk, Units)
  /\ \A x \in Outputs(DOMAIN disk.names) : Verified(x, Contents(disk, x))
-----------------------------------------------------------------------------
\* What the kernel frees after a step does not matter to the files.
LEMMA FilesAfter ==
  ASSUME NEW Units, NEW d, Linked(d), NEW open, disk' = Reclaim(d, open),
         \A k \in DOMAIN sessions' : EntryHolds(k, sessions'[k], d, Units),
         \A x \in Outputs(DOMAIN d.names) : Verified(x, Contents(d, x))
  PROVE  FInv(Units)'
  <1>1. /\ Linked(disk') /\ disk'.names = d.names
        /\ \A x \in DOMAIN d.names : Contents(disk', x) = Contents(d, x)
    BY ReclaimLinked
  <1>2. \A k \in DOMAIN sessions' : EntryHolds(k, sessions'[k], disk', Units)
    BY <1>1 DEF EntryHolds, Holds
  <1>3. \A x \in Outputs(DOMAIN disk'.names) : Verified(x, Contents(disk', x))
    BY <1>1 DEF Outputs
  <1> QED BY <1>1, <1>2, <1>3 DEF FInv

\* A session is only concerned with what is under its partial name.
LEMMA HoldsElsewhere ==
  ASSUME NEW Units, NEW k, NEW e, NEW d, NEW f, EntryHolds(k, e, d, Units),
         ~ e.lingering =>
           /\ e.receiver.temp_path \in DOMAIN f.names
           /\ f.names[e.receiver.temp_path] = d.names[e.receiver.temp_path]
           /\ Contents(f, e.receiver.temp_path) = Contents(d, e.receiver.temp_path)
  PROVE  EntryHolds(k, e, f, Units)
  BY DEF EntryHolds, Holds

\* No two sessions share a partial name.
LEMMA OwnPartial ==
  ASSUME NEW Units, Honest(Units)
  PROVE  \A j, k \in {Key(p) : p \in Packets} : TempPath(j[2]) = TempPath(k[2]) => j = k
  <1> SUFFICES ASSUME NEW p \in Packets, NEW q \in Packets,
                      TempPath(Key(p)[2]) = TempPath(Key(q)[2])
               PROVE  Key(p) = Key(q)
    OBVIOUS
  <1>1. p.session_id = q.session_id
    BY DEF TempPath, join_path, PartialName, Key
  <1> QED BY <1>1 DEF Honest, Key

\* A packet for a session in the table.
LEMMA KnownFiles ==
  ASSUME NEW Units, Honest(Units), TableOK, FInv(Units),
         NEW p \in Packets, NEW out, HandleKnown(p, out)
  PROVE  FInv(Units)'
  <1> DEFINE k == Key(p)
             e == sessions[k]
             s == e.receiver
             d == out.disk
  <1>1. k \in DOMAIN sessions /\ EntryOK(k, e)
    BY DEF HandleKnown, TableOK
  <1>2. /\ DOMAIN sessions' = DOMAIN sessions
        /\ \A j \in DOMAIN sessions \ {k} : sessions'[j] = sessions[j]
        /\ disk' = Reclaim(d, OpenFiles(sessions'))
    BY <1>1, KnownStep
  <1>3. \/ sessions'[k] = e /\ d = disk
        \/ ~ e.lingering /\ sessions'[k] = Live(s) /\ d = disk
        \/ /\ ~ e.lingering /\ sessions'[k] = Live(out.session)
           /\ Writes(s, disk, p, out)
        \/ /\ ~ e.lingering /\ sessions'[k] = Done(out.session)
           /\ Shaped(out.session)
           /\ Fails(s, disk, out) \/ Publishes(s, disk, p, out)
    BY <1>1, KnownStep
  <1>4. /\ Linked(disk)
        /\ \A j \in DOMAIN sessions : EntryHolds(j, sessions[j], disk, Units)
        /\ \A x \in Outputs(DOMAIN disk.names) : Verified(x, Contents(disk, x))
    BY DEF FInv
  <1>5. \A j \in DOMAIN sessions : ~ sessions[j].lingering =>
          /\ sessions[j].receiver.temp_path = TempPath(j[2])
          /\ sessions[j].receiver.temp_path \in DOMAIN disk.names
    BY <1>4 DEF TableOK, EntryOK, EntryHolds, Holds
  <1>6. \A j \in DOMAIN sessions : j \in {Key(q) : q \in Packets}
    BY <1>4 DEF EntryHolds
  <1>7. \A j \in DOMAIN sessions \ {k} : ~ sessions[j].lingering =>
          sessions[j].receiver.temp_path # TempPath(k[2])
    BY <1>1, <1>5, <1>6, OwnPartial
  <1>8. EntryHolds(k, e, disk, Units)
    BY <1>1, <1>4
  <1> HIDE DEF k, e, d
  <1>9. CASE d = disk /\ EntryHolds(k, sessions'[k], disk, Units)
    <2>1. \A j \in DOMAIN sessions' : EntryHolds(j, sessions'[j], d, Units)
      BY <1>2, <1>4, <1>9
    <2> QED BY <1>2, <1>4, <1>9, <2>1, FilesAfter
  <1>10. CASE ~ e.lingering /\ sessions'[k] = Live(s) /\ d = disk
    <2>1. EntryHolds(k, Live(s), disk, Units)
      BY <1>8, <1>10 DEF EntryHolds, Live
    <2> QED BY <1>9, <1>10, <2>1
  <1> HIDE DEF s
  <1>11. ASSUME ~ e.lingering
         PROVE  s.temp_path = TempPath(k[2]) /\ Holds(k, s, disk, Units)
    BY <1>1, <1>5, <1>8, <1>11 DEF EntryHolds, e, s
  <1>12. ASSUME sessions'[k] = Done(out.session), Shaped(out.session)
         PROVE  \A c : EntryHolds(k, sessions'[k], c, Units)
    <2>1. Done(out.session).lingering = TRUE /\ Done(out.session).receiver.file = Closed
      BY <1>12, CloseFile DEF Done
    <2> QED BY <1>1, <1>6, <1>12, <2>1 DEF EntryHolds
  <1>13. CASE /\ ~ e.lingering /\ sessions'[k] = Done(out.session)
              /\ Shaped(out.session) /\ Fails(s, disk, out)
    <2>1. d = disk
      BY <1>13 DEF Fails, d
    <2> QED BY <1>9, <1>12, <1>13, <2>1
  <1>14. CASE /\ ~ e.lingering /\ sessions'[k] = Done(out.session)
              /\ Shaped(out.session) /\ Publishes(s, disk, p, out)
    <2> DEFINE a == s.temp_path
               b == s.output_path
    <2>1. /\ a \in DOMAIN disk.names /\ s.file = disk.names[a]
          /\ Contents(disk, a) \in Seq(Units)
          /\ Len(Contents(disk, a)) <= s.declared_size
      BY <1>11, <1>14 DEF Holds
    <2>2. PICK q \in Packets :
            /\ q.type = "START" /\ Key(q) = k /\ IsSafe(q.payload)
            /\ b = OutputPath(sanitize_filename(q.payload))
            /\ s.declared_size = q.offset
      BY <1>11, <1>14 DEF Holds
    <2>3. /\ p.type = "FIN" /\ p.offset = s.bytes_written
          /\ p.payload = read_at(disk, s.file, s.bytes_written)
          /\ d = rename(disk, a, b)
      BY <1>14 DEF Publishes, d
    <2>4. s.bytes_written = s.declared_size /\ s.declared_size \in Nat
      BY <2>2, <2>3 DEF Honest, k
    <2>5. p.payload = Contents(disk, a)
      <3>1. disk.data[s.file] = Contents(disk, a)
        BY <2>1 DEF Contents
      <3> QED BY <2>1, <2>3, <2>4, <3>1, ReadWhole
    <2>6. a \in Partials /\ b \notin Partials
      <3>1. TempPath(k[2]) \in Partials
        BY <1>1 DEF EntryOK
      <3>2. b \in Requested
        BY <2>2 DEF Requested
      <3> QED BY <1>11, <1>14, <3>1, <3>2 DEF Honest
    <2>7. a = TempPath(k[2])
      BY <1>11, <1>14
    <2> HIDE DEF a, b
    <2>8. /\ Linked(d) /\ DOMAIN d.names = (DOMAIN disk.names \ {a}) \cup {b}
          /\ Contents(d, b) = Contents(disk, a)
          /\ \A x \in DOMAIN disk.names \ {a, b} :
               d.names[x] = disk.names[x] /\ Contents(d, x) = Contents(disk, x)
      BY <1>4, <2>1, <2>3, RenameLinked
    <2>9. Verified(b, Contents(d, b))
      BY <2>2, <2>3, <2>5, <2>8 DEF Verified, k
    <2>10. \A x \in Outputs(DOMAIN d.names) : Verified(x, Contents(d, x))
      BY <1>4, <2>6, <2>8, <2>9 DEF Outputs
    <2>11. ASSUME NEW j \in DOMAIN sessions', j # k
           PROVE  EntryHolds(j, sessions'[j], d, Units)
      <3>1. j \in DOMAIN sessions /\ sessions'[j] = sessions[j]
        BY <1>2, <2>11
      <3>2. ~ sessions[j].lingering =>
              sessions[j].receiver.temp_path \in DOMAIN disk.names \ {a, b}
        <4>1. EntryOK(j, sessions[j])
          BY <3>1 DEF TableOK
        <4> QED BY <1>5, <1>7, <2>6, <2>7, <2>11, <3>1, <4>1 DEF EntryOK
      <3>3. EntryHolds(j, sessions[j], disk, Units)
        BY <1>4, <3>1
      <3> QED BY <2>8, <3>1, <3>2, <3>3, HoldsElsewhere
    <2>12. \A j \in DOMAIN sessions' : EntryHolds(j, sessions'[j], d, Units)
      BY <1>12, <1>14, <2>11
    <2> QED BY <1>2, <2>8, <2>10, <2>12, FilesAfter
  <1>15. CASE /\ ~ e.lingering /\ sessions'[k] = Live(out.session)
              /\ Writes(s, disk, p, out)
    <2> DEFINE a == s.temp_path
    <2>1. /\ a \in DOMAIN disk.names /\ s.file = disk.names[a]
          /\ Contents(disk, a) \in Seq(Units)
          /\ Len(Contents(disk, a)) <= s.declared_size
          /\ \E q \in Packets :
               /\ q.type = "START" /\ Key(q) = k /\ IsSafe(q.payload)
               /\ s.output_path = OutputPath(sanitize_filename(q.payload))
               /\ s.declared_size = q.offset
      BY <1>11, <1>15 DEF Holds
    <2>2. /\ SameFile(s, out.session) /\ p.type = "DATA"
          /\ ~ (p.offset + Len(p.payload) > s.declared_size)
          /\ d = write_at(disk, disk.names[a], p.payload, p.offset)
      BY <1>15, <2>1 DEF Writes, d
    <2>3. /\ s.declared_size \in Nat /\ p.offset \in Nat
          /\ p.payload \in Seq(Units) /\ Hole \in Units
      BY <2>1, <2>2 DEF Honest
    <2>4. p.offset + Len(p.payload) <= s.declared_size
      BY <2>2, <2>3
    <2>5. a = TempPath(k[2])
      BY <1>11, <1>15
    <2>6. a \in Partials
      BY <1>1, <2>5 DEF EntryOK
    <2> HIDE DEF a
    <2>7. /\ Linked(d) /\ d.names = disk.names
          /\ Contents(d, a) = Overwrite(Contents(disk, a), p.payload, p.offset)
          /\ \A x \in DOMAIN disk.names \ {a} : Contents(d, x) = Contents(disk, x)
      <3>1. /\ Linked(disk) /\ a \in DOMAIN disk.names
            /\ d = write_at(disk, disk.names[a], p.payload, p.offset)
        BY <1>4, <2>1, <2>2
      <3>2. Written(disk, a, p.payload, p.offset, d)
        BY <3>1, WriteLinked
      <3> QED BY <3>2 DEF Written
    <2>8. Contents(d, a) \in Seq(Units) /\ Len(Contents(d, a)) <= s.declared_size
      BY <2>1, <2>3, <2>4, <2>7, OverwriteBounded
    <2>9. Holds(k, out.session, d, Units)
      BY <2>1, <2>2, <2>7, <2>8 DEF Holds, SameFile, a
    <2>10. Live(out.session).lingering = FALSE /\ Live(out.session).receiver = out.session
      BY DEF Live
    <2>11. EntryHolds(k, sessions'[k], d, Units)
      BY <1>1, <1>6, <1>15, <2>9, <2>10 DEF EntryHolds
    <2>12. \A x \in Outputs(DOMAIN d.names) : Verified(x, Contents(d, x))
      BY <1>4, <2>6, <2>7 DEF Outputs
    <2>13. ASSUME NEW j \in DOMAIN sessions', j # k
           PROVE  EntryHolds(j, sessions'[j], d, Units)
      <3>1. j \in DOMAIN sessions /\ sessions'[j] = sessions[j]
        BY <1>2, <2>13
      <3>2. ~ sessions[j].lingering =>
              sessions[j].receiver.temp_path \in DOMAIN disk.names \ {a}
        BY <1>5, <1>7, <2>5, <2>13, <3>1
      <3>3. EntryHolds(j, sessions[j], disk, Units)
        BY <1>4, <3>1
      <3> QED BY <2>7, <3>1, <3>2, <3>3, HoldsElsewhere
    <2> QED BY <1>2, <2>7, <2>11, <2>12, <2>13, FilesAfter
  <1> QED BY <1>3, <1>8, <1>9, <1>10, <1>13, <1>14, <1>15 DEF s

\* Sessions that are destroyed take no file of another along, nor a published one.
LEMMA ForgetFiles ==
  ASSUME NEW Units, Honest(Units), TableOK, FInv(Units),
         NEW gone \in SUBSET DOMAIN sessions, NEW open
  PROVE  LET f == Reclaim(unlink(disk, Leftovers(sessions, gone)), open) IN
         /\ Linked(f)
         /\ \A j \in DOMAIN sessions \ gone : EntryHolds(j, sessions[j], f, Units)
         /\ \A x \in Outputs(DOMAIN f.names) : Verified(x, Contents(f, x))
  <1> DEFINE lost == Leftovers(sessions, gone)
             g == unlink(disk, lost)
             f == Reclaim(g, open)
  <1>1. /\ Linked(disk)
        /\ \A j \in DOMAIN sessions : EntryHolds(j, sessions[j], disk, Units)
        /\ \A x \in Outputs(DOMAIN disk.names) : Verified(x, Contents(disk, x))
    BY DEF FInv
  <1>2. \A x \in lost : \E i \in gone : x = TempPath(i[2])
    <2>1. \A x \in lost : \E i \in gone :
            x = sessions[i].receiver.temp_path /\ x # NoPath
      BY DEF Leftovers, Leftover
    <2>2. \A i \in DOMAIN sessions :
            sessions[i].receiver.temp_path \in {NoPath, TempPath(i[2])}
      BY DEF TableOK, EntryOK
    <2> QED BY <2>1, <2>2
  <1> HIDE DEF lost
  <1>3. /\ Linked(g) /\ DOMAIN g.names = DOMAIN disk.names \ lost
        /\ \A x \in DOMAIN g.names :
             g.names[x] = disk.names[x] /\ Contents(g, x) = Contents(disk, x)
    BY <1>1, UnlinkLinked
  <1> HIDE DEF g
  <1>4. /\ Linked(f) /\ f.names = g.names
        /\ \A x \in DOMAIN g.names : Contents(f, x) = Contents(g, x)
    BY <1>3, ReclaimLinked
  <1> HIDE DEF f
  <1>5. ASSUME NEW j \in DOMAIN sessions \ gone
        PROVE  EntryHolds(j, sessions[j], f, Units)
    <2> DEFINE t == sessions[j].receiver.temp_path
    <2>1. EntryHolds(j, sessions[j], disk, Units) /\ EntryOK(j, sessions[j])
      BY <1>1 DEF TableOK
    <2>2. ASSUME ~ sessions[j].lingering
          PROVE  t \in DOMAIN g.names
      <3>1. t = TempPath(j[2]) /\ t \in DOMAIN disk.names
        BY <2>1, <2>2 DEF EntryOK, EntryHolds, Holds
      <3>2. \A i \in gone : i \in {Key(p) : p \in Packets}
        BY <1>1 DEF EntryHolds
      <3>3. j \in {Key(p) : p \in Packets}
        BY <2>1 DEF EntryHolds
      <3>4. \A i \in gone : TempPath(i[2]) # TempPath(j[2])
        BY <3>2, <3>3, OwnPartial
      <3> HIDE DEF t
      <3>5. t \notin lost
        BY <1>2, <3>1, <3>4
      <3> QED BY <1>3, <3>1, <3>5
    <2> QED BY <1>3, <1>4, <2>1, <2>2, HoldsElsewhere
  <1>6. \A x \in Outputs(DOMAIN f.names) : Verified(x, Contents(f, x))
    BY <1>1, <1>3, <1>4 DEF Outputs
  <1> QED BY <1>4, <1>5, <1>6 DEF f, g, lost

\* A START that is admitted.
LEMMA NewFiles ==
  ASSUME NEW Units, Honest(Units), TableOK, FInv(Units),
         NEW p \in Packets, NEW out, HandleNew(p, out)
  PROVE  FInv(Units)'
  <1> DEFINE k == Key(p)
             c == Cleared
             d == out.disk
             t == TempPath(p.session_id)
  <1>1. /\ k \notin DOMAIN sessions /\ p.type = "START"
        /\ DOMAIN sessions' = (DOMAIN sessions \ Evicted) \cup {k}
        /\ \A j \in DOMAIN sessions \ Evicted : sessions'[j] = sessions[j]
        /\ disk' = Reclaim(d, OpenFiles(sessions'))
        /\ Shaped(out.session)
        /\ \/ Opens(c, p, out) /\ sessions'[k] = Live(out.session)
           \/ OpenFails(c, p, out) /\ sessions'[k] = Done(out.session)
    BY NewStep
  <1>2. Evicted \in SUBSET DOMAIN sessions
    BY DEF Evicted, Lingering
  <1>3. /\ Linked(c)
        /\ \A j \in DOMAIN sessions \ Evicted : EntryHolds(j, sessions[j], c, Units)
        /\ \A x \in Outputs(DOMAIN c.names) : Verified(x, Contents(c, x))
    BY <1>2, ForgetFiles DEF Cleared
  <1>4. k \in {Key(q) : q \in Packets} /\ t = TempPath(k[2])
    BY DEF Key
  <1> HIDE DEF k, c, d, t
  <1>5. CASE OpenFails(c, p, out) /\ sessions'[k] = Done(out.session)
    <2>1. d = c
      BY <1>5 DEF OpenFails, d
    <2>2. Done(out.session).lingering = TRUE /\ Done(out.session).receiver.file = Closed
      BY <1>1, CloseFile DEF Done
    <2>3. EntryHolds(k, sessions'[k], d, Units)
      BY <1>4, <1>5, <2>2 DEF EntryHolds
    <2>4. \A j \in DOMAIN sessions' : EntryHolds(j, sessions'[j], d, Units)
      BY <1>1, <1>3, <2>1, <2>3
    <2> QED BY <1>1, <1>3, <2>1, <2>4, FilesAfter
  <1>6. CASE Opens(c, p, out) /\ sessions'[k] = Live(out.session)
    <2>1. /\ IsSafe(p.payload) /\ CanOpen(c, t) /\ d = open_write(c, t)
          /\ out.session.temp_path = t /\ out.session.file = InodeFor(c, t)
          /\ out.session.output_path = OutputPath(sanitize_filename(p.payload))
          /\ out.session.declared_size = p.offset
      BY <1>6 DEF Opens, t, d
    <2>2. /\ Linked(d) /\ DOMAIN d.names = DOMAIN c.names \cup {t}
          /\ d.names[t] = InodeFor(c, t) /\ Contents(d, t) = <<>>
          /\ \A x \in DOMAIN c.names \ {t} :
               d.names[x] = c.names[x] /\ Contents(d, x) = Contents(c, x)
      BY <1>3, <2>1, OpenLinked
    <2>3. t \in Partials
      BY DEF t, Partials
    <2>4. p.offset \in Nat
      BY <1>1 DEF Honest
    <2>5. Holds(k, out.session, d, Units)
      <3>1. Contents(d, t) \in Seq(Units) /\ Len(Contents(d, t)) <= p.offset
        BY <2>2, <2>4
      <3>2. \E q \in Packets :
              /\ q.type = "START" /\ Key(q) = k /\ IsSafe(q.payload)
              /\ out.session.output_path = OutputPath(sanitize_filename(q.payload))
              /\ out.session.declared_size = q.offset
        BY <1>1, <2>1 DEF k
      <3> QED BY <2>1, <2>2, <3>1, <3>2 DEF Holds
    <2>6. Live(out.session).lingering = FALSE /\ Live(out.session).receiver = out.session
      BY DEF Live
    <2>7. EntryHolds(k, sessions'[k], d, Units)
      BY <1>4, <1>6, <2>5, <2>6 DEF EntryHolds
    <2>8. \A x \in Outputs(DOMAIN d.names) : Verified(x, Contents(d, x))
      BY <1>3, <2>2, <2>3 DEF Outputs
    <2>9. ASSUME NEW j \in DOMAIN sessions', j # k
          PROVE  EntryHolds(j, sessions'[j], d, Units)
      <3>1. /\ j \in DOMAIN sessions /\ sessions'[j] = sessions[j]
            /\ EntryHolds(j, sessions[j], c, Units)
        BY <1>1, <1>3, <2>9
      <3>2. ~ sessions[j].lingering =>
              /\ sessions[j].receiver.temp_path = TempPath(j[2])
              /\ sessions[j].receiver.temp_path \in DOMAIN c.names
        BY <3>1 DEF TableOK, EntryOK, EntryHolds, Holds
      <3>3. TempPath(j[2]) # t
        BY <1>4, <2>9, <3>1, OwnPartial DEF EntryHolds
      <3> QED BY <2>2, <3>1, <3>2, <3>3, HoldsElsewhere
    <2> QED BY <1>1, <2>2, <2>7, <2>8, <2>9, FilesAfter
  <1> QED BY <1>1, <1>5, <1>6

\* An empty directory and an empty table.
LEMMA InitFiles ==
  ASSUME NEW Units, Init
  PROVE  FInv(Units)
  <1>1. DOMAIN sessions = {} /\ DiskShaped(disk) /\ DOMAIN disk.names = {}
    BY NoEntries DEF Init, EmptyDisk, DiskShaped
  <1> QED BY <1>1 DEF FInv, Linked, Outputs

\* Every step keeps the files in order.
LEMMA FilesStep ==
  ASSUME NEW Units, Honest(Units), TableOK, FInv(Units), [Next]_vars
  PROVE  FInv(Units)'
  <1>0. /\ Linked(disk)
        /\ \A j \in DOMAIN sessions : EntryHolds(j, sessions[j], disk, Units)
        /\ \A x \in Outputs(DOMAIN disk.names) : Verified(x, Contents(disk, x))
    BY DEF FInv
  <1>1. ASSUME NEW p \in Packets, Receive(p)
        PROVE  FInv(Units)'
    BY <1>1, KnownFiles, NewFiles DEF Receive
  <1>2. ASSUME NEW gone \in SUBSET DOMAIN sessions, NEW open,
               DOMAIN sessions' = DOMAIN sessions \ gone,
               \A j \in DOMAIN sessions' : sessions'[j] = sessions[j],
               disk' = Reclaim(unlink(disk, Leftovers(sessions, gone)), open)
        PROVE  FInv(Units)'
    <2>1. /\ Linked(disk')
          /\ \A j \in DOMAIN sessions \ gone : EntryHolds(j, sessions[j], disk', Units)
          /\ \A x \in Outputs(DOMAIN disk'.names) : Verified(x, Contents(disk', x))
      BY <1>2, ForgetFiles
    <2> QED BY <1>2, <2>1 DEF FInv
  <1>3. CASE Sweep
    <2> DEFINE gone == {k \in DOMAIN sessions : Overdue(k)}
    <2>1. /\ sessions' = Without(sessions, gone)
          /\ disk' = Reclaim(unlink(disk, Leftovers(sessions, gone)),
                             OpenFiles(Without(sessions, gone)))
      BY <1>3 DEF Sweep
    <2>2. gone \in SUBSET DOMAIN sessions
      OBVIOUS
    <2> HIDE DEF gone
    <2>3. /\ DOMAIN sessions' = DOMAIN sessions \ gone
          /\ \A j \in DOMAIN sessions' : sessions'[j] = sessions[j]
      BY <2>1 DEF Without
    <2> QED BY <1>2, <2>1, <2>2, <2>3
  <1>4. CASE Shutdown
    <2>1. /\ sessions' = <<>>
          /\ disk' = Reclaim(unlink(disk, Leftovers(sessions, DOMAIN sessions)), {})
      BY <1>4 DEF Shutdown
    <2>2. DOMAIN sessions' = DOMAIN sessions \ DOMAIN sessions
      BY <2>1, NoEntries
    <2> QED BY <1>2, <2>1, <2>2
  <1>5. CASE Crash
    <2>1. DOMAIN sessions' = {} /\ disk' = Reclaim(disk, {})
      BY <1>5, NoEntries DEF Crash
    <2> QED BY <1>0, <2>1, FilesAfter
  <1>6. CASE Tick
    <2>1. /\ DOMAIN sessions' = DOMAIN sessions /\ disk' = disk
          /\ \A j \in DOMAIN sessions : sessions'[j] = Older(sessions[j])
      BY <1>6 DEF Tick
    <2>2. \A j \in DOMAIN sessions :
            /\ sessions'[j].receiver = sessions[j].receiver
            /\ sessions'[j].lingering = sessions[j].lingering
      BY <2>1, EntryOlder DEF TableOK
    <2>3. \A j \in DOMAIN sessions : EntryHolds(j, sessions'[j], disk, Units)
      BY <1>0, <2>2 DEF EntryHolds
    <2> QED BY <1>0, <2>1, <2>3 DEF FInv
  <1>7. CASE sessions' = sessions /\ disk' = disk
    BY <1>0, <1>7 DEF FInv
  <1>8. ASSUME NEW p \in Packets, Refuse(p) \/ Ignore(p)
        PROVE  FInv(Units)'
    BY <1>7, <1>8 DEF Refuse, Ignore, vars
  <1>9. CASE Restart \/ UNCHANGED vars
    BY <1>7, <1>9 DEF Restart, vars
  <1> QED BY <1>1, <1>3, <1>4, <1>5, <1>6, <1>8, <1>9 DEF Next
-----------------------------------------------------------------------------
\* The files are in order at all times, whatever of the clients' packets is lost,
\* repeated or reordered, and wherever the process is killed.
THEOREM FilesInOrder ==
  ASSUME NEW Units, Honest(Units)
  PROVE  Spec => [](IInv /\ FInv(Units))
  <1>1. Init => FInv(Units)
    BY InitFiles
  <1>2. IInv /\ FInv(Units) /\ [Next]_vars => FInv(Units)'
    BY FilesStep DEF IInv
  <1> QED BY <1>1, <1>2, InOrder, PTL DEF Spec

\* A descriptor is held exactly while a session is active: lingering costs none.
THEOREM DescriptorsFreed ==
  ASSUME NEW Units, Honest(Units)
  PROVE  Spec => []DescriptorsBounded
  <1>1. IInv /\ FInv(Units) => DescriptorsBounded
    <2> SUFFICES ASSUME FInv(Units), NEW k \in DOMAIN sessions
                 PROVE  (sessions[k].receiver.file # Closed) <=> k \in Active(sessions)
      BY DEF DescriptorsBounded
    <2>1. Linked(disk) /\ EntryHolds(k, sessions[k], disk, Units)
      BY DEF FInv
    <2> QED BY <2>1 DEF EntryHolds, Holds, Linked, Active
  <1> QED BY <1>1, FilesInOrder, PTL

\* A name in the output directory is always a complete, verified file.
THEOREM OnlyVerifiedPublished ==
  ASSUME NEW Units, Honest(Units)
  PROVE  Spec => []PublishedVerified
  <1>1. IInv /\ FInv(Units) => PublishedVerified
    BY DEF FInv, PublishedVerified, Verified, Outputs
  <1> QED BY <1>1, FilesInOrder, PTL
-----------------------------------------------------------------------------
\* No client asks for the name of a partial file, its own or another's.
NamesApart(Clients) ==
  \A t, u \in Clients :
    IsSafe(t.name) => sanitize_filename(t.name) # PartialName(u.session_id)

\* The packets of clients that drew different ids, and whose files are not called
\* like a partial one, are honest: send_file takes the size in START and FIN, and
\* every chunk, from one file.
THEOREM HonestClients ==
  ASSUME NEW Units, Hole \in Units, NEW Clients,
         \A t \in Clients : t.contents \in Seq(Units),
         \A t, u \in Clients : t.session_id = u.session_id => t = u,
         NamesApart(Clients),
         Packets \subseteq UNION {PacketsOf(t) : t \in Clients}
  PROVE  Honest(Units)
  <1>1. \A p \in Packets : \E t \in Clients :
          /\ p.session_id = t.session_id /\ p.from = t.from
          /\ p.type = "START" => p.payload = t.name
          /\ p.type \in {"START", "FIN"} => p.offset = Len(t.contents)
          /\ p.type = "DATA" =>
               \E n \in Nat : p.offset = n * ChunkSize /\ p.payload = ChunkAt(t, n)
    <2> SUFFICES ASSUME NEW p \in Packets
                 PROVE  \E t \in Clients :
                   /\ p.session_id = t.session_id /\ p.from = t.from
                   /\ p.type = "START" => p.payload = t.name
                   /\ p.type \in {"START", "FIN"} => p.offset = Len(t.contents)
                   /\ p.type = "DATA" =>
                        \E n \in Nat : p.offset = n * ChunkSize
                                       /\ p.payload = ChunkAt(t, n)
      OBVIOUS
    <2>1. PICK t \in Clients : p \in PacketsOf(t)
      OBVIOUS
    <2>2. CASE p \in {StartPacket(t), FinPacket(t)}
      BY <2>2 DEF StartPacket, FinPacket, FileSize
    <2>3. CASE \E n \in Chunks(t) : p = DataPacket(t, n)
      <3>1. PICK n \in Chunks(t) : p = DataPacket(t, n)
        BY <2>3
      <3>2. n \in Nat
        BY DEF Chunks
      <3> QED BY <3>1, <3>2 DEF DataPacket
    <2> QED BY <2>1, <2>2, <2>3 DEF PacketsOf
  <1>2. \A p \in Packets :
          /\ p.type = "START" => p.offset \in Nat
          /\ p.type = "DATA" => p.offset \in Nat /\ p.payload \in Seq(Units)
    <2> SUFFICES ASSUME NEW p \in Packets
                 PROVE  /\ p.type = "START" => p.offset \in Nat
                        /\ p.type = "DATA" =>
                             p.offset \in Nat /\ p.payload \in Seq(Units)
      OBVIOUS
    <2>1. PICK t \in Clients :
            /\ p.type \in {"START", "FIN"} => p.offset = Len(t.contents)
            /\ p.type = "DATA" =>
                 \E n \in Nat : p.offset = n * ChunkSize /\ p.payload = ChunkAt(t, n)
      BY <1>1
    <2>2. Len(t.contents) \in Nat
      OBVIOUS
    <2>3. \A n \in Nat : ChunkAt(t, n) \in Seq(Units) /\ n * ChunkSize \in Nat
      BY ChunkUnits
    <2> QED BY <2>1, <2>2, <2>3
  <1>3. \A p, q \in Packets : p.session_id = q.session_id =>
          /\ p.from = q.from
          /\ p.type = "START" /\ q.type = "FIN" => p.offset = q.offset
    BY <1>1
  <1>4. \A p, q \in Packets : Key(p) = Key(q) => p.session_id = q.session_id
    BY DEF Key
  <1>5. Requested \cap Partials = {}
    <2> SUFFICES ASSUME NEW p \in Packets, p.type = "START", IsSafe(p.payload),
                        NEW q \in Packets,
                        OutputPath(sanitize_filename(p.payload)) = TempPath(q.session_id)
                 PROVE  FALSE
      BY DEF Requested, Partials
    <2>1. PICK t \in Clients : p.payload = t.name
      BY <1>1
    <2>2. PICK u \in Clients : q.session_id = u.session_id
      BY <1>1
    <2>3. sanitize_filename(t.name) = PartialName(u.session_id)
      BY <2>1, <2>2 DEF OutputPath, TempPath, join_path
    <2> QED BY <2>1, <2>3 DEF NamesApart
  <1> QED BY <1>2, <1>3, <1>4, <1>5 DEF Honest
-----------------------------------------------------------------------------
(***************************************************************************)
(* The whole system                                                        *)
(***************************************************************************)

\* The clients are senders of this system, with different ids and files not called
\* like partial ones, and nobody else writes to the server.
OwnClients(Units) ==
  /\ DistinctClients(Units) /\ NamesApart(Transfers)
  /\ Packets = UNION {PacketsOf(t) : t \in Transfers}

\* The file of the transfer under key k is in place.
Delivered(k, paths) ==
  \E t \in Transfers :
    <<t.from, t.session_id>> = k /\ IsSafe(t.name) /\ OutputOf(t) \in Outputs(paths)

\* A FIN_ACK, in flight or kept for replay or believed, is a kept promise.
Promises ==
  /\ \A m \in net :
       /\ m.type \in Requests => m \in Packets
       /\ m.type = "FIN_ACK" =>
            Delivered(<<m.to, m.session_id>>, DOMAIN disk.names)
  /\ \A k \in DOMAIN sessions :
       /\ sessions[k].receiver.final_reply.type \notin Requests
       /\ sessions[k].receiver.final_reply.type = "FIN_ACK" =>
            Delivered(k, DOMAIN disk.names)
  /\ \A t \in Transfers : sender[t].result = "kNone" =>
       Delivered(<<t.from, t.session_id>>, DOMAIN disk.names)

\* The inductive invariant of the whole system.
TInv(Units) == IInv /\ FInv(Units) /\ SendersOK /\ Promises
-----------------------------------------------------------------------------
\* A key has one transfer.
LEMMA OneTransfer ==
  ASSUME NEW Units, OwnClients(Units)
  PROVE  \A t, u \in Transfers :
           <<t.from, t.session_id>> = <<u.from, u.session_id>> => t = u
  BY DEF OwnClients, DistinctClients

\* The clients of this system are honest in the sense of the server.
LEMMA OwnHonest ==
  ASSUME NEW Units, OwnClients(Units)
  PROVE  Honest(Units)
  <1>1. /\ Hole \in Units
        /\ \A t \in Transfers : t.contents \in Seq(Units)
        /\ \A t, u \in Transfers : t.session_id = u.session_id => t = u
        /\ NamesApart(Transfers)
        /\ Packets \subseteq UNION {PacketsOf(t) : t \in Transfers}
    BY DEF OwnClients, DistinctClients
  <1> QED BY <1>1, HonestClients

\* What is delivered stays so while no output name goes away.
LEMMA DeliveredStays ==
  ASSUME NEW old, NEW new, Outputs(old) \subseteq new
  PROVE  \A k : Delivered(k, old) => Delivered(k, new)
  BY DEF Delivered, Outputs

\* What the sessions have promised, part of Promises.
SessionsPromise ==
  \A k \in DOMAIN sessions :
    /\ sessions[k].receiver.final_reply.type \notin Requests
    /\ sessions[k].receiver.final_reply.type = "FIN_ACK" =>
         Delivered(k, DOMAIN disk.names)

\* A session publishes under the name its client asked for.
LEMMA PublishDelivers ==
  ASSUME NEW Units, OwnClients(Units), IInv, FInv(Units), NEW k \in DOMAIN sessions,
         ~ sessions[k].lingering, NEW d, NEW open, disk' = Reclaim(d, open),
         d = rename(disk, sessions[k].receiver.temp_path,
                    sessions[k].receiver.output_path)
  PROVE  Delivered(k, DOMAIN disk'.names)
  <1> DEFINE s == sessions[k].receiver
  <1>1. DiskShaped(disk) /\ EntryHolds(k, sessions[k], disk, Units)
    BY DEF FInv, Linked
  <1>2. PICK q \in Packets :
          /\ q.type = "START" /\ Key(q) = k /\ IsSafe(q.payload)
          /\ s.output_path = OutputPath(sanitize_filename(q.payload))
    BY <1>1 DEF EntryHolds, Holds
  <1>3. PICK t \in Transfers : q \in PacketsOf(t)
    BY DEF OwnClients
  <1>4. k = <<t.from, t.session_id>> /\ q.payload = t.name
    BY <1>2, <1>3, PacketFacts DEF Key
  <1>5. s.output_path = OutputOf(t) /\ IsSafe(t.name)
    BY <1>2, <1>4 DEF OutputOf
  <1> HIDE DEF s
  <1>6. /\ DiskShaped(d) /\ DOMAIN d.names = (DOMAIN disk.names \ {s.temp_path})
                                                \cup {s.output_path}
    BY <1>1, DiskOperations DEF s
  <1>7. s.output_path \in DOMAIN disk'.names
    BY <1>6, DiskOperations
  <1>8. s.output_path \notin Partials
    <2>1. s.output_path \in Requested
      BY <1>2 DEF Requested, s
    <2> QED BY <2>1, OwnHonest DEF Honest
  <1> QED BY <1>4, <1>5, <1>7, <1>8 DEF Delivered, Outputs

\* The server answers a packet: what it replies and keeps for replay holds.
LEMMA ReceivePromises ==
  ASSUME NEW Units, OwnClients(Units), IInv, FInv(Units), SessionsPromise,
         NEW p \in Packets, NEW out \in Outcomes(p),
         HandleKnown(p, out) \/ HandleNew(p, out)
  PROVE  /\ SessionsPromise'
         /\ out.reply.type \notin Requests
         /\ out.reply.type = "FIN_ACK" => Delivered(Key(p), DOMAIN disk'.names)
  <1> DEFINE k == Key(p)
             r == out.session
             paths == DOMAIN disk'.names
             Good(reply) == /\ reply.type \notin Requests
                            /\ reply.type = "FIN_ACK" => Delivered(k, paths)
  <1>1. TableOK /\ [Next]_vars
    BY DEF IInv, Next, Receive
  <1>2. Outputs(DOMAIN disk.names) \subseteq paths
    BY OutputsStay, <1>1 DEF IInv
  <1>3. \A j \in DOMAIN sessions :
          /\ sessions[j].receiver.final_reply.type \notin Requests
          /\ sessions[j].receiver.final_reply.type = "FIN_ACK" => Delivered(j, paths)
    BY <1>2, DeliveredStays DEF SessionsPromise
  <1>4. ASSUME HandleKnown(p, out)
        PROVE  /\ DOMAIN sessions' \subseteq DOMAIN sessions
               /\ \A j \in DOMAIN sessions' \ {k} : sessions'[j] = sessions[j]
               /\ Good(sessions'[k].receiver.final_reply) /\ Good(out.reply)
    <2> DEFINE e == sessions[k]
               s == e.receiver
    <2>1. k \in DOMAIN sessions /\ EntryOK(k, e) /\ out \in handle_packet(s, disk, p)
      BY <1>1, <1>4 DEF HandleKnown, TableOK
    <2>2. /\ DOMAIN sessions' = DOMAIN sessions
          /\ \A j \in DOMAIN sessions \ {k} : sessions'[j] = sessions[j]
          /\ disk' = Reclaim(out.disk, OpenFiles(sessions'))
      BY <1>4, <2>1, KnownStep
    <2>3. \/ sessions'[k] = e
          \/ sessions'[k] = Live(s)
          \/ sessions'[k] = Live(r)
          \/ sessions'[k] = Done(r) /\ Shaped(r)
      BY <1>4, <2>1, KnownStep
    <2>4. Shaped(s) /\ s.finished = e.lingering
      BY <2>1 DEF EntryOK
    <2>5. Good(s.final_reply)
      BY <1>3, <2>1
    <2>6. /\ out.reply.type \notin Requests /\ r.final_reply.type \notin Requests
          /\ out.reply.type = "FIN_ACK" \/ r.final_reply.type = "FIN_ACK" =>
               \/ s.final_reply.type = "FIN_ACK"
               \/ out.disk = rename(disk, s.temp_path, s.output_path) /\ ~ s.finished
      BY <2>1, <2>4, <2>5, ReplyKinds
    <2>7. out.disk = rename(disk, s.temp_path, s.output_path) /\ ~ s.finished =>
            Delivered(k, paths)
      BY <2>1, <2>2, <2>4, PublishDelivers
    <2>8. Good(out.reply) /\ Good(r.final_reply)
      BY <2>5, <2>6, <2>7
    <2>9. sessions'[k].receiver.final_reply \in {s.final_reply, r.final_reply}
      <3>1. Live(s).receiver = s /\ Live(r).receiver = r
        BY DEF Live
      <3>2. Shaped(r) => Done(r).receiver.final_reply = r.final_reply
        BY CloseFile DEF Done, Members
      <3> HIDE DEF k, e, r, s
      <3> QED BY <2>3, <3>1, <3>2 DEF s
    <2> HIDE DEF Good
    <2> QED BY <2>2, <2>5, <2>8, <2>9
  <1>5. ASSUME HandleNew(p, out)
        PROVE  /\ DOMAIN sessions' \subseteq DOMAIN sessions \cup {k}
               /\ \A j \in DOMAIN sessions' \ {k} : sessions'[j] = sessions[j]
               /\ Good(sessions'[k].receiver.final_reply) /\ Good(out.reply)
    <2>1. /\ DOMAIN sessions' = (DOMAIN sessions \ Evicted) \cup {k}
          /\ \A j \in DOMAIN sessions \ Evicted : sessions'[j] = sessions[j]
          /\ Shaped(r) /\ p.type = "START"
          /\ sessions'[k] = Live(r) \/ sessions'[k] = Done(r)
      BY <1>5, NewStep
    <2>2. out \in handle_packet(NewSession, Cleared, p)
      BY <1>5 DEF HandleNew
    <2>3. Shaped(NewSession) /\ NewSession.final_reply.type = "none"
      BY DEF NewSession, Shaped, Members, NoReply
    <2>4. Good(out.reply) /\ Good(r.final_reply)
      <3>1. NewSession.final_reply.type \notin Requests
        BY <2>3 DEF Requests
      <3>2. /\ out.reply.type \notin Requests /\ r.final_reply.type \notin Requests
            /\ out.reply.type = "FIN_ACK" \/ r.final_reply.type = "FIN_ACK" =>
                 NewSession.final_reply.type = "FIN_ACK" \/ p.type = "FIN"
        BY <2>2, <2>3, <3>1, ReplyKinds
      <3> QED BY <2>1, <2>3, <3>2
    <2>5. sessions'[k].receiver.final_reply = r.final_reply
      <3>1. Live(r).receiver = r
        BY DEF Live
      <3>2. Done(r).receiver.final_reply = r.final_reply
        BY <2>1, CloseFile DEF Done, Members
      <3> HIDE DEF k, r
      <3> QED BY <2>1, <3>1, <3>2
    <2> HIDE DEF Good
    <2> QED BY <2>1, <2>4, <2>5
  <1>6. /\ DOMAIN sessions' \subseteq DOMAIN sessions \cup {k}
        /\ \A j \in DOMAIN sessions' \ {k} : sessions'[j] = sessions[j]
        /\ Good(sessions'[k].receiver.final_reply) /\ Good(out.reply)
    BY <1>4, <1>5
  <1>7. SessionsPromise'
    BY <1>3, <1>6 DEF SessionsPromise
  <1> QED BY <1>6, <1>7

\* Whatever else the server does, its sessions promise nothing new.
LEMMA QuietPromises ==
  ASSUME IInv, SessionsPromise,
         \/ \E p \in Packets : Refuse(p) \/ Ignore(p)
         \/ Sweep \/ Tick \/ Shutdown \/ Crash \/ Restart
         \/ UNCHANGED vars
  PROVE  SessionsPromise'
  <1>1. TableOK /\ [Next]_vars
    BY DEF IInv, Next
  <1>2. Outputs(DOMAIN disk.names) \subseteq DOMAIN disk'.names
    BY OutputsStay, <1>1 DEF IInv
  <1>3. \A j \in DOMAIN sessions :
          /\ sessions[j].receiver.final_reply.type \notin Requests
          /\ sessions[j].receiver.final_reply.type = "FIN_ACK" =>
               Delivered(j, DOMAIN disk'.names)
    BY <1>2, DeliveredStays DEF SessionsPromise
  <1>4. /\ DOMAIN sessions' \subseteq DOMAIN sessions
        /\ \A j \in DOMAIN sessions' : sessions'[j].receiver = sessions[j].receiver
    <2>1. CASE sessions' = sessions
      BY <2>1
    <2>2. CASE Sweep
      BY <2>2 DEF Sweep, Without
    <2>3. CASE Tick
      <3>1. /\ DOMAIN sessions' = DOMAIN sessions
            /\ \A j \in DOMAIN sessions : sessions'[j] = Older(sessions[j])
        BY <2>3 DEF Tick
      <3> QED BY <1>1, <3>1, EntryOlder DEF TableOK
    <2>4. CASE Shutdown \/ Crash
      BY <2>4, NoEntries DEF Shutdown, Crash
    <2>5. CASE \/ \E p \in Packets : Refuse(p) \/ Ignore(p)
               \/ Restart \/ UNCHANGED vars
      BY <2>1, <2>5 DEF Refuse, Ignore, Restart, vars
    <2> QED BY <2>2, <2>3, <2>4, <2>5
  <1> QED BY <1>3, <1>4 DEF SessionsPromise
-----------------------------------------------------------------------------
\* The remaining parts of Promises: what is in flight, and what is believed.
Kept(m, paths) ==
  /\ m.type \in Requests => m \in Packets
  /\ m.type = "FIN_ACK" => Delivered(<<m.to, m.session_id>>, paths)
NetPromise(datagrams, paths) == \A m \in datagrams : Kept(m, paths)
ResultsPromise ==
  \A t \in Transfers : sender[t].result = "kNone" =>
    Delivered(<<t.from, t.session_id>>, DOMAIN disk.names)

\* Promises is these three parts, now and after a step.
LEMMA PromisesAre ==
  Promises <=> NetPromise(net, DOMAIN disk.names) /\ SessionsPromise /\ ResultsPromise
  BY DEF Promises, NetPromise, Kept, SessionsPromise, ResultsPromise

\* See PromisesAre.
LEMMA PromisesAreNext ==
  Promises' <=> NetPromise(net', DOMAIN disk'.names) /\ SessionsPromise' /\ ResultsPromise'
  BY DEF Promises, NetPromise, Kept, SessionsPromise, ResultsPromise

\* A datagram means what it meant, while no output name goes away.
LEMMA KeptStays ==
  ASSUME NEW old, NEW new, Outputs(old) \subseteq new
  PROVE  \A m : Kept(m, old) => Kept(m, new)
  <1>1. \A k : Delivered(k, old) => Delivered(k, new)
    BY DeliveredStays
  <1> QED BY <1>1 DEF Kept

\* The server of the system takes a step of Server.tla, or none.
LEMMA ServerWithin ==
  ASSUME Promises, TransferNext
  PROVE  [Next]_vars
  <1>1. ToServer \subseteq Packets
    BY DEF ToServer, Promises, Requests
  <1>2. \/ \E p \in Packets : ServerReceive(p) \/ ServerRefuse(p) \/ Ignore(p)
        \/ Sweep \/ Tick \/ Shutdown \/ Crash \/ Restart
        \/ UNCHANGED vars
    <2>1. CASE Delivery
      BY <1>1, <2>1 DEF Delivery, ServerIgnore, SenderReceive, Unread
    <2>2. CASE \E t \in Transfers : SenderBegin(t) \/ SenderTimeout(t) \/ SenderFailure(t)
      BY <2>2 DEF SenderBegin, SenderTimeout, SenderFailure
    <2>3. CASE \E m \in net : Lose(m)
      BY <2>3 DEF Lose
    <2>4. CASE ServerSweep \/ ServerStop \/ ServerCrash \/ ServerRestart
      BY <2>4 DEF ServerSweep, ServerStop, ServerCrash, ServerRestart
    <2>5. CASE Time
      BY <2>5 DEF Time
    <2> QED BY <2>1, <2>2, <2>3, <2>4, <2>5 DEF TransferNext
  <1> QED BY <1>2 DEF Next, ServerReceive, ServerRefuse, Receive

\* What reaches a client is what the server has sent, or what a client has.
LEMMA NetAfter ==
  ASSUME NEW Units, OwnClients(Units), NEW old, NEW new, NEW t \in Transfers,
         NetPromise(net, old), Outputs(old) \subseteq new,
         net' \subseteq net \cup PacketsOf(t)
  PROVE  NetPromise(net', new)
  <1>1. \A m \in net : Kept(m, new)
    BY KeptStays DEF NetPromise
  <1>2. \A m \in PacketsOf(t) : Kept(m, new)
    <2>1. \A m \in PacketsOf(t) : m \in Packets /\ m.type # "FIN_ACK"
      BY PacketFacts DEF OwnClients, Requests
    <2> QED BY <2>1 DEF Kept
  <1> QED BY <1>1, <1>2 DEF NetPromise

\* A step of a sender keeps the promises, if the FIN_ACK it believes is one.
LEMMA MovesPromise ==
  ASSUME NEW Units, OwnClients(Units), SendersOK, Promises, UNCHANGED vars,
         NEW t \in Transfers, NEW reason, NEW s, Moves(t, s, reason),
         reason => Delivered(<<t.from, t.session_id>>, DOMAIN disk.names)
  PROVE  SendersOK' /\ Promises'
  <1>1. disk' = disk /\ sessions' = sessions
    BY DEF vars
  <1>2. SendersOK'
    BY DEF Moves, SendersOK
  <1>3. NetPromise(net', DOMAIN disk'.names)
    <2>1. NetPromise(net, DOMAIN disk.names) /\ net' \subseteq net \cup PacketsOf(t)
      BY PromisesAre DEF Moves
    <2>2. Outputs(DOMAIN disk.names) \subseteq DOMAIN disk'.names
      BY <1>1 DEF Outputs
    <2> QED BY <2>1, <2>2, NetAfter
  <1>4. SessionsPromise'
    BY <1>1, PromisesAre DEF SessionsPromise
  <1>5. ResultsPromise'
    BY <1>1, PromisesAre DEF ResultsPromise, Moves
  <1> QED BY <1>2, <1>3, <1>4, <1>5, PromisesAreNext

\* The senders keep the system in order.
LEMMA SendersStep ==
  ASSUME NEW Units, OwnClients(Units), SendersOK, Promises, NEW t \in Transfers,
         \/ SenderBegin(t) \/ SenderTimeout(t) \/ SenderFailure(t)
         \/ \E m \in ToClient(t) : SenderReceive(t, m)
  PROVE  SendersOK' /\ Promises'
  <1>1. CASE SenderBegin(t) \/ SenderTimeout(t) \/ SenderFailure(t)
    <2>1. /\ Begin(t) \/ ControlTimeout(t) \/ DataTimeout(t) \/ LocalFailure(t)
          /\ UNCHANGED vars
      BY <1>1 DEF SenderBegin, SenderTimeout, SenderFailure
    <2>2. PICK s : Moves(t, s, FALSE)
      BY <2>1, OwnMoves DEF OwnClients
    <2> QED BY <2>1, <2>2, MovesPromise
  <1>2. CASE \E m \in ToClient(t) : SenderReceive(t, m)
    <2>1. PICK m \in net :
            /\ m.to = t.from
            /\ \/ ControlError(t, m) \/ ControlReply(t, m) \/ ControlIgnored(t, m)
               \/ DataReceive(t, m)
            /\ UNCHANGED vars
      BY <1>2 DEF SenderReceive, ToClient
    <2> DEFINE own == m.type = "FIN_ACK" /\ m.session_id = t.session_id
    <2>2. PICK s : Moves(t, s, own)
      BY <2>1, ReceiveMoves DEF OwnClients
    <2>3. own => Delivered(<<t.from, t.session_id>>, DOMAIN disk.names)
      BY <2>1 DEF Promises
    <2> HIDE DEF own
    <2> QED BY <2>1, <2>2, <2>3, MovesPromise
  <1> QED BY <1>1, <1>2

\* The server keeps the system in order: its FIN_ACKs are true.
LEMMA ServerStep ==
  ASSUME NEW Units, OwnClients(Units), TInv(Units), NEW p \in Packets,
         ServerReceive(p) \/ ServerRefuse(p), [Next]_vars
  PROVE  SendersOK' /\ Promises'
  <1> DEFINE paths == DOMAIN disk'.names
  <1>0. IInv /\ FInv(Units) /\ SendersOK
        /\ NetPromise(net, DOMAIN disk.names) /\ SessionsPromise /\ ResultsPromise
    BY PromisesAre DEF TInv
  <1>1. Outputs(DOMAIN disk.names) \subseteq paths
    BY <1>0, OutputsStay DEF IInv
  <1>2. sender' = sender
    BY DEF ServerReceive, ServerRefuse
  <1>3. SendersOK' /\ ResultsPromise'
    <2>1. SendersOK'
      BY <1>0, <1>2 DEF SendersOK
    <2>2. \A t \in Transfers : sender[t].result = "kNone" =>
            Delivered(<<t.from, t.session_id>>, paths)
      BY <1>0, <1>1, DeliveredStays DEF ResultsPromise
    <2> QED BY <1>2, <2>1, <2>2 DEF ResultsPromise
  <1>4. \A m \in net : Kept(m, paths)
    BY <1>0, <1>1, KeptStays DEF NetPromise
  <1>5. \A reply : /\ Reply(p, reply).type = reply.type
                   /\ <<Reply(p, reply).to, Reply(p, reply).session_id>> = Key(p)
    BY DEF Reply, Key
  <1>6. Taken(p) \subseteq net
    BY DEF Taken
  <1>7. CASE ServerReceive(p)
    <2>1. PICK out \in Outcomes(p) :
            /\ HandleKnown(p, out) \/ HandleNew(p, out)
            /\ net' = Taken(p) \cup (IF out.reply = NoReply THEN {}
                                     ELSE {Reply(p, out.reply)})
      BY <1>7 DEF ServerReceive
    <2>2. /\ SessionsPromise'
          /\ out.reply.type \notin Requests
          /\ out.reply.type = "FIN_ACK" => Delivered(Key(p), paths)
      BY <1>0, <2>1, ReceivePromises
    <2>3. net' \subseteq net \cup {Reply(p, out.reply)}
      BY <1>6, <2>1
    <2>4. Kept(Reply(p, out.reply), paths)
      BY <1>5, <2>2 DEF Kept
    <2>5. NetPromise(net', paths)
      BY <1>4, <2>3, <2>4 DEF NetPromise
    <2> QED BY <1>3, <2>2, <2>5, PromisesAreNext
  <1>8. CASE ServerRefuse(p)
    <2> DEFINE r == ErrorReply("kServerBusy", p.sequence)
    <2>1. Refuse(p) /\ net' = Taken(p) \cup {Reply(p, r)}
      BY <1>8 DEF ServerRefuse
    <2>2. r.type = "ERROR"
      BY DEF ErrorReply
    <2> HIDE DEF r
    <2>3. NetPromise(net', paths)
      <3>1. Kept(Reply(p, r), paths)
        BY <1>5, <2>2 DEF Kept, Requests
      <3> QED BY <1>4, <1>6, <2>1, <3>1 DEF NetPromise
    <2>4. SessionsPromise'
      BY <1>0, <2>1, QuietPromises
    <2> QED BY <1>3, <2>3, <2>4, PromisesAreNext
  <1> QED BY <1>7, <1>8

\* A step that is the server's alone, the network's or the clock's.
LEMMA QuietStep ==
  ASSUME NEW Units, OwnClients(Units), TInv(Units), [Next]_vars,
         net' \subseteq net,
         sender' = sender \/ sender' = [t \in Transfers |-> Aged(sender[t])],
         \/ \E p \in Packets : Refuse(p) \/ Ignore(p)
         \/ Sweep \/ Tick \/ Shutdown \/ Crash \/ Restart
         \/ UNCHANGED vars
  PROVE  SendersOK' /\ Promises'
  <1> DEFINE paths == DOMAIN disk'.names
  <1>0. IInv /\ SendersOK
        /\ NetPromise(net, DOMAIN disk.names) /\ SessionsPromise /\ ResultsPromise
    BY PromisesAre DEF TInv
  <1>1. Outputs(DOMAIN disk.names) \subseteq paths
    BY <1>0, OutputsStay DEF IInv
  <1>2. NetPromise(net', paths)
    BY <1>0, <1>1, KeptStays DEF NetPromise
  <1>3. SessionsPromise'
    BY <1>0, QuietPromises
  <1>4. /\ DOMAIN sender' = Transfers
        /\ \A t \in Transfers : /\ SenderOK(t, sender'[t])
                                /\ sender'[t].result = sender[t].result
    BY <1>0, AgedOK, ZenonT(60) DEF SendersOK
  <1>5. SendersOK'
    BY <1>4 DEF SendersOK
  <1>6. ResultsPromise'
    <2>1. \A t \in Transfers : sender[t].result = "kNone" =>
            Delivered(<<t.from, t.session_id>>, paths)
      BY <1>0, <1>1, DeliveredStays DEF ResultsPromise
    <2> QED BY <1>4, <2>1 DEF ResultsPromise
  <1> QED BY <1>2, <1>3, <1>5, <1>6, PromisesAreNext

\* Every step of the system keeps its invariant.
LEMMA TransferStep ==
  ASSUME NEW Units, OwnClients(Units), TInv(Units), [TransferNext]_system
  PROVE  TInv(Units)'
  <1>0. IInv /\ FInv(Units) /\ SendersOK /\ Promises
    BY DEF TInv
  <1>1. CASE TransferNext
    <2>1. [Next]_vars
      BY <1>0, <1>1, ServerWithin
    <2>2. IInv' /\ FInv(Units)'
      <3>1. Honest(Units) /\ TableOK
        BY <1>0, OwnHonest DEF IInv
      <3> QED BY <1>0, <2>1, <3>1, NextInv, FilesStep
    <2>3. ToServer \subseteq Packets
      BY <1>0 DEF ToServer, Promises, Requests
    <2>4. \A m : Taken(m) \subseteq net
      BY DEF Taken
    <2>5. SendersOK' /\ Promises'
      <3>1. CASE \E p \in ToServer : ServerReceive(p) \/ ServerRefuse(p)
        BY <2>1, <2>3, <3>1, ServerStep
      <3>2. CASE \E t \in Transfers : SenderBegin(t) \/ SenderTimeout(t) \/ SenderFailure(t)
        BY <1>0, <3>2, SendersStep
      <3>3. CASE \E t \in Transfers : \E m \in ToClient(t) : SenderReceive(t, m)
        BY <1>0, <3>3, SendersStep
      <3>4. CASE \/ \E p \in ToServer : ServerIgnore(p)
                 \/ \E t \in Transfers : \E m \in ToClient(t) : Unread(t, m)
                 \/ \E m \in net : Lose(m)
                 \/ ServerSweep \/ ServerStop \/ ServerCrash \/ ServerRestart
                 \/ Time
        <4>1. /\ net' \subseteq net
              /\ sender' = sender \/ sender' = [t \in Transfers |-> Aged(sender[t])]
              /\ \/ \E p \in Packets : Refuse(p) \/ Ignore(p)
                 \/ Sweep \/ Tick \/ Shutdown \/ Crash \/ Restart
                 \/ UNCHANGED vars
          <5>1. CASE \E p \in ToServer : ServerIgnore(p)
            BY <2>3, <2>4, <5>1 DEF ServerIgnore
          <5>2. CASE \E t \in Transfers : \E m \in ToClient(t) : Unread(t, m)
            BY <2>4, <5>2 DEF Unread
          <5>3. CASE \E m \in net : Lose(m)
            BY <5>3 DEF Lose
          <5>4. CASE ServerSweep \/ ServerStop \/ ServerCrash \/ ServerRestart
            BY <5>4 DEF ServerSweep, ServerStop, ServerCrash, ServerRestart
          <5>5. CASE Time
            BY <5>5 DEF Time
          <5> QED BY <3>4, <5>1, <5>2, <5>3, <5>4, <5>5
        <4> QED BY <2>1, <4>1, QuietStep
      <3> QED BY <1>1, <3>1, <3>2, <3>3, <3>4 DEF TransferNext, Delivery
    <2> QED BY <2>2, <2>5 DEF TInv
  <1>2. CASE UNCHANGED system
    <2>1. UNCHANGED vars /\ net' = net /\ sender' = sender
      BY <1>2 DEF system
    <2>2. [Next]_vars
      BY <2>1
    <2>3. Honest(Units) /\ TableOK
      BY <1>0, OwnHonest DEF IInv
    <2>4. IInv' /\ FInv(Units)'
      BY <1>0, <2>2, <2>3, NextInv, FilesStep
    <2>5. SendersOK' /\ Promises'
      BY <2>1, <2>2, QuietStep
    <2> QED BY <2>4, <2>5 DEF TInv
  <1> QED BY <1>1, <1>2
-----------------------------------------------------------------------------
\* The inductive invariant of the system of clients, network and server: their
\* windows, the files they filled and the promises between them stay in order
\* whatever is lost, repeated, delayed, killed or restarted.
THEOREM SystemInOrder ==
  ASSUME NEW Units, OwnClients(Units)
  PROVE  TransferSpec => []TInv(Units)
  <1>1. TransferInit => TInv(Units)
    <2> SUFFICES ASSUME TransferInit PROVE TInv(Units)
      OBVIOUS
    <2>1. Init /\ sender = [t \in Transfers |-> Idle] /\ net = {}
      BY DEF TransferInit, SenderInit
    <2>2. IInv
      BY <2>1, InitInv
    <2>3. FInv(Units)
      BY <2>1, InitFiles
    <2>4. \A t \in Transfers : SenderOK(t, Idle)
      <3> SUFFICES ASSUME NEW t \in Transfers PROVE SenderOK(t, Idle)
        OBVIOUS
      <3>1. /\ Idle = [m \in SenderParts |-> Idle[m]] /\ Idle.phase = "idle"
            /\ Idle.result = "none" /\ Idle.attempt = 0 /\ Idle.waited = 0
            /\ Idle.next = 0 /\ Idle.in_flight = <<>>
        BY DEF Idle, SenderParts
      <3>2. 0 \in 0 .. MaxRetries /\ 0 \in 0 .. Rto /\ 0 \in 0 .. Total(t)
        BY TotalNat, SenderAssumption DEF OwnClients
      <3>3. WindowOK(t, Idle)
        BY <3>1, <3>2, NoEntries DEF WindowOK
      <3> QED BY <3>1, <3>3 DEF SenderOK
    <2>5. SendersOK
      BY <2>1, <2>4 DEF SendersOK
    <2>6. Promises
      <3>1. DOMAIN sessions = {}
        BY <2>1, NoEntries DEF Init
      <3>2. Idle.result # "kNone"
        BY DEF Idle
      <3> QED BY <2>1, <3>1, <3>2 DEF Promises
    <2> QED BY <2>2, <2>3, <2>5, <2>6 DEF TInv
  <1>2. TInv(Units) /\ [TransferNext]_system => TInv(Units)'
    BY TransferStep
  <1> QED BY <1>1, <1>2, PTL DEF TransferSpec

\* Within the system, with real senders and a real network, the server does what
\* Server.tla says of it: all that is proved there holds here.
THEOREM ServerIsServer ==
  ASSUME NEW Units, OwnClients(Units)
  PROVE  TransferSpec => Init /\ [][Next]_vars
  <1>1. TransferInit => Init
    BY DEF TransferInit
  <1>2. TInv(Units) /\ [TransferNext]_system => [Next]_vars
    <2>1. CASE TransferNext
      BY <2>1, ServerWithin DEF TInv
    <2>2. CASE UNCHANGED system
      BY <2>2 DEF system
    <2> QED BY <2>1, <2>2
  <1> QED BY <1>1, <1>2, SystemInOrder, PTL DEF TransferSpec

\* Every send_file is within its retry budget, its window and its file, and only
\* chunks, STARTs and FINs of the transfers reach the server.
THEOREM SendersInOrder ==
  ASSUME NEW Units, OwnClients(Units)
  PROVE  TransferSpec => []SenderTypeOK
  <1>1. TInv(Units) => SenderTypeOK
    <2> SUFFICES ASSUME TInv(Units) PROVE SenderTypeOK
      OBVIOUS
    <2>1. SendersOK /\ Promises
      BY DEF TInv
    <2>2. ASSUME NEW t \in Transfers
          PROVE  /\ sender[t].phase \in {"idle", "start", "data", "fin", "done"}
                 /\ sender[t].phase = "done" <=> sender[t].result # "none"
                 /\ sender[t].attempt \in 0 .. MaxRetries /\ sender[t].waited \in 0 .. Rto
                 /\ sender[t].next \in 0 .. Total(t)
                 /\ DOMAIN sender[t].in_flight \subseteq
                      Oldest(sender[t]) .. Oldest(sender[t]) + WindowCapacity - 1
                 /\ sender[t].phase = "data" => sender[t].in_flight # <<>>
      <3> DEFINE s == sender[t]
                 o == Oldest(s)
      <3>1. SenderOK(t, s) /\ WindowOK(t, s)
        BY <2>1 DEF SendersOK, SenderOK
      <3>2. /\ o \in Nat
            /\ \A q \in DOMAIN s.in_flight : q \in Nat /\ o <= q /\ q < o + WindowCapacity
        BY <3>1, TotalNat, OldestIs DEF OwnClients
      <3>3. DOMAIN s.in_flight \subseteq o .. o + WindowCapacity - 1
        <4> HIDE DEF o
        <4> QED BY <3>2, SenderAssumption
      <3>4. s.phase = "data" => s.in_flight # <<>>
        BY <3>1, NoEntries DEF SenderOK
      <3> QED BY <3>1, <3>3, <3>4 DEF SenderOK, WindowOK
    <2>3. ToServer \subseteq UNION {PacketsOf(t) : t \in Transfers}
      BY <2>1 DEF ToServer, Promises, Requests, OwnClients
    <2> QED BY <2>2, <2>3 DEF SenderTypeOK
  <1> QED BY <1>1, SystemInOrder, PTL

\* When send_file reports success the file is in the output directory, whole and
\* under its name, whatever the network did and whatever became of the server.
THEOREM SuccessIsDelivery ==
  ASSUME NEW Units, OwnClients(Units)
  PROVE  TransferSpec => []SuccessMeansDelivered
  <1>1. TInv(Units) => SuccessMeansDelivered
    <2> SUFFICES ASSUME TInv(Units), NEW t \in Transfers, sender[t].result = "kNone"
                 PROVE  /\ Exists(disk, OutputOf(t))
                        /\ \E u \in Transfers :
                             /\ IsSafe(u.name) /\ OutputOf(u) = OutputOf(t)
                             /\ Contents(disk, OutputOf(t)) = u.contents
      BY DEF SuccessMeansDelivered
    <2>1. FInv(Units) /\ Promises
      BY DEF TInv
    <2>2. Delivered(<<t.from, t.session_id>>, DOMAIN disk.names)
      BY <2>1 DEF Promises
    <2>3. OutputOf(t) \in Outputs(DOMAIN disk.names)
      BY <2>2, OneTransfer DEF Delivered
    <2>4. OutputOf(t) \in DOMAIN disk.names
      BY <2>3 DEF Outputs
    <2>5. PICK p, q \in Packets :
            /\ p.type = "START" /\ q.type = "FIN" /\ Key(p) = Key(q)
            /\ IsSafe(p.payload) /\ OutputPath(sanitize_filename(p.payload)) = OutputOf(t)
            /\ Contents(disk, OutputOf(t)) = q.payload
      BY <2>1, <2>3 DEF FInv, Verified
    <2>6. PICK u \in Transfers, v \in Transfers : p \in PacketsOf(u) /\ q \in PacketsOf(v)
      BY DEF OwnClients
    <2>7. /\ Key(p) = <<u.from, u.session_id>> /\ p.payload = u.name
          /\ Key(q) = <<v.from, v.session_id>> /\ q.payload = v.contents
      BY <2>5, <2>6, PacketFacts DEF Key
    <2>8. u = v
      BY <2>5, <2>7, OneTransfer
    <2> QED BY <2>4, <2>5, <2>7, <2>8 DEF Exists, OutputOf
  <1> QED BY <1>1, SystemInOrder, PTL

-----------------------------------------------------------------------------
(***************************************************************************)
(* Somebody is home                                                        *)
(*                                                                         *)
(* On a timely network the server outlives every retry budget.  The        *)
(* invariant weighs the age of a session against what its sender has       *)
(* waited since that session last showed a sign of life: an ACK in the     *)
(* network means age zero, whatever the sender has in flight has been      *)
(* waited for at least as long as the session is old, and nobody waits     *)
(* longer than max_retries times the timeout.                              *)
(***************************************************************************)

\* The key of a transfer's session.
Home(t) == <<t.from, t.session_id>>

\* The replies that let a sender go on.
Grants == {"START_ACK", "ACK"}

\* The ticks of a timeouts that ran out, and of the one that is running.
Spent(a, w) == a * Rto + w
Budget == Spent(MaxRetries, 0)

\* The network is timely, the server is not killed, lingers and waits as long as a
\* sender may retry and has room for all transfers, each on a port of its own.
Outlasted ==
  /\ Timely /\ MaxStarts = 1 /\ MaxRetries # 0
  /\ Budget <= IdleTimeout /\ Budget <= Linger
  /\ IsFiniteSet(Transfers) /\ Cardinality(Transfers) <= MaxSessions * 2
  /\ \A t, u \in Transfers : t.from = u.from => t = u

\* The session has stored what the sender takes as delivered.
Stored(s, e) == (0 .. s.next - 1) \ DOMAIN s.in_flight \subseteq e.receiver.stored

\* Every packet in flight has been out for as long as the session is old.
Prompt(s, e) ==
  \A q \in DOMAIN s.in_flight :
    /\ s.in_flight[q] \in [age : 0 .. Rto, attempts : 1 .. MaxRetries]
    /\ e.age <= Spent(s.in_flight[q].attempts - 1, s.in_flight[q].age)

\* A sender past its handshake has a session, until its last timeout has run out.
AtHome(t, s, table) ==
  /\ s.phase = "data" =>
       /\ Home(t) \in DOMAIN table
       /\ Stored(s, table[Home(t)]) /\ Prompt(s, table[Home(t)])
       /\ Fillable(t, s) = {}
  /\ s.phase = "fin" /\ Spent(s.attempt, s.waited) <= Budget =>
       /\ Home(t) \in DOMAIN table
       /\ Stored(s, table[Home(t)])
       /\ table[Home(t)].age <= Spent(s.attempt, s.waited)

\* A DATA or FIN of t may be under way.
Reachable(t, s, table) ==
  /\ Home(t) \in DOMAIN table /\ table[Home(t)].age <= Budget
  /\ s.phase = "fin" => s.waited = 0

\* The session that granted m has done so in this very tick.
Granted(m, table) ==
  /\ <<m.to, m.session_id>> \in DOMAIN table
  /\ table[<<m.to, m.session_id>>].age = 0
  /\ m.type = "ACK" =>
       m.sequence \in table[<<m.to, m.session_id>>].receiver.stored

Unsent(s) == s.phase \in {"idle", "start"} => s.next = 0 /\ DOMAIN s.in_flight = {}

\* What the senders, the requests and the grants under way say of the table.
Attended(table) ==
  /\ \A t \in Transfers : AtHome(t, sender[t], table)
  /\ \A p \in net : p.type \in {"DATA", "FIN"} =>
       \A t \in Transfers : Key(p) = Home(t) => Reachable(t, sender[t], table)
  /\ \A m \in net : m.type \in Grants => Granted(m, table)

\* The inductive invariant, beside TInv.
HInv ==
  /\ \A k \in DOMAIN sessions : sessions[k].receiver.final_reply.type \notin Grants
  /\ \A t \in Transfers : Unsent(sender[t])
  /\ running => Attended(sessions)

\* How time adds up.
LEMMA TimeSpent ==
  ASSUME NEW a \in Nat, NEW w \in Nat
  PROVE  /\ Spent(a, w) \in Nat /\ Budget \in Nat
         /\ Spent(a, w + 1) = Spent(a, w) + 1
         /\ Spent(a, Rto) = Spent(a + 1, 0)
         /\ a <= MaxRetries => Spent(a, 0) <= Budget
         /\ a + 1 <= MaxRetries /\ w <= Rto => Spent(a, w) <= Budget
         /\ Spent(0, 0) = 0
  <1>1. Rto \in Nat /\ MaxRetries \in Nat
    BY SenderAssumption
  <1>2. a * Rto \in Nat /\ MaxRetries * Rto \in Nat
    BY <1>1
  <1>3. (a + 1) * Rto = a * Rto + Rto
    BY <1>1
  <1>4. \A b \in Nat : b <= MaxRetries => b * Rto <= MaxRetries * Rto
    <2> SUFFICES ASSUME NEW b \in Nat, b <= MaxRetries
                 PROVE  b * Rto <= MaxRetries * Rto
      OBVIOUS
    <2>1. PICK c \in Nat : MaxRetries = b + c
      <3>1. MaxRetries - b \in Nat /\ MaxRetries = b + (MaxRetries - b)
        BY <1>1
      <3> QED BY <3>1
    <2>2. MaxRetries * Rto = b * Rto + c * Rto /\ c * Rto \in Nat /\ b * Rto \in Nat
      BY <1>1, <2>1
    <2> QED BY <2>2
  <1>5. a + 1 <= MaxRetries => (a + 1) * Rto <= MaxRetries * Rto
    BY <1>4
  <1>6. a <= MaxRetries => a * Rto <= MaxRetries * Rto
    BY <1>4
  <1>7. 0 * Rto = 0
    BY <1>1
  <1>8. /\ Spent(a, w) = a * Rto + w /\ Spent(a, w + 1) = a * Rto + (w + 1)
        /\ Spent(a, Rto) = a * Rto + Rto /\ Spent(a + 1, 0) = (a + 1) * Rto + 0
        /\ Budget = MaxRetries * Rto + 0 /\ Spent(a, 0) = a * Rto + 0
        /\ Spent(0, 0) = 0 * Rto + 0
    BY DEF Spent, Budget
  <1> DEFINE x == a * Rto
             y == (a + 1) * Rto
             z == MaxRetries * Rto
  <1> HIDE DEF x, y, z
  <1>9. /\ x \in Nat /\ z \in Nat /\ y = x + Rto
        /\ a + 1 <= MaxRetries => y <= z
        /\ a <= MaxRetries => x <= z
        /\ Spent(a, w) = x + w /\ Spent(a, w + 1) = x + (w + 1)
        /\ Spent(a, Rto) = x + Rto /\ Spent(a + 1, 0) = y + 0
        /\ Budget = z + 0 /\ Spent(a, 0) = x + 0
    BY <1>2, <1>3, <1>5, <1>6, <1>8 DEF x, y, z
  <1>10. /\ Spent(a, w) \in Nat /\ Budget \in Nat
         /\ Spent(a, w + 1) = Spent(a, w) + 1
         /\ Spent(a, Rto) = Spent(a + 1, 0)
    BY <1>1, <1>9
  <1>11. a <= MaxRetries => Spent(a, 0) <= Budget
    BY <1>9
  <1>12. a + 1 <= MaxRetries /\ w <= Rto => Spent(a, w) <= Budget
    BY <1>1, <1>9
  <1> QED BY <1>7, <1>8, <1>10, <1>11, <1>12

\* There is room for every transfer, so that no session is evicted.
LEMMA RoomForAll ==
  ASSUME NEW Units, OwnClients(Units), Outlasted, TInv(Units),
         NEW p \in Packets, Key(p) \notin DOMAIN sessions
  PROVE  Evicted = {}
  <1> DEFINE f == [t \in Transfers |-> Home(t)]
             keys == {Home(t) : t \in Transfers}
  <1>1. f \in Surjection(Transfers, keys)
    BY DEF Surjection
  <1>2. IsFiniteSet(Transfers) /\ Cardinality(Transfers) <= MaxSessions * 2
    BY DEF Outlasted
  <1> HIDE DEF f, keys
  <1>3. IsFiniteSet(keys) /\ Cardinality(keys) <= Cardinality(Transfers)
    BY <1>1, <1>2, FS_Surjection
  <1>4. \A q \in Packets : Key(q) \in keys
    <2> SUFFICES ASSUME NEW q \in Packets PROVE Key(q) \in keys
      OBVIOUS
    <2>1. PICK t \in Transfers : q \in PacketsOf(t)
      BY DEF OwnClients
    <2> QED BY <2>1, PacketFacts DEF Key, Home, keys
  <1>5. DOMAIN sessions \in SUBSET keys
    BY <1>4 DEF TInv, FInv, EntryHolds
  <1>6. Cardinality(DOMAIN sessions) <= Cardinality(keys)
        /\ Cardinality(keys) # Cardinality(DOMAIN sessions)
    BY <1>3, <1>4, <1>5, FS_Subset
  <1>7. IsFiniteSet(DOMAIN sessions)
    BY DEF TInv, IInv
  <1>8. /\ Cardinality(DOMAIN sessions) \in Nat /\ Cardinality(keys) \in Nat
        /\ Cardinality(Transfers) \in Nat /\ MaxSessions * 2 \in Nat
    BY <1>2, <1>3, <1>7, FS_CardinalityType, ServerAssumption
  <1>9. ~ (Cardinality(DOMAIN sessions) >= MaxSessions * 2)
    BY <1>2, <1>3, <1>6, <1>8
  <1> QED BY <1>9 DEF Evicted


\* What filling the window does: it leaves no room, and retires nothing.
Filled(t, s, x) ==
  IF Oldest(s) >= Total(t)
  THEN /\ x.phase = "fin" /\ x.attempt = 0 /\ x.waited = 0
       /\ x.next = s.next /\ x.in_flight = s.in_flight
  ELSE /\ x.phase = "data"
       /\ DOMAIN x.in_flight = DOMAIN s.in_flight \cup Fillable(t, s)
       /\ \A q \in Fillable(t, s) : x.in_flight[q] = [age |-> 0, attempts |-> 1]
       /\ \A q \in DOMAIN s.in_flight \ Fillable(t, s) : x.in_flight[q] = s.in_flight[q]
       /\ (0 .. x.next - 1) \ DOMAIN x.in_flight
            \subseteq (0 .. s.next - 1) \ DOMAIN s.in_flight
       /\ Fillable(t, x) = {}

\* The top of the DATA loop fills the window.
LEMMA ProceedFills ==
  ASSUME NEW t, NEW s, WindowOK(t, s), Total(t) \in Nat, s.result = "none"
  PROVE  Filled(t, s, Proceed(t, s))
  <1> DEFINE D == DOMAIN s.in_flight
             o == Oldest(s)
             more == Fillable(t, s)
             c == Cardinality(more)
             flight == [q \in D \cup more |-> IF q \in more
                          THEN [age |-> 0, attempts |-> 1] ELSE s.in_flight[q]]
             done == [s EXCEPT !.phase = "fin", !.attempt = 0, !.waited = 0]
             sent == [s EXCEPT !.phase = "data", !.next = @ + c, !.in_flight = flight]
  <1>1. /\ s.next \in Nat /\ o \in Nat /\ o <= s.next
        /\ D = {} => o = s.next
        /\ D # {} => o \in D
        /\ \A q \in D : q \in Nat /\ o <= q
    BY OldestIs
  <1>2. WindowCapacity \in Nat \ {0}
    BY SenderAssumption
  <1>3. Proceed(t, s) = IF o >= Total(t) THEN done ELSE sent
    BY DEF Proceed
  <1>4. CASE o >= Total(t)
    <2>1. /\ done.phase = "fin" /\ done.attempt = 0 /\ done.waited = 0
          /\ done.next = s.next /\ done.in_flight = s.in_flight
      BY DEF WindowOK, SenderParts
    <2> HIDE DEF done
    <2> QED BY <1>3, <1>4, <2>1 DEF Filled
  <1>5. CASE ~ (o >= Total(t))
    <2> DEFINE limit == IF o + WindowCapacity < Total(t) THEN o + WindowCapacity
                                                         ELSE Total(t)
    <2>1. more = s.next .. limit - 1
      BY <1>1, <1>2 DEF Fillable
    <2>2. limit \in Nat /\ o < limit
      BY <1>1, <1>2, <1>5
    <2>3. \A q \in Nat : q < Total(t) /\ q < o + WindowCapacity => q < limit
      BY <1>1, <1>2
    <2> HIDE DEF limit, more
    <2>4. c \in Nat /\ s.next + c = IF s.next > limit - 1 THEN s.next ELSE limit
      <3> DEFINE last == limit - 1
      <3>1. s.next \in Int /\ last \in Int
        BY <1>1, <2>2
      <3> HIDE DEF last
      <3>2. Cardinality(s.next .. last) =
              IF s.next > last THEN 0 ELSE last - s.next + 1
        BY <3>1, FS_Interval
      <3>3. c = IF s.next > limit - 1 THEN 0 ELSE (limit - 1) - s.next + 1
        BY <2>1, <3>2 DEF last
      <3> QED BY <1>1, <2>2, <3>3
    <2>5. o \in D \cup more
      BY <1>1, <2>1, <2>2
    <2> HIDE DEF D
    <2>6. /\ DOMAIN flight = D \cup more
          /\ \A q \in more : flight[q] = [age |-> 0, attempts |-> 1]
          /\ \A q \in D \ more : flight[q] = s.in_flight[q]
      OBVIOUS
    <2> HIDE DEF flight, c
    <2>7. /\ sent.phase = "data" /\ sent.next = s.next + c /\ sent.in_flight = flight
      BY DEF WindowOK, SenderParts
    <2> HIDE DEF sent
    <2>8. (0 .. sent.next - 1) \ DOMAIN sent.in_flight \subseteq (0 .. s.next - 1) \ D
      BY <1>1, <2>1, <2>2, <2>4, <2>6, <2>7
    <2>9. WindowOK(t, sent)
      BY <1>3, <1>5, ProceedOK DEF SenderOK
    <2>10. sent.next \in Nat /\ Oldest(sent) \in Nat /\ Oldest(sent) <= o
      BY <2>5, <2>6, <2>7, <2>9, OldestIs
    <2>11. limit <= sent.next
      BY <1>1, <2>2, <2>4, <2>7
    <2>12. Fillable(t, sent) = {}
      <3>1. ASSUME NEW q \in Fillable(t, sent) PROVE FALSE
        <4>1. q \in sent.next .. Total(t) - 1 /\ q < Oldest(sent) + WindowCapacity
          BY DEF Fillable
        <4>2. q \in Nat /\ sent.next <= q /\ q < Total(t)
          BY <2>10, <4>1
        <4>3. q < o + WindowCapacity
          BY <1>1, <1>2, <2>10, <4>1, <4>2
        <4> QED BY <2>2, <2>3, <2>10, <2>11, <4>2, <4>3
      <3> QED BY <3>1
    <2> QED BY <1>3, <1>5, <2>6, <2>7, <2>8, <2>12 DEF Filled, D, more
  <1> QED BY <1>4, <1>5


\* How a step leaves a sender that has someone at the other end.
Continues(t, x, table) ==
  /\ AtHome(t, x, table) /\ Unsent(x)
  /\ x.phase = "fin" => x.waited = 0

\* The window is filled, and the FIN sent, only when the session has just been heard.
LEMMA ProceedHome ==
  ASSUME Outlasted, NEW t, NEW s, WindowOK(t, s), Total(t) \in Nat, s.result = "none",
         NEW table, Home(t) \in DOMAIN table, table[Home(t)].age \in Nat,
         Stored(s, table[Home(t)]), Prompt(s, table[Home(t)]),
         \/ table[Home(t)].age = 0
         \/ Fillable(t, s) = {} /\ Oldest(s) < Total(t)
  PROVE  /\ Continues(t, Proceed(t, s), table)
         /\ Emitted(t, s) # {} => table[Home(t)].age = 0
  <1> DEFINE x == Proceed(t, s)
             e == table[Home(t)]
             more == Fillable(t, s)
  <1>1. Filled(t, s, x)
    BY ProceedFills
  <1>2. Oldest(s) \in Nat
    BY OldestIs
  <1>3. MaxRetries \in Nat /\ 1 \in 1 .. MaxRetries /\ 0 \in 0 .. Rto
    BY SenderAssumption DEF Outlasted
  <1>4. Spent(0, 0) = 0 /\ Budget \in Nat
    BY TimeSpent
  <1> HIDE DEF x, e, more
  <1>5. CASE Oldest(s) >= Total(t)
    <2>1. /\ x.phase = "fin" /\ x.attempt = 0 /\ x.waited = 0
          /\ x.next = s.next /\ x.in_flight = s.in_flight
      BY <1>1, <1>5 DEF Filled
    <2>2. e.age = 0
      BY <1>2, <1>5 DEF e
    <2>3. Stored(x, e) /\ e.age <= Spent(x.attempt, x.waited)
      BY <1>4, <2>1, <2>2 DEF Stored, e
    <2> QED BY <2>1, <2>2, <2>3 DEF Continues, AtHome, Unsent, e, x
  <1>6. CASE ~ (Oldest(s) >= Total(t))
    <2>1. /\ x.phase = "data"
          /\ DOMAIN x.in_flight = DOMAIN s.in_flight \cup more
          /\ \A q \in more : x.in_flight[q] = [age |-> 0, attempts |-> 1]
          /\ \A q \in DOMAIN s.in_flight \ more : x.in_flight[q] = s.in_flight[q]
          /\ (0 .. x.next - 1) \ DOMAIN x.in_flight
               \subseteq (0 .. s.next - 1) \ DOMAIN s.in_flight
          /\ Fillable(t, x) = {}
      BY <1>1, <1>6 DEF Filled, more
    <2>2. Stored(x, e)
      BY <2>1 DEF Stored, e
    <2>3. more # {} => e.age = 0
      BY DEF e, more
    <2>4. Prompt(x, e)
      <3> SUFFICES ASSUME NEW q \in DOMAIN x.in_flight
                   PROVE  /\ x.in_flight[q] \in [age : 0 .. Rto, attempts : 1 .. MaxRetries]
                          /\ e.age <= Spent(x.in_flight[q].attempts - 1, x.in_flight[q].age)
        BY DEF Prompt
      <3>1. CASE q \in more
        <4>1. x.in_flight[q] = [age |-> 0, attempts |-> 1]
          BY <2>1, <3>1
        <4>2. e.age <= Spent(1 - 1, 0)
          BY <1>4, <2>3, <3>1
        <4> QED BY <1>3, <4>1, <4>2
      <3>2. CASE q \notin more
        <4>1. q \in DOMAIN s.in_flight /\ x.in_flight[q] = s.in_flight[q]
          BY <2>1, <3>2
        <4> QED BY <4>1 DEF Prompt, e
      <3> QED BY <3>1, <3>2
    <2>5. Emitted(t, s) # {} => e.age = 0
      BY <1>6, <2>3 DEF Emitted, more
    <2> QED BY <2>1, <2>2, <2>4, <2>5 DEF Continues, AtHome, Unsent, e, x
  <1> QED BY <1>5, <1>6

\* A session that a packet in flight is waiting for is within the budget.
LEMMA PromptBudget ==
  ASSUME NEW s, NEW e, Prompt(s, e), e.age \in Nat, DOMAIN s.in_flight # {}
  PROVE  e.age <= Budget
  <1>1. PICK q \in DOMAIN s.in_flight : TRUE
    OBVIOUS
  <1> DEFINE a == s.in_flight[q].attempts - 1
             w == s.in_flight[q].age
  <1>2. a \in Nat /\ w \in Nat /\ a + 1 <= MaxRetries /\ w <= Rto /\ e.age <= Spent(a, w)
    BY SenderAssumption DEF Prompt
  <1> HIDE DEF a, w
  <1>3. Spent(a, w) \in Nat /\ Spent(a, w) <= Budget /\ Budget \in Nat
    BY <1>2, TimeSpent
  <1> QED BY <1>2, <1>3

\* A sender that has ended waits for nobody.
LEMMA FinishHome ==
  ASSUME NEW t, NEW s, WindowOK(t, s), NEW result, NEW table
  PROVE  Continues(t, Finish(s, result), table)
  <1>1. Finish(s, result).phase = "done"
    BY DEF Finish, WindowOK, SenderParts
  <1> QED BY <1>1 DEF Continues, AtHome, Unsent

\* What t sends in a step, and to whom.
SendsHome(t, x, left, table) ==
  /\ Becomes(t, x) /\ Continues(t, x, table)
  /\ \A p \in net' \ left :
       p.type = "START" \/ (Home(t) \in DOMAIN table /\ table[Home(t)].age <= Budget)

\* The end of a pass through the DATA loop.
LEMMA RetransmitHome ==
  ASSUME Outlasted, NEW t, NEW s, WindowOK(t, s), Total(t) \in Nat, s.result = "none",
         NEW table, Home(t) \in DOMAIN table, table[Home(t)].age \in Nat,
         Stored(s, table[Home(t)]), Prompt(s, table[Home(t)]),
         \/ table[Home(t)].age = 0
         \/ Fillable(t, s) = {} /\ Oldest(s) < Total(t),
         NEW left, Retransmit(t, s, left)
  PROVE  \E x : SendsHome(t, x, left, table)
  <1> DEFINE e == table[Home(t)]
             flight == [q \in DOMAIN s.in_flight |->
                          IF q \in Expired(s)
                          THEN [age |-> 0, attempts |-> s.in_flight[q].attempts + 1]
                          ELSE s.in_flight[q]]
             resent == [s EXCEPT !.in_flight = flight]
  <1>1. /\ WindowOK(t, resent) /\ resent.result = "none"
        /\ resent.in_flight = flight
    BY FewerInFlight
  <1>2. resent.next = s.next
    BY DEF WindowOK, SenderParts
  <1>3. \/ /\ Exhausted(s) = {} /\ Becomes(t, Proceed(t, resent))
           /\ net' = left \cup {DataPacket(t, q) : q \in Expired(s)}
                          \cup Emitted(t, resent)
        \/ /\ Becomes(t, Finish(s, "kPeerUnresponsive"))
           /\ \E some \in SUBSET (Expired(s) \ Exhausted(s)) :
                net' = left \cup {DataPacket(t, q) : q \in some}
    BY DEF Retransmit
  <1>4. Expired(s) \subseteq DOMAIN s.in_flight
    BY DEF Expired
  <1>5. Expired(s) # {} => e.age <= Budget
    BY <1>4, PromptBudget
  <1>6. e.age = 0 => e.age <= Budget
    BY TimeSpent
  <1>7. /\ DOMAIN flight = DOMAIN s.in_flight
        /\ \A q \in Expired(s) :
             flight[q] = [age |-> 0, attempts |-> s.in_flight[q].attempts + 1]
        /\ \A q \in DOMAIN s.in_flight \ Expired(s) : flight[q] = s.in_flight[q]
    BY <1>4
  <1> HIDE DEF resent, flight, e
  <1>8. CASE /\ Exhausted(s) = {} /\ Becomes(t, Proceed(t, resent))
             /\ net' = left \cup {DataPacket(t, q) : q \in Expired(s)}
                            \cup Emitted(t, resent)
    <2>1. Oldest(resent) = Oldest(s) /\ Fillable(t, resent) = Fillable(t, s)
      <3>1. Oldest(resent) = Oldest(s)
        BY <1>1, <1>2, <1>7 DEF Oldest
      <3> QED BY <1>2, <3>1 DEF Fillable
    <2>2. Stored(resent, e)
      BY <1>1, <1>2, <1>7 DEF Stored, e
    <2>3. Prompt(resent, e)
      <3> SUFFICES ASSUME NEW q \in DOMAIN s.in_flight
                   PROVE  /\ flight[q] \in [age : 0 .. Rto, attempts : 1 .. MaxRetries]
                          /\ e.age <= Spent(flight[q].attempts - 1, flight[q].age)
        BY <1>1, <1>7 DEF Prompt
      <3> DEFINE n == s.in_flight[q].attempts
                 a == n - 1
      <3>1. /\ s.in_flight[q] \in [age : 0 .. Rto, attempts : 1 .. MaxRetries]
            /\ n \in 1 .. MaxRetries /\ s.in_flight[q].age \in 0 .. Rto
            /\ e.age <= Spent(a, s.in_flight[q].age)
        BY DEF Prompt, e
      <3>2. CASE q \in Expired(s)
        <4>1. s.in_flight[q].age = Rto /\ ~ (n >= MaxRetries)
          BY <1>8, <3>1, <3>2, SenderAssumption DEF Expired, Exhausted
        <4> HIDE DEF n
        <4>2. MaxRetries \in Nat /\ Rto \in Nat
          BY SenderAssumption
        <4>3. /\ n + 1 \in 1 .. MaxRetries /\ 0 \in 0 .. Rto
              /\ a \in Nat /\ a + 1 = (n + 1) - 1
          BY <3>1, <4>1, <4>2
        <4> HIDE DEF a
        <4>4. Spent(a, Rto) = Spent(a + 1, 0)
          BY <4>2, <4>3, TimeSpent
        <4>5. e.age <= Spent((n + 1) - 1, 0)
          BY <3>1, <4>1, <4>3, <4>4
        <4>6. flight[q] = [age |-> 0, attempts |-> n + 1]
          BY <1>7, <3>2 DEF n
        <4>7. flight[q].age = 0 /\ flight[q].attempts = n + 1
          BY <4>6
        <4> QED BY <4>3, <4>5, <4>6, <4>7
      <3>3. CASE q \notin Expired(s)
        BY <1>7, <3>1, <3>3
      <3> QED BY <3>2, <3>3
    <2>4. \/ e.age = 0
          \/ Fillable(t, resent) = {} /\ Oldest(resent) < Total(t)
      BY <2>1 DEF e
    <2>5. /\ Continues(t, Proceed(t, resent), table)
          /\ Emitted(t, resent) # {} => e.age = 0
      BY <1>1, <2>2, <2>3, <2>4, ProceedHome DEF e
    <2>6. \A p \in net' \ left : e.age <= Budget
      BY <1>5, <1>6, <1>8, <2>5
    <2>7. SendsHome(t, Proceed(t, resent), left, table)
      BY <1>8, <2>5, <2>6 DEF SendsHome, e
    <2> QED BY <2>7
  <1>9. CASE /\ Becomes(t, Finish(s, "kPeerUnresponsive"))
             /\ \E some \in SUBSET (Expired(s) \ Exhausted(s)) :
                  net' = left \cup {DataPacket(t, q) : q \in some}
    <2>1. \A p \in net' \ left : e.age <= Budget
      BY <1>5, <1>9
    <2>2. SendsHome(t, Finish(s, "kPeerUnresponsive"), left, table)
      BY <1>9, <2>1, FinishHome DEF SendsHome, e
    <2> QED BY <2>2
  <1> QED BY <1>3, <1>8, <1>9


\* The session under a key of the table that belongs to a port is that of its only
\* transfer.
LEMMA OnePort ==
  ASSUME NEW Units, OwnClients(Units), Outlasted, TInv(Units), NEW t \in Transfers,
         NEW id, <<t.from, id>> \in DOMAIN sessions
  PROVE  <<t.from, id>> = Home(t)
  <1>1. <<t.from, id>> \in {Key(p) : p \in Packets}
    BY DEF TInv, FInv, EntryHolds
  <1>2. PICK p \in Packets : <<t.from, id>> = Key(p)
    BY <1>1
  <1>3. PICK u \in Transfers : p \in PacketsOf(u)
    BY DEF OwnClients
  <1>4. p.from = u.from /\ p.session_id = u.session_id
    BY <1>3, PacketFacts
  <1>5. t.from = u.from /\ id = u.session_id
    BY <1>2, <1>4 DEF Key
  <1> QED BY <1>5 DEF Outlasted, Home

\* Ages are numbers.
LEMMA AgesNat ==
  ASSUME NEW Units, TInv(Units)
  PROVE  \A k \in DOMAIN sessions : sessions[k].age \in Nat
  <1> SUFFICES ASSUME NEW k \in DOMAIN sessions PROVE sessions[k].age \in Nat
    OBVIOUS
  <1>1. EntryOK(k, sessions[k])
    BY DEF TInv, IInv, TableOK
  <1> QED BY <1>1, ServerAssumption DEF EntryOK

\* A packet reaches a sender: whatever it then sends finds its session.
LEMMA ReceiveHome ==
  ASSUME NEW Units, OwnClients(Units), Outlasted, TInv(Units), HInv, running,
         NEW t \in Transfers, NEW m \in net, m.to = t.from,
         \/ ControlError(t, m) \/ ControlReply(t, m) \/ ControlIgnored(t, m)
         \/ DataReceive(t, m)
  PROVE  \/ sender' = sender /\ net' \subseteq net
         \/ \E x : SendsHome(t, x, Taken(m), sessions)
  <1> DEFINE s == sender[t]
             k == Home(t)
  <1>1. SenderOK(t, s) /\ WindowOK(t, s) /\ Total(t) \in Nat
    BY TotalNat DEF TInv, SendersOK, SenderOK, OwnClients
  <1>2. Taken(m) \subseteq net
    BY DEF Taken
  <1>3. s.phase \in {"start", "data", "fin"}
    BY DEF ControlError, ControlReply, ControlIgnored, DataReceive, Controlling
  <1>4. s.result = "none"
    BY <1>1, <1>3 DEF SenderOK
  <1>5. Attended(sessions) /\ Unsent(s)
    BY DEF HInv
  <1>6. m.type \in Grants =>
          /\ k \in DOMAIN sessions /\ sessions[k].age = 0
          /\ m.type = "ACK" => m.sequence \in sessions[k].receiver.stored
    <2>1. m.type \in Grants => Granted(m, sessions)
      BY <1>5 DEF Attended
    <2>2. <<m.to, m.session_id>> \in DOMAIN sessions => <<m.to, m.session_id>> = k
      BY OnePort
    <2> QED BY <2>1, <2>2 DEF Granted
  <1>7. CASE ControlError(t, m)
    <2> DEFINE f == Finish(s, "kRemoteError")
               x == [f EXCEPT !.remote_status = m.status]
    <2>1. Becomes(t, x) /\ net' = Taken(m)
      BY <1>7 DEF ControlError
    <2>2. x.phase = "done"
      BY <1>1 DEF Finish, WindowOK, SenderParts
    <2> HIDE DEF x
    <2>3. SendsHome(t, x, Taken(m), sessions)
      BY <2>1, <2>2 DEF SendsHome, Continues, AtHome, Unsent
    <2> QED BY <2>3
  <1>8. CASE ControlReply(t, m)
    <2>1. CASE s.phase = "start"
      <3>1. /\ Becomes(t, Proceed(t, s)) /\ net' = Taken(m) \cup Emitted(t, s)
            /\ m.type = "START_ACK"
        BY <1>8, <2>1 DEF ControlReply, Expected
      <3>2. k \in DOMAIN sessions /\ sessions[k].age = 0
        BY <1>6, <3>1 DEF Grants
      <3>3. s.next = 0 /\ DOMAIN s.in_flight = {}
        BY <1>5, <2>1 DEF Unsent
      <3>4. Stored(s, sessions[k]) /\ Prompt(s, sessions[k])
        BY <3>3 DEF Stored, Prompt
      <3>5. Continues(t, Proceed(t, s), sessions)
        BY <1>1, <1>4, <3>2, <3>4, ProceedHome
      <3>6. sessions[k].age <= Budget
        BY <3>2, TimeSpent
      <3>7. SendsHome(t, Proceed(t, s), Taken(m), sessions)
        BY <3>1, <3>2, <3>5, <3>6 DEF SendsHome
      <3> QED BY <3>7
    <2>2. CASE s.phase = "fin"
      <3>1. Becomes(t, Finish(s, "kNone")) /\ net' = Taken(m)
        BY <1>8, <2>2 DEF ControlReply
      <3>2. SendsHome(t, Finish(s, "kNone"), Taken(m), sessions)
        BY <1>1, <3>1, FinishHome DEF SendsHome
      <3> QED BY <3>2
    <2> QED BY <1>8, <2>1, <2>2 DEF ControlReply
  <1>9. CASE ControlIgnored(t, m)
    BY <1>2, <1>9 DEF ControlIgnored
  <1>10. CASE DataReceive(t, m)
    <2> DEFINE e == sessions[k]
               f == [r \in DOMAIN s.in_flight \ {m.sequence} |-> s.in_flight[r]]
               y == [s EXCEPT !.in_flight = f]
               x == IF m.type = "ACK" THEN Acknowledged(s, m.sequence) ELSE s
    <2>1. Retransmit(t, x, Taken(m)) /\ s.phase = "data"
      BY <1>10 DEF DataReceive
    <2>2. /\ k \in DOMAIN sessions /\ Stored(s, e) /\ Prompt(s, e)
          /\ Fillable(t, s) = {}
      BY <1>5, <2>1 DEF Attended, AtHome
    <2>3. e.age \in Nat
      BY <2>2, AgesNat
    <2>4. CASE m.type = "ACK"
      <3>1. x = y
        BY <2>4 DEF Acknowledged
      <3>2. WindowOK(t, y) /\ y.result = "none" /\ y.in_flight = f
        BY <1>1, <1>4, FewerInFlight
      <3>3. y.next = s.next
        BY <1>1 DEF WindowOK, SenderParts
      <3>4. /\ DOMAIN f = DOMAIN s.in_flight \ {m.sequence}
            /\ \A q \in DOMAIN f : f[q] = s.in_flight[q]
        OBVIOUS
      <3>5. e.age = 0 /\ m.sequence \in e.receiver.stored
        BY <1>6, <2>4 DEF Grants
      <3> HIDE DEF y, f, x, e
      <3>6. Stored(y, e)
        BY <2>2, <3>2, <3>3, <3>4, <3>5 DEF Stored
      <3>7. Prompt(y, e)
        BY <2>2, <3>2, <3>4 DEF Prompt
      <3> QED BY <1>1, <2>1, <2>2, <2>3, <3>1, <3>2, <3>5, <3>6, <3>7, RetransmitHome DEF e
    <2>5. CASE m.type # "ACK"
      <3>1. x = s
        BY <2>5
      <3>2. Oldest(s) < Total(t)
        <4>1. DOMAIN s.in_flight # {} /\ DOMAIN s.in_flight \subseteq 0 .. s.next - 1
              /\ s.next \in 0 .. Total(t)
          BY <1>1, <2>1 DEF SenderOK, WindowOK
        <4>2. Oldest(s) \in DOMAIN s.in_flight
          BY <1>1, <4>1, OldestIs
        <4> HIDE DEF s
        <4> QED BY <1>1, <4>1, <4>2
      <3> HIDE DEF x
      <3> QED BY <1>1, <1>4, <2>1, <2>2, <2>3, <3>1, <3>2, RetransmitHome
    <2> QED BY <2>4, <2>5
  <1> QED BY <1>7, <1>8, <1>9, <1>10

\* A sender acts by itself: a retransmission is within the budget.
LEMMA OwnHome ==
  ASSUME NEW Units, OwnClients(Units), Outlasted, TInv(Units), HInv, running,
         NEW t \in Transfers,
         Begin(t) \/ ControlTimeout(t) \/ DataTimeout(t) \/ LocalFailure(t)
  PROVE  \E x : SendsHome(t, x, net, sessions)
  <1> DEFINE s == sender[t]
             k == Home(t)
  <1>1. SenderOK(t, s) /\ WindowOK(t, s) /\ Total(t) \in Nat
    BY TotalNat DEF TInv, SendersOK, SenderOK, OwnClients
  <1>2. AtHome(t, s, sessions) /\ Unsent(s)
    BY DEF HInv, Attended
  <1>3. StartPacket(t).type = "START"
    BY DEF StartPacket
  <1>4. CASE Begin(t)
    <2> DEFINE x == [s EXCEPT !.phase = "start"]
    <2>1. Becomes(t, x) /\ net' = net \cup {StartPacket(t)} /\ s.phase = "idle"
      BY <1>4 DEF Begin
    <2>2. x.phase = "start" /\ x.next = s.next /\ x.in_flight = s.in_flight
      BY <1>1 DEF WindowOK, SenderParts
    <2> HIDE DEF x
    <2>3. Continues(t, x, sessions)
      BY <1>2, <2>1, <2>2 DEF Continues, AtHome, Unsent
    <2>4. SendsHome(t, x, net, sessions)
      BY <1>3, <2>1, <2>3 DEF SendsHome
    <2> QED BY <2>4
  <1>5. CASE ControlTimeout(t)
    <2>0. /\ s.attempt \in Nat /\ MaxRetries \in Nat /\ Rto \in Nat
          /\ s.waited \in 0 .. Rto /\ s.phase \in {"start", "fin"} /\ s.waited >= Rto
      BY <1>1, <1>5, SenderAssumption DEF WindowOK, ControlTimeout, Controlling
    <2>1. CASE s.attempt < MaxRetries
      <3> DEFINE x == [s EXCEPT !.attempt = @ + 1, !.waited = 0]
      <3>1. Becomes(t, x) /\ net' = net \cup {ControlPacket(t)}
        BY <1>5, <2>0, <2>1 DEF ControlTimeout
      <3>2. /\ x.phase = s.phase /\ x.attempt = s.attempt + 1 /\ x.waited = 0
            /\ x.next = s.next /\ x.in_flight = s.in_flight
        BY <1>1 DEF WindowOK, SenderParts
      <3> HIDE DEF x
      <3>3. CASE s.phase = "start"
        <4>1. Continues(t, x, sessions)
          BY <1>2, <3>2, <3>3 DEF Continues, AtHome, Unsent
        <4>2. SendsHome(t, x, net, sessions)
          BY <1>3, <3>1, <3>3, <4>1 DEF SendsHome, ControlPacket
        <4> QED BY <4>2
      <3>4. CASE s.phase = "fin"
        <4> DEFINE a == s.attempt
                   n == a + 1
        <4>1. s.waited = Rto /\ a \in Nat /\ n \in Nat /\ n <= MaxRetries
          BY <2>0, <2>1
        <4>2. Spent(a, Rto) = Spent(n, 0) /\ Spent(a, Rto) <= Budget
              /\ Spent(a, Rto) \in Nat /\ Budget \in Nat
          BY <2>0, <4>1, TimeSpent
        <4>3. /\ k \in DOMAIN sessions /\ Stored(s, sessions[k])
              /\ sessions[k].age <= Spent(a, Rto)
          BY <1>2, <3>4, <4>1, <4>2 DEF AtHome
        <4>4. sessions[k].age \in Nat
          BY <4>3, AgesNat
        <4>5. sessions[k].age <= Budget /\ sessions[k].age <= Spent(n, 0)
          <5> HIDE DEF a, n, k
          <5> QED BY <4>2, <4>3, <4>4
        <4>6. Stored(x, sessions[k])
          BY <3>2, <4>3 DEF Stored
        <4>7. Continues(t, x, sessions)
          BY <3>2, <3>4, <4>3, <4>5, <4>6 DEF Continues, AtHome, Unsent
        <4>8. SendsHome(t, x, net, sessions)
          BY <3>1, <4>3, <4>5, <4>7 DEF SendsHome
        <4> QED BY <4>8
      <3> QED BY <2>0, <3>3, <3>4
    <2>2. CASE ~ (s.attempt < MaxRetries)
      <3>1. PICK result : Becomes(t, Finish(s, result)) /\ net' = net
        BY <1>5, <2>2 DEF ControlTimeout
      <3>2. SendsHome(t, Finish(s, result), net, sessions)
        BY <1>1, <3>1, FinishHome DEF SendsHome
      <3> QED BY <3>2
    <2> QED BY <2>1, <2>2
  <1>6. CASE DataTimeout(t)
    <2>1. Retransmit(t, s, net) /\ s.phase = "data"
      BY <1>6 DEF DataTimeout
    <2>2. /\ k \in DOMAIN sessions /\ Stored(s, sessions[k]) /\ Prompt(s, sessions[k])
          /\ Fillable(t, s) = {}
      BY <1>2, <2>1 DEF AtHome
    <2>3. sessions[k].age \in Nat /\ s.result = "none"
      BY <1>1, <2>1, <2>2, AgesNat DEF SenderOK
    <2>4. Oldest(s) < Total(t)
      <3>1. DOMAIN s.in_flight # {} /\ DOMAIN s.in_flight \subseteq 0 .. s.next - 1
            /\ s.next \in 0 .. Total(t)
        BY <1>1, <2>1 DEF SenderOK, WindowOK
      <3>2. Oldest(s) \in DOMAIN s.in_flight
        BY <1>1, <3>1, OldestIs
      <3> HIDE DEF s
      <3> QED BY <1>1, <3>1, <3>2
    <2> QED BY <1>1, <2>1, <2>2, <2>3, <2>4, RetransmitHome
  <1>7. CASE LocalFailure(t)
    <2>1. PICK error \in LocalErrors : Becomes(t, Finish(s, error)) /\ net' = net
      BY <1>7 DEF LocalFailure
    <2>2. SendsHome(t, Finish(s, error), net, sessions)
      BY <1>1, <2>1, FinishHome DEF SendsHome
    <2> QED BY <2>2
  <1> QED BY <1>4, <1>5, <1>6, <1>7


\* Proceed is past the handshake.
LEMMA ProceedPhase ==
  ASSUME NEW t, NEW s, WindowOK(t, s)
  PROVE  Proceed(t, s).phase \in {"data", "fin"}
  BY DEF Proceed, WindowOK, SenderParts

\* With or without a server, a sender has sent nothing before its handshake.
LEMMA UnsentStep ==
  ASSUME NEW Units, OwnClients(Units), TInv(Units), NEW t \in Transfers,
         \A u \in Transfers : Unsent(sender[u]),
         \/ Begin(t) \/ ControlTimeout(t) \/ DataTimeout(t) \/ LocalFailure(t)
         \/ \E m \in net : \/ ControlError(t, m) \/ ControlReply(t, m)
                           \/ ControlIgnored(t, m) \/ DataReceive(t, m)
  PROVE  \A u \in Transfers : Unsent(sender'[u])
  <1> DEFINE s == sender[t]
  <1>1. SenderOK(t, s) /\ WindowOK(t, s) /\ DOMAIN sender = Transfers
    BY DEF TInv, SendersOK, SenderOK
  <1>2. Unsent(s)
    OBVIOUS
  <1>3. ASSUME NEW x, Becomes(t, x), Unsent(x)
        PROVE  \A u \in Transfers : Unsent(sender'[u])
    BY <1>1, <1>3 DEF Becomes
  <1>4. \A result : Unsent(Finish(s, result))
    <2> SUFFICES ASSUME NEW result PROVE Unsent(Finish(s, result))
      OBVIOUS
    <2>1. Finish(s, result).phase = "done"
      BY <1>1 DEF Finish, WindowOK, SenderParts
    <2> QED BY <2>1 DEF Unsent
  <1>5. CASE Begin(t)
    <2> DEFINE x == [s EXCEPT !.phase = "start"]
    <2>1. Becomes(t, x) /\ s.phase = "idle"
      BY <1>5 DEF Begin
    <2>2. x.next = s.next /\ x.in_flight = s.in_flight
      BY <1>1 DEF WindowOK, SenderParts
    <2> HIDE DEF x
    <2> QED BY <1>2, <1>3, <2>1, <2>2 DEF Unsent
  <1>6. CASE ControlTimeout(t)
    <2> DEFINE x == [s EXCEPT !.attempt = @ + 1, !.waited = 0]
    <2>1. Becomes(t, x) \/ \E result : Becomes(t, Finish(s, result))
      BY <1>6 DEF ControlTimeout
    <2>2. x.phase = s.phase /\ x.next = s.next /\ x.in_flight = s.in_flight
      BY <1>1 DEF WindowOK, SenderParts
    <2> HIDE DEF x
    <2>3. Unsent(x)
      BY <1>2, <2>2 DEF Unsent
    <2> QED BY <1>3, <1>4, <2>1, <2>3
  <1>7. ASSUME NEW y, WindowOK(t, y), NEW left, Retransmit(t, y, left)
        PROVE  \A u \in Transfers : Unsent(sender'[u])
    <2> DEFINE flight == [q \in DOMAIN y.in_flight |->
                            IF q \in Expired(y)
                            THEN [age |-> 0, attempts |-> y.in_flight[q].attempts + 1]
                            ELSE y.in_flight[q]]
               resent == [y EXCEPT !.in_flight = flight]
               ended == Finish(y, "kPeerUnresponsive")
    <2>1. WindowOK(t, resent)
      BY <1>7, FewerInFlight
    <2>2. Becomes(t, Proceed(t, resent)) \/ Becomes(t, ended)
      BY <1>7 DEF Retransmit
    <2> HIDE DEF resent
    <2>3. Unsent(Proceed(t, resent))
      BY <2>1, ProceedPhase DEF Unsent
    <2>4. ended.phase = "done"
      BY <1>7 DEF Finish, WindowOK, SenderParts
    <2> HIDE DEF ended
    <2> QED BY <1>3, <2>2, <2>3, <2>4 DEF Unsent
  <1>8. CASE DataTimeout(t)
    BY <1>1, <1>7, <1>8 DEF DataTimeout
  <1>9. CASE LocalFailure(t)
    BY <1>3, <1>4, <1>9 DEF LocalFailure
  <1>10. CASE \E m \in net : \/ ControlError(t, m) \/ ControlReply(t, m)
                             \/ ControlIgnored(t, m) \/ DataReceive(t, m)
    <2>1. PICK m \in net : \/ ControlError(t, m) \/ ControlReply(t, m)
                           \/ ControlIgnored(t, m) \/ DataReceive(t, m)
      BY <1>10
    <2>2. CASE ControlError(t, m)
      <3> DEFINE f == Finish(s, "kRemoteError")
                 x == [f EXCEPT !.remote_status = m.status]
      <3>1. Becomes(t, x)
        BY <2>2 DEF ControlError
      <3>2. x.phase = "done"
        BY <1>1 DEF Finish, WindowOK, SenderParts
      <3> HIDE DEF x
      <3> QED BY <1>3, <3>1, <3>2 DEF Unsent
    <2>3. CASE ControlReply(t, m)
      <3>1. Becomes(t, Proceed(t, s)) \/ Becomes(t, Finish(s, "kNone"))
        BY <2>3 DEF ControlReply
      <3>2. Unsent(Proceed(t, s))
        BY <1>1, ProceedPhase DEF Unsent
      <3> QED BY <1>3, <1>4, <3>1, <3>2
    <2>4. CASE ControlIgnored(t, m)
      BY <2>4 DEF ControlIgnored
    <2>5. CASE DataReceive(t, m)
      <3> DEFINE f == [r \in DOMAIN s.in_flight \ {m.sequence} |-> s.in_flight[r]]
                 x == IF m.type = "ACK" THEN Acknowledged(s, m.sequence) ELSE s
      <3>1. Retransmit(t, x, Taken(m))
        BY <2>5 DEF DataReceive
      <3>2. Acknowledged(s, m.sequence) = [s EXCEPT !.in_flight = f]
        BY DEF Acknowledged
      <3>3. WindowOK(t, [s EXCEPT !.in_flight = f])
        BY <1>1, FewerInFlight
      <3>4. WindowOK(t, x)
        BY <1>1, <3>2, <3>3
      <3> HIDE DEF x
      <3> QED BY <1>7, <3>1, <3>4
    <2> QED BY <2>1, <2>2, <2>3, <2>4, <2>5
  <1> QED BY <1>5, <1>6, <1>8, <1>9, <1>10

\* The steps of the senders keep the invariant.
LEMMA SendersHome ==
  ASSUME NEW Units, OwnClients(Units), Outlasted, TInv(Units), HInv, NEW t \in Transfers,
         \/ SenderBegin(t) \/ SenderTimeout(t) \/ SenderFailure(t)
         \/ \E m \in ToClient(t) : SenderReceive(t, m)
  PROVE  HInv'
  <1>1. \/ Begin(t) \/ ControlTimeout(t) \/ DataTimeout(t) \/ LocalFailure(t)
        \/ \E m \in net : m.to = t.from /\ \/ ControlError(t, m) \/ ControlReply(t, m)
                                           \/ ControlIgnored(t, m) \/ DataReceive(t, m)
    BY DEF SenderBegin, SenderTimeout, SenderFailure, SenderReceive, ToClient
  <1>2. sessions' = sessions /\ running' = running
    BY DEF SenderBegin, SenderTimeout, SenderFailure, SenderReceive, vars
  <1>3. \A u \in Transfers : Unsent(sender'[u])
    BY <1>1, UnsentStep DEF HInv
  <1>4. net' \subseteq net \cup PacketsOf(t)
    <2>1. CASE Begin(t) \/ ControlTimeout(t) \/ DataTimeout(t) \/ LocalFailure(t)
      BY <2>1, OwnMoves DEF Moves, TInv, OwnClients
    <2>2. CASE \E m \in net : \/ ControlError(t, m) \/ ControlReply(t, m)
                              \/ ControlIgnored(t, m) \/ DataReceive(t, m)
      BY <2>2, ReceiveMoves DEF Moves, TInv, OwnClients
    <2> QED BY <1>1, <2>1, <2>2
  <1>5. ASSUME running PROVE Attended(sessions)'
    <2>1. \/ sender' = sender /\ net' \subseteq net
          \/ \E x : SendsHome(t, x, net, sessions)
      <3>1. CASE Begin(t) \/ ControlTimeout(t) \/ DataTimeout(t) \/ LocalFailure(t)
        BY <1>5, <3>1, OwnHome
      <3>2. CASE \E m \in net : m.to = t.from
                                /\ \/ ControlError(t, m) \/ ControlReply(t, m)
                                   \/ ControlIgnored(t, m) \/ DataReceive(t, m)
        <4>1. PICK m \in net : m.to = t.from
                               /\ \/ ControlError(t, m) \/ ControlReply(t, m)
                                  \/ ControlIgnored(t, m) \/ DataReceive(t, m)
          BY <3>2
        <4>2. \/ sender' = sender /\ net' \subseteq net
              \/ \E x : SendsHome(t, x, Taken(m), sessions)
          BY <1>5, <4>1, ReceiveHome
        <4>3. Taken(m) \subseteq net
          BY DEF Taken
        <4>4. \A x : SendsHome(t, x, Taken(m), sessions) => SendsHome(t, x, net, sessions)
          BY <4>3 DEF SendsHome
        <4> QED BY <4>2, <4>4
      <3> QED BY <1>1, <3>1, <3>2
    <2>2. Attended(sessions)
      BY <1>5 DEF HInv
    <2>3. CASE sender' = sender /\ net' \subseteq net
      BY <1>2, <2>2, <2>3 DEF Attended
    <2>4. CASE \E x : SendsHome(t, x, net, sessions)
      <3>1. PICK x : SendsHome(t, x, net, sessions)
        BY <2>4
      <3>2. DOMAIN sender = Transfers
        BY DEF TInv, SendersOK
      <3>3. sender'[t] = x /\ \A u \in Transfers \ {t} : sender'[u] = sender[u]
        BY <3>1, <3>2 DEF SendsHome, Becomes
      <3>4. AtHome(t, x, sessions) /\ (x.phase = "fin" => x.waited = 0)
        BY <3>1 DEF SendsHome, Continues
      <3>5. \A u \in Transfers : AtHome(u, sender'[u], sessions)
        BY <2>2, <3>3, <3>4 DEF Attended
      <3>6. \A u \in Transfers :
              Reachable(u, sender[u], sessions) => Reachable(u, sender'[u], sessions)
        BY <3>3, <3>4 DEF Reachable
      <3>7. ASSUME NEW p \in net', p.type \in {"DATA", "FIN"},
                   NEW u \in Transfers, Key(p) = Home(u)
            PROVE  Reachable(u, sender'[u], sessions)
        <4>1. CASE p \in net
          BY <2>2, <3>6, <3>7, <4>1 DEF Attended
        <4>2. CASE p \notin net
          <5>1. p \in PacketsOf(t)
            BY <1>4, <4>2
          <5>2. Key(p) = Home(t)
            BY <5>1, PacketFacts DEF Key, Home
          <5>3. u = t
            BY <3>7, <5>2, OneTransfer DEF Home
          <5>4. Home(t) \in DOMAIN sessions /\ sessions[Home(t)].age <= Budget
            BY <3>1, <3>7, <4>2 DEF SendsHome
          <5> QED BY <3>3, <3>4, <5>3, <5>4 DEF Reachable
        <4> QED BY <4>1, <4>2
      <3>8. ASSUME NEW m \in net', m.type \in Grants
            PROVE  Granted(m, sessions)
        <4>1. m \in net
          BY <1>4, <3>8, PacketFacts DEF Grants, Requests
        <4> QED BY <2>2, <3>8, <4>1 DEF Attended
      <3> QED BY <1>2, <3>5, <3>7, <3>8 DEF Attended
    <2> QED BY <2>1, <2>3, <2>4
  <1> QED BY <1>2, <1>3, <1>5 DEF HInv


\* What handling a packet does to what is stored: nothing is lost, an ACK names a
\* chunk that is stored, and a settled session grants nothing.
LEMMA GrantsAreKept ==
  ASSUME NEW s, Shaped(s), s.final_reply.type \notin Grants, NEW d, NEW p,
         NEW out \in handle_packet(s, d, p)
  PROVE  /\ out.session.final_reply.type \notin Grants
         /\ s.stored \subseteq out.session.stored
         /\ out.reply.type \in Grants => ~ s.finished
         /\ out.reply.type = "ACK" => out.reply.sequence \in out.session.stored
  <1>1. \A q : /\ NoReply.type = "none" /\ Answer("START_ACK", q).type = "START_ACK"
               /\ Answer("ACK", q).type = "ACK" /\ Answer("ACK", q).sequence = q
               /\ Answer("FIN_ACK", q).type = "FIN_ACK"
               /\ \A status : ErrorReply(status, q).type = "ERROR"
    BY DEF NoReply, Answer, ErrorReply
  <1>2. \A x : Shaped(x) => \A status, error, q :
          /\ fail(x, d, status, error, q).reply.type = "ERROR"
          /\ fail(x, d, status, error, q).session.final_reply.type = "ERROR"
          /\ fail(x, d, status, error, q).session.stored = x.stored
    BY <1>1, ZenonT(60) DEF fail, Outcome, Shaped, Members
  <1>3. CASE s.finished
    <2>1. out.session = s /\ out.reply \in {s.final_reply, NoReply}
      BY <1>3 DEF handle_packet, Outcome
    <2> QED BY <1>1, <2>1 DEF Grants
  <1>4. ASSUME NEW x, Shaped(x), x.stored = s.stored, NEW status, NEW error,
               out = fail(x, d, status, error, p.sequence)
        PROVE  /\ out.session.final_reply.type \notin Grants
               /\ s.stored \subseteq out.session.stored
               /\ out.reply.type \notin Grants
    BY <1>2, <1>4 DEF Grants
  <1>5. CASE ~ s.finished /\ p.type = "START"
    <2> DEFINE known == [s EXCEPT !.session_id = p.session_id]
               placed == [known EXCEPT
                            !.output_path = OutputPath(sanitize_filename(p.payload)),
                            !.temp_path = TempPath(p.session_id)]
               opened == [placed EXCEPT !.file = InodeFor(d, placed.temp_path),
                            !.declared_size = p.offset, !.started = TRUE]
    <2>1. /\ Shaped(known) /\ known.stored = s.stored
          /\ Shaped(placed) /\ placed.stored = s.stored
          /\ opened.final_reply = s.final_reply /\ opened.stored = s.stored
      BY DEF Shaped, Members
    <2>2. \/ out = Outcome(s, d, Answer("START_ACK", p.sequence))
          \/ out = Outcome(opened, open_write(d, placed.temp_path),
                           Answer("START_ACK", p.sequence))
          \/ \E x \in {s, known, placed} : \E status, error :
               out = fail(x, d, status, error, p.sequence)
      BY <1>5 DEF handle_packet, on_start, IfFaulty
    <2> HIDE DEF known, placed, opened
    <2>3. CASE \E x \in {s, known, placed} : \E status, error :
                 out = fail(x, d, status, error, p.sequence)
      BY <1>4, <2>1, <2>3 DEF Grants
    <2>4. CASE \/ out = Outcome(s, d, Answer("START_ACK", p.sequence))
               \/ out = Outcome(opened, open_write(d, placed.temp_path),
                                Answer("START_ACK", p.sequence))
      <3>1. /\ out.reply = Answer("START_ACK", p.sequence)
            /\ out.session.final_reply = s.final_reply
            /\ out.session.stored = s.stored
        BY <2>1, <2>4 DEF Outcome
      <3> QED BY <1>1, <1>5, <3>1
    <2> QED BY <2>2, <2>3, <2>4
  <1>6. CASE ~ s.finished /\ p.type = "DATA"
    <2> DEFINE written == [s EXCEPT !.stored = @ \cup {p.sequence},
                                    !.bytes_written = @ + Len(p.payload)]
               ack == Answer("ACK", p.sequence)
    <2>1. written.final_reply = s.final_reply /\ written.stored = s.stored \cup {p.sequence}
      BY DEF Shaped, Members
    <2>2. \/ \E status, error : out = fail(s, d, status, error, p.sequence)
          \/ out = Outcome(s, d, ack) /\ p.sequence \in s.stored
          \/ out = Outcome(s, d, NoReply)
          \/ out = Outcome(written, write_at(d, s.file, p.payload, p.offset), ack)
      BY <1>6 DEF handle_packet, on_data, IfFaulty
    <2> HIDE DEF written, ack
    <2>3. CASE \E status, error : out = fail(s, d, status, error, p.sequence)
      BY <1>4, <2>3 DEF Grants
    <2>4. CASE \/ out = Outcome(s, d, ack) /\ p.sequence \in s.stored
               \/ out = Outcome(s, d, NoReply)
               \/ out = Outcome(written, write_at(d, s.file, p.payload, p.offset), ack)
      <3>1. /\ out.session.final_reply = s.final_reply
            /\ s.stored \subseteq out.session.stored
            /\ \/ out.reply = NoReply
               \/ out.reply = ack /\ p.sequence \in out.session.stored
        BY <2>1, <2>4 DEF Outcome
      <3> QED BY <1>1, <1>6, <3>1 DEF ack
    <2> QED BY <2>2, <2>3, <2>4
  <1>7. CASE ~ s.finished /\ p.type = "FIN"
    <2> DEFINE published == [s EXCEPT !.published = TRUE, !.finished = TRUE,
                                      !.final_reply = Answer("FIN_ACK", p.sequence)]
    <2>1. /\ published.final_reply = Answer("FIN_ACK", p.sequence)
          /\ published.stored = s.stored
      BY DEF Shaped, Members
    <2>2. \/ \E status, error : out = fail(s, d, status, error, p.sequence)
          \/ out = Outcome(published, rename(d, s.temp_path, s.output_path),
                           Answer("FIN_ACK", p.sequence))
      BY <1>7 DEF handle_packet, on_fin, IfFaulty
    <2> HIDE DEF published
    <2>3. CASE \E status, error : out = fail(s, d, status, error, p.sequence)
      BY <1>4, <2>3 DEF Grants
    <2>4. CASE out = Outcome(published, rename(d, s.temp_path, s.output_path),
                             Answer("FIN_ACK", p.sequence))
      <3>1. /\ out.reply = Answer("FIN_ACK", p.sequence)
            /\ out.session.final_reply = Answer("FIN_ACK", p.sequence)
            /\ out.session.stored = s.stored
        BY <2>1, <2>4 DEF Outcome
      <3> QED BY <1>1, <3>1 DEF Grants
    <2> QED BY <2>2, <2>3, <2>4
  <1>8. CASE ~ s.finished /\ p.type \notin Requests
    <2>1. \/ out = Outcome(s, d, NoReply)
          \/ \E status, error : out = fail(s, d, status, error, p.sequence)
      BY <1>8 DEF handle_packet, Requests
    <2>2. CASE \E status, error : out = fail(s, d, status, error, p.sequence)
      BY <1>4, <2>2 DEF Grants
    <2>3. CASE out = Outcome(s, d, NoReply)
      <3>1. out.reply = NoReply /\ out.session = s
        BY <2>3 DEF Outcome
      <3> QED BY <1>1, <3>1 DEF Grants
    <2> QED BY <2>1, <2>2, <2>3
  <1> QED BY <1>3, <1>5, <1>6, <1>7, <1>8 DEF Requests

\* A table in which no session a sender may still call is older, or knows less.
Upkept(old, new) ==
  \A k \in DOMAIN old : old[k].age <= Budget =>
    /\ k \in DOMAIN new /\ new[k].age \in Nat /\ new[k].age <= old[k].age
    /\ old[k].receiver.stored \subseteq new[k].receiver.stored

\* Such a change to the table is as good to everyone else.
LEMMA UpkeepKeeps ==
  ASSUME NEW Units, TInv(Units), Attended(sessions), NEW new, Upkept(sessions, new)
  PROVE  Attended(new)
  <1>1. \A k \in DOMAIN sessions : sessions[k].age \in Nat
    BY AgesNat
  <1>2. Budget \in Nat
    BY TimeSpent
  <1>3. ASSUME NEW t \in Transfers
        PROVE  AtHome(t, sender[t], new)
    <2> DEFINE s == sender[t]
               k == Home(t)
    <2>1. AtHome(t, s, sessions) /\ SenderOK(t, s)
      BY DEF Attended, TInv, SendersOK
    <2>2. CASE s.phase = "data"
      <3>1. /\ k \in DOMAIN sessions /\ Stored(s, sessions[k]) /\ Prompt(s, sessions[k])
            /\ Fillable(t, s) = {} /\ DOMAIN s.in_flight # {}
        BY <2>1, <2>2 DEF AtHome, SenderOK
      <3>2. sessions[k].age <= Budget
        BY <1>1, <3>1, PromptBudget
      <3>3. /\ k \in DOMAIN new /\ new[k].age \in Nat /\ new[k].age <= sessions[k].age
            /\ sessions[k].receiver.stored \subseteq new[k].receiver.stored
        BY <3>1, <3>2 DEF Upkept
      <3>4. Stored(s, new[k])
        BY <3>1, <3>3 DEF Stored
      <3>5. Prompt(s, new[k])
        <4> SUFFICES ASSUME NEW q \in DOMAIN s.in_flight
                     PROVE  /\ s.in_flight[q] \in [age : 0 .. Rto,
                                                  attempts : 1 .. MaxRetries]
                            /\ new[k].age <= Spent(s.in_flight[q].attempts - 1,
                                                   s.in_flight[q].age)
          BY DEF Prompt
        <4> DEFINE a == s.in_flight[q].attempts - 1
                   w == s.in_flight[q].age
        <4>1. /\ s.in_flight[q] \in [age : 0 .. Rto, attempts : 1 .. MaxRetries]
              /\ sessions[k].age <= Spent(a, w)
          BY <3>1 DEF Prompt
        <4>2. a \in Nat /\ w \in Nat
          BY <4>1, SenderAssumption
        <4>3. Spent(a, w) \in Nat
          <5> HIDE DEF a, w
          <5> QED BY <4>2, TimeSpent
        <4>4. new[k].age <= Spent(a, w)
          <5> HIDE DEF a, w, k
          <5> QED BY <1>1, <3>1, <3>3, <4>1, <4>3
        <4> QED BY <4>1, <4>4
      <3> QED BY <2>2, <3>1, <3>3, <3>4, <3>5 DEF AtHome
    <2>3. CASE s.phase = "fin" /\ Spent(s.attempt, s.waited) <= Budget
      <3>1. /\ k \in DOMAIN sessions /\ Stored(s, sessions[k])
            /\ sessions[k].age <= Spent(s.attempt, s.waited)
        BY <2>1, <2>3 DEF AtHome
      <3>2. Spent(s.attempt, s.waited) \in Nat
        <4>1. s.attempt \in Nat /\ s.waited \in Nat
          BY <2>1, SenderAssumption DEF SenderOK, WindowOK
        <4> QED BY <4>1, TimeSpent
      <3>3. sessions[k].age <= Budget
        <4> HIDE DEF k, s
        <4> QED BY <1>1, <1>2, <2>3, <3>1, <3>2
      <3>4. /\ k \in DOMAIN new /\ new[k].age \in Nat /\ new[k].age <= sessions[k].age
            /\ sessions[k].receiver.stored \subseteq new[k].receiver.stored
        BY <3>1, <3>3 DEF Upkept
      <3>5. new[k].age <= Spent(s.attempt, s.waited)
        <4> HIDE DEF k, s
        <4> QED BY <1>1, <3>1, <3>2, <3>4
      <3>6. Stored(s, new[k])
        BY <3>1, <3>4 DEF Stored
      <3> QED BY <2>3, <3>4, <3>5, <3>6 DEF AtHome
    <2> QED BY <2>2, <2>3 DEF AtHome
  <1>4. ASSUME NEW t \in Transfers, Reachable(t, sender[t], sessions)
        PROVE  Reachable(t, sender[t], new)
    <2> DEFINE k == Home(t)
    <2>1. /\ k \in DOMAIN sessions /\ sessions[k].age <= Budget
          /\ sender[t].phase = "fin" => sender[t].waited = 0
      BY <1>4 DEF Reachable
    <2>2. k \in DOMAIN new /\ new[k].age \in Nat /\ new[k].age <= sessions[k].age
      BY <2>1 DEF Upkept
    <2>3. new[k].age <= Budget
      <3> HIDE DEF k
      <3> QED BY <1>1, <1>2, <2>1, <2>2
    <2> QED BY <2>1, <2>2, <2>3 DEF Reachable
  <1>5. ASSUME NEW m, Granted(m, sessions)
        PROVE  Granted(m, new)
    <2> DEFINE k == <<m.to, m.session_id>>
    <2>1. /\ k \in DOMAIN sessions /\ sessions[k].age = 0
          /\ m.type = "ACK" => m.sequence \in sessions[k].receiver.stored
      BY <1>5 DEF Granted
    <2> HIDE DEF k
    <2>2. /\ k \in DOMAIN new /\ new[k].age = 0
          /\ sessions[k].receiver.stored \subseteq new[k].receiver.stored
      BY <1>2, <2>1 DEF Upkept
    <2> QED BY <2>1, <2>2 DEF Granted, k
  <1> QED BY <1>3, <1>4, <1>5 DEF Attended


\* The server handles a packet: every session is at least as well as before, and
\* what it grants it has just granted.
LEMMA PacketHome ==
  ASSUME NEW Units, OwnClients(Units), Outlasted, TInv(Units), HInv,
         NEW p \in Packets, NEW out, HandleKnown(p, out) \/ HandleNew(p, out)
  PROVE  /\ \A j \in DOMAIN sessions' :
              sessions'[j].receiver.final_reply.type \notin Grants
         /\ Upkept(sessions, sessions') /\ running' = running
         /\ out.reply.type \in Grants =>
              /\ Key(p) \in DOMAIN sessions' /\ sessions'[Key(p)].age = 0
              /\ out.reply.type = "ACK" =>
                   out.reply.sequence \in sessions'[Key(p)].receiver.stored
  <1> DEFINE k == Key(p)
             r == out.session
  <1>1. /\ \A j \in DOMAIN sessions : sessions[j].receiver.final_reply.type \notin Grants
        /\ \A j \in DOMAIN sessions : sessions[j].age \in Nat
        /\ \A j \in DOMAIN sessions : EntryOK(j, sessions[j])
    BY AgesNat DEF HInv, TInv, IInv, TableOK
  <1>2. /\ Live(r).receiver = r /\ Live(r).age = 0 /\ Done(r).age = 0
        /\ Shaped(r) => /\ Done(r).receiver.final_reply = r.final_reply
                        /\ Done(r).receiver.stored = r.stored
    BY CloseFile DEF Live, Done, Members
  <1>3. \A j \in DOMAIN sessions : sessions[j].age <= sessions[j].age
    BY <1>1
  <1>4. CASE HandleKnown(p, out)
    <2> DEFINE e == sessions[k]
               s == e.receiver
    <2>1. k \in DOMAIN sessions /\ out \in handle_packet(s, disk, p)
      BY <1>4 DEF HandleKnown
    <2>2. EntryOK(k, e)
      BY <1>1, <2>1
    <2>3. /\ DOMAIN sessions' = DOMAIN sessions /\ running' = running
          /\ \A j \in DOMAIN sessions \ {k} : sessions'[j] = sessions[j]
      BY <1>4, <2>2, KnownStep
    <2>4. \/ e.lingering /\ sessions'[k] = e /\ r = s
          \/ ~ e.lingering /\ sessions'[k] = Live(r)
          \/ ~ e.lingering /\ sessions'[k] = Done(r) /\ Shaped(r)
      BY <1>4, <2>2, KnownStep
    <2>5. Shaped(s) /\ s.finished = e.lingering /\ e.lingering \in BOOLEAN
      BY <2>2 DEF EntryOK
    <2>6. /\ r.final_reply.type \notin Grants /\ s.stored \subseteq r.stored
          /\ out.reply.type \in Grants => ~ s.finished
          /\ out.reply.type = "ACK" => out.reply.sequence \in r.stored
      BY <1>1, <2>1, <2>5, GrantsAreKept
    <2> HIDE DEF k, r
    <2>7. /\ sessions'[k].receiver.final_reply = r.final_reply
          /\ sessions'[k].receiver.stored = r.stored
          /\ sessions'[k].age = e.age \/ sessions'[k].age = 0
          /\ ~ e.lingering => sessions'[k].age = 0
      <3>1. CASE e.lingering
        BY <2>4, <3>1
      <3>2. CASE ~ e.lingering
        BY <1>2, <2>4, <3>2
      <3> QED BY <3>1, <3>2
    <2>8. e.age \in Nat
      BY <1>1, <2>1
    <2> HIDE DEF e
    <2>9. sessions'[k].age \in Nat /\ sessions'[k].age <= e.age
      BY <2>7, <2>8
    <2>10. Upkept(sessions, sessions')
      <3> SUFFICES ASSUME NEW j \in DOMAIN sessions
                   PROVE  /\ j \in DOMAIN sessions' /\ sessions'[j].age \in Nat
                          /\ sessions'[j].age <= sessions[j].age
                          /\ sessions[j].receiver.stored \subseteq sessions'[j].receiver.stored
        BY DEF Upkept
      <3>1. CASE j = k
        BY <2>3, <2>6, <2>7, <2>9, <3>1 DEF e
      <3>2. CASE j # k
        BY <1>1, <1>3, <2>3, <3>2
      <3> QED BY <3>1, <3>2
    <2>11. \A j \in DOMAIN sessions' : sessions'[j].receiver.final_reply.type \notin Grants
      BY <1>1, <2>3, <2>6, <2>7
    <2>12. out.reply.type \in Grants => sessions'[k].age = 0
      BY <2>5, <2>6, <2>7
    <2> QED BY <2>1, <2>3, <2>6, <2>7, <2>10, <2>11, <2>12 DEF k
  <1>5. CASE HandleNew(p, out)
    <2>1. /\ k \notin DOMAIN sessions /\ running' = running
          /\ DOMAIN sessions' = (DOMAIN sessions \ Evicted) \cup {k}
          /\ \A j \in DOMAIN sessions \ Evicted : sessions'[j] = sessions[j]
          /\ Shaped(r)
          /\ sessions'[k] = Live(r) \/ sessions'[k] = Done(r)
      BY <1>5, NewStep
    <2>2. Evicted = {}
      BY <2>1, RoomForAll
    <2>3. out \in handle_packet(NewSession, Cleared, p)
      BY <1>5 DEF HandleNew
    <2>4. Shaped(NewSession) /\ NewSession.final_reply.type \notin Grants
      BY DEF NewSession, Shaped, Members, NoReply, Grants
    <2>5. /\ r.final_reply.type \notin Grants
          /\ out.reply.type = "ACK" => out.reply.sequence \in r.stored
      BY <2>3, <2>4, GrantsAreKept
    <2> HIDE DEF k, r
    <2>6. /\ sessions'[k].receiver.final_reply = r.final_reply
          /\ sessions'[k].receiver.stored = r.stored /\ sessions'[k].age = 0
      BY <1>2, <2>1
    <2>7. Upkept(sessions, sessions')
      BY <1>1, <1>3, <2>1, <2>2 DEF Upkept
    <2>8. \A j \in DOMAIN sessions' : sessions'[j].receiver.final_reply.type \notin Grants
      BY <1>1, <2>1, <2>2, <2>5, <2>6
    <2> QED BY <2>1, <2>5, <2>6, <2>7, <2>8 DEF k
  <1> QED BY <1>4, <1>5

\* The server receives a packet and its reply goes out.
LEMMA ServerHome ==
  ASSUME NEW Units, OwnClients(Units), Outlasted, TInv(Units), HInv,
         NEW p \in Packets, ServerReceive(p)
  PROVE  HInv'
  <1>1. PICK out \in Outcomes(p) :
          /\ HandleKnown(p, out) \/ HandleNew(p, out)
          /\ net' = Taken(p) \cup (IF out.reply = NoReply THEN {}
                                   ELSE {Reply(p, out.reply)})
    BY DEF ServerReceive
  <1>2. sender' = sender
    BY DEF ServerReceive
  <1>3. /\ \A j \in DOMAIN sessions' :
             sessions'[j].receiver.final_reply.type \notin Grants
        /\ Upkept(sessions, sessions') /\ running' = running
        /\ out.reply.type \in Grants =>
             /\ Key(p) \in DOMAIN sessions' /\ sessions'[Key(p)].age = 0
             /\ out.reply.type = "ACK" =>
                  out.reply.sequence \in sessions'[Key(p)].receiver.stored
    BY <1>1, PacketHome
  <1>4. out.reply.type \notin Requests
    <2>1. SessionsPromise /\ IInv /\ FInv(Units)
      BY PromisesAre DEF TInv
    <2> QED BY <1>1, <2>1, ReceivePromises
  <1>5. ASSUME running PROVE Attended(sessions)'
    <2>1. Attended(sessions')
      BY <1>3, <1>5, UpkeepKeeps DEF HInv
    <2> DEFINE m == Reply(p, out.reply)
    <2>2. net' \subseteq net \cup {m}
      BY <1>1 DEF Taken
    <2>3. /\ m.type = out.reply.type /\ <<m.to, m.session_id>> = Key(p)
          /\ m.sequence = out.reply.sequence
      BY DEF Reply, Key
    <2> HIDE DEF m
    <2>4. m.type \in Grants => Granted(m, sessions')
      BY <1>3, <2>3 DEF Granted
    <2>5. m.type \notin {"DATA", "FIN"}
      BY <1>4, <2>3 DEF Requests
    <2>6. \A u \in Transfers : AtHome(u, sender'[u], sessions')
      BY <1>2, <2>1 DEF Attended
    <2>7. \A q \in net' : q.type \in {"DATA", "FIN"} =>
            \A u \in Transfers : Key(q) = Home(u) => Reachable(u, sender'[u], sessions')
      BY <1>2, <2>1, <2>2, <2>5 DEF Attended
    <2>8. \A q \in net' : q.type \in Grants => Granted(q, sessions')
      BY <2>1, <2>2, <2>4 DEF Attended
    <2> QED BY <2>6, <2>7, <2>8 DEF Attended
  <1>6. \A u \in Transfers : Unsent(sender'[u])
    BY <1>2 DEF HInv
  <1> QED BY <1>3, <1>5, <1>6 DEF HInv

\* The sweep spares whoever a sender may still call, a stopped server is nobody's
\* home, and a START turned away changes nothing.
LEMMA QuietHome ==
  ASSUME NEW Units, OwnClients(Units), Outlasted, TInv(Units), HInv, sender' = sender,
         \/ /\ net' \subseteq net
            /\ Sweep \/ Shutdown \/ Crash \/ Restart \/ UNCHANGED vars
         \/ \E p \in Packets : ServerRefuse(p)
  PROVE  HInv'
  <1>1. \A k \in DOMAIN sessions : sessions[k].age \in Nat /\ sessions[k].age <= sessions[k].age
    <2>1. \A k \in DOMAIN sessions : sessions[k].age \in Nat
      BY AgesNat
    <2> QED BY <2>1
  <1>2. \A u \in Transfers : Unsent(sender'[u])
    BY DEF HInv
  <1>3. starts \in 1 .. MaxStarts /\ MaxStarts = 1
    BY DEF TInv, IInv, TypeOK, Outlasted
  <1>4. CASE Shutdown
    <2>1. DOMAIN sessions' = {} /\ running' = FALSE
      BY <1>4, NoEntries DEF Shutdown
    <2> QED BY <1>2, <2>1 DEF HInv
  <1>5. CASE Crash \/ Restart
    <2>1. starts < MaxStarts
      BY <1>5 DEF Crash, Restart
    <2> QED BY <1>3, <2>1
  <1>6. ASSUME NEW new, sessions' = new, running' = running,
               DOMAIN new \subseteq DOMAIN sessions,
               \A k \in DOMAIN new : new[k] = sessions[k],
               \A k \in DOMAIN sessions : sessions[k].age <= Budget => k \in DOMAIN new,
               \A m \in net' : m \in net \/ m.type = "ERROR"
        PROVE  HInv'
    <2>1. Upkept(sessions, new)
      BY <1>1, <1>6 DEF Upkept
    <2>2. ASSUME running PROVE Attended(sessions)'
      <3>1. Attended(new)
        BY <2>1, <2>2, UpkeepKeeps DEF HInv
      <3>2. \A m \in net' : m.type \in {"DATA", "FIN"} \cup Grants => m \in net
        BY <1>6 DEF Grants
      <3>3. /\ \A u \in Transfers : AtHome(u, sender'[u], new)
            /\ \A q \in net' : q.type \in {"DATA", "FIN"} =>
                 \A u \in Transfers : Key(q) = Home(u) => Reachable(u, sender'[u], new)
            /\ \A q \in net' : q.type \in Grants => Granted(q, new)
        BY <3>1, <3>2 DEF Attended
      <3> QED BY <1>6, <3>3 DEF Attended
    <2>3. \A k \in DOMAIN sessions' : sessions'[k].receiver.final_reply.type \notin Grants
      BY <1>6 DEF HInv
    <2> QED BY <1>2, <1>6, <2>2, <2>3 DEF HInv
  <1>7. CASE net' \subseteq net /\ Sweep
    <2> DEFINE gone == {k \in DOMAIN sessions : Overdue(k)}
               kept == Without(sessions, gone)
    <2>1. sessions' = kept /\ running' = running
      BY <1>7 DEF Sweep, process
    <2>2. DOMAIN kept = DOMAIN sessions \ gone /\ \A k \in DOMAIN kept : kept[k] = sessions[k]
      BY DEF Without
    <2>3. \A k \in DOMAIN sessions : sessions[k].age <= Budget => ~ Overdue(k)
      <3> SUFFICES ASSUME NEW k \in DOMAIN sessions, sessions[k].age <= Budget
                   PROVE  ~ Overdue(k)
        OBVIOUS
      <3>1. Budget \in Nat /\ sessions[k].age \in Nat
        BY <1>1, TimeSpent
      <3> QED BY <3>1, ServerAssumption DEF Overdue, Outlasted
    <2>4. \A k \in DOMAIN sessions : sessions[k].age <= Budget => k \in DOMAIN kept
      BY <2>2, <2>3
    <2> HIDE DEF kept
    <2> QED BY <1>6, <1>7, <2>1, <2>2, <2>4
  <1>8. CASE net' \subseteq net /\ UNCHANGED vars
    <2>1. sessions' = sessions /\ running' = running
      BY <1>8 DEF vars
    <2> QED BY <1>6, <1>8, <2>1
  <1>9. CASE \E p \in Packets : ServerRefuse(p)
    <2>1. PICK p \in Packets : ServerRefuse(p)
      BY <1>9
    <2>2. sessions' = sessions /\ running' = running
      BY <2>1 DEF ServerRefuse, Refuse, process
    <2> DEFINE m == Reply(p, ErrorReply("kServerBusy", p.sequence))
    <2>3. net' \subseteq net \cup {m} /\ m.type = "ERROR"
      BY <2>1 DEF ServerRefuse, Taken, Reply, ErrorReply
    <2> HIDE DEF m
    <2> QED BY <1>6, <2>2, <2>3
  <1> QED BY <1>4, <1>5, <1>7, <1>8, <1>9


\* A packet in flight grows older, and its timer has not run out.
LEMMA WaitingOlder ==
  ASSUME NEW f \in [age : 0 .. Rto, attempts : 1 .. MaxRetries], ~ (f.age >= Rto)
  PROVE  /\ Waiting(f) \in [age : 0 .. Rto, attempts : 1 .. MaxRetries]
         /\ Waiting(f).age = f.age + 1 /\ Waiting(f).attempts = f.attempts
  <1>1. /\ f = [age |-> f.age, attempts |-> f.attempts]
        /\ f.age \in 0 .. Rto /\ f.attempts \in 1 .. MaxRetries
    OBVIOUS
  <1>2. f.age < Rto /\ f.age + 1 \in 0 .. Rto
    BY <1>1, SenderAssumption
  <1>3. Waiting(f) = [age |-> f.age + 1, attempts |-> f.attempts]
    BY <1>1, <1>2 DEF Waiting
  <1> QED BY <1>1, <1>2, <1>3

\* Time passes alike for the sessions and for those who wait for them.
LEMMA TimeHome ==
  ASSUME NEW Units, OwnClients(Units), Outlasted, TInv(Units), HInv, Time
  PROVE  HInv'
  <1>1. /\ net = {} /\ net' = {} /\ \A t \in Transfers : ~ Ripe(t)
        /\ sender' = [t \in Transfers |-> Aged(sender[t])]
        /\ Tick \/ (~ running /\ UNCHANGED vars)
    BY DEF Time, Outlasted
  <1>2. /\ running' = running /\ DOMAIN sessions' = DOMAIN sessions
        /\ \A k \in DOMAIN sessions : sessions'[k].receiver = sessions[k].receiver
        /\ running => \A k \in DOMAIN sessions : sessions'[k] = Older(sessions[k])
    <2>1. CASE Tick
      <3>1. /\ running' = running /\ DOMAIN sessions' = DOMAIN sessions
            /\ \A k \in DOMAIN sessions : sessions'[k] = Older(sessions[k])
        BY <2>1 DEF Tick, process
      <3>2. \A k \in DOMAIN sessions : EntryOK(k, sessions[k])
        BY DEF TInv, IInv, TableOK
      <3> QED BY <3>1, <3>2, EntryOlder
    <2>2. CASE ~ running /\ UNCHANGED vars
      BY <2>2 DEF vars
    <2> QED BY <1>1, <2>1, <2>2
  <1>3. ASSUME NEW t \in Transfers
        PROVE  LET s == sender[t]
                   x == sender'[t]
               IN /\ x.phase = s.phase /\ x.attempt = s.attempt /\ x.next = s.next
                  /\ s.phase = "fin" => x.waited = s.waited + 1
                  /\ DOMAIN x.in_flight = DOMAIN s.in_flight
                  /\ \A q \in DOMAIN s.in_flight :
                       x.in_flight[q] = Waiting(s.in_flight[q])
    <2> DEFINE s == sender[t]
               x == sender'[t]
               w == IF s.phase \in {"start", "fin"} /\ s.waited < Rto
                    THEN s.waited + 1 ELSE s.waited
               f == [q \in DOMAIN s.in_flight |-> Waiting(s.in_flight[q])]
    <2>1. SenderOK(t, s) /\ WindowOK(t, s)
      BY DEF TInv, SendersOK, SenderOK
    <2>2. x = [s EXCEPT !.waited = w, !.in_flight = f]
      <3>1. sender'[t] = Aged(sender[t])
        BY <1>1
      <3>2. Aged(sender[t]) = [s EXCEPT !.waited = w, !.in_flight = f]
        BY DEF Aged
      <3> QED BY <3>1, <3>2
    <2>3. /\ DOMAIN f = DOMAIN s.in_flight
          /\ \A q \in DOMAIN s.in_flight : f[q] = Waiting(s.in_flight[q])
      OBVIOUS
    <2>4. s.phase = "fin" => w = s.waited + 1
      <3>1. s.phase = "fin" => ~ (s.waited >= Rto)
        BY <1>1 DEF Ripe, Controlling
      <3>2. s.waited \in 0 .. Rto
        BY <2>1 DEF WindowOK
      <3> HIDE DEF s
      <3> QED BY <3>1, <3>2, SenderAssumption
    <2> HIDE DEF w, f
    <2>5. /\ x.phase = s.phase /\ x.attempt = s.attempt /\ x.next = s.next
          /\ x.waited = w /\ x.in_flight = f
      BY <2>1, <2>2 DEF WindowOK, SenderParts
    <2> HIDE DEF s, x
    <2> QED BY <2>3, <2>4, <2>5 DEF s, x
  <1>4. ASSUME NEW t \in Transfers PROVE Unsent(sender'[t])
    <2>1. Unsent(sender[t])
      BY DEF HInv
    <2> QED BY <1>3, <2>1 DEF Unsent
  <1>5. ASSUME running, NEW t \in Transfers PROVE AtHome(t, sender'[t], sessions')
    <2> DEFINE s == sender[t]
               x == sender'[t]
               k == Home(t)
               e == sessions[k]
               y == sessions'[k]
    <2>1. SenderOK(t, s) /\ WindowOK(t, s) /\ AtHome(t, s, sessions)
      BY <1>5 DEF TInv, SendersOK, SenderOK, HInv, Attended
    <2>2. /\ x.phase = s.phase /\ x.attempt = s.attempt /\ x.next = s.next
          /\ s.phase = "fin" => x.waited = s.waited + 1
          /\ DOMAIN x.in_flight = DOMAIN s.in_flight
          /\ \A q \in DOMAIN s.in_flight : x.in_flight[q] = Waiting(s.in_flight[q])
      BY <1>3
    <2>3. k \in DOMAIN sessions =>
            /\ k \in DOMAIN sessions' /\ y.receiver = e.receiver
            /\ e.age \in Nat /\ y.age \in Nat /\ y.age <= e.age + 1
      <3> SUFFICES ASSUME k \in DOMAIN sessions
                   PROVE  /\ k \in DOMAIN sessions' /\ y.receiver = e.receiver
                          /\ e.age \in Nat /\ y.age \in Nat /\ y.age <= e.age + 1
        OBVIOUS
      <3>1. EntryOK(k, e) /\ e.age \in Nat
        BY AgesNat DEF TInv, IInv, TableOK
      <3>2. y = Older(e) /\ k \in DOMAIN sessions' /\ y.receiver = e.receiver
        BY <1>2, <1>5
      <3>3. y.age = e.age \/ y.age = e.age + 1
        <4>1. e = [m \in {"receiver", "lingering", "age"} |-> e[m]]
          BY <3>1 DEF EntryOK
        <4> HIDE DEF e, y
        <4> QED BY <3>2, <4>1 DEF Older
      <3> HIDE DEF e, y
      <3> QED BY <3>1, <3>2, <3>3
    <2> HIDE DEF s, x
    <2>4. Stored(s, e) /\ y.receiver = e.receiver => Stored(x, y)
      BY <2>2 DEF Stored
    <2>5. CASE s.phase = "data"
      <3>1. /\ k \in DOMAIN sessions /\ Stored(s, e) /\ Prompt(s, e)
            /\ Fillable(t, s) = {}
        BY <2>1, <2>5 DEF AtHome
      <3>2. Prompt(x, y)
        <4> SUFFICES ASSUME NEW q \in DOMAIN s.in_flight
                     PROVE  /\ x.in_flight[q] \in [age : 0 .. Rto,
                                                  attempts : 1 .. MaxRetries]
                            /\ y.age <= Spent(x.in_flight[q].attempts - 1,
                                              x.in_flight[q].age)
          BY <2>2 DEF Prompt
        <4> DEFINE f == s.in_flight[q]
                   a == f.attempts - 1
                   w == f.age
        <4>1. /\ f \in [age : 0 .. Rto, attempts : 1 .. MaxRetries]
              /\ e.age <= Spent(a, w)
          BY <3>1 DEF Prompt
        <4>2. ~ (f.age >= Rto)
          <5>1. Expired(sender[t]) = {}
            BY <1>1, <2>5 DEF Ripe, s
          <5> QED BY <5>1 DEF Expired, s
        <4>3. /\ x.in_flight[q] \in [age : 0 .. Rto, attempts : 1 .. MaxRetries]
              /\ x.in_flight[q].age = w + 1 /\ x.in_flight[q].attempts = f.attempts
          BY <2>2, <4>1, <4>2, WaitingOlder
        <4>4. a \in Nat /\ w \in Nat
          BY <4>1, SenderAssumption
        <4>5. y.age <= Spent(a, w + 1)
          <5> HIDE DEF a, w, e, y
          <5>1. Spent(a, w + 1) = Spent(a, w) + 1 /\ Spent(a, w) \in Nat
            BY <4>4, TimeSpent
          <5> QED BY <2>3, <3>1, <4>1, <5>1
        <4> QED BY <4>3, <4>5
      <3>3. Oldest(x) = Oldest(s)
        BY <2>2 DEF Oldest
      <3>4. Fillable(t, x) = {}
        BY <2>2, <3>1, <3>3 DEF Fillable
      <3> QED BY <2>2, <2>3, <2>4, <2>5, <3>1, <3>2, <3>4 DEF AtHome, x
    <2>6. CASE s.phase = "fin" /\ Spent(x.attempt, x.waited) <= Budget
      <3> DEFINE a == s.attempt
                 w == s.waited
      <3>1. a \in Nat /\ w \in Nat
        BY <2>1, SenderAssumption DEF WindowOK
      <3>2. x.attempt = a /\ x.waited = w + 1
        BY <2>2, <2>6
      <3> HIDE DEF a, w
      <3>3. Spent(a, w + 1) = Spent(a, w) + 1 /\ Spent(a, w) \in Nat /\ Budget \in Nat
        BY <3>1, TimeSpent
      <3>4. Spent(a, w) <= Budget
        BY <2>6, <3>2, <3>3
      <3>5. k \in DOMAIN sessions /\ Stored(s, e) /\ e.age <= Spent(a, w)
        BY <2>1, <2>6, <3>4 DEF AtHome, a, w
      <3>6. y.age <= Spent(x.attempt, x.waited)
        <4> HIDE DEF e, y
        <4> QED BY <2>3, <3>2, <3>3, <3>5
      <3> QED BY <2>2, <2>3, <2>4, <2>6, <3>5, <3>6 DEF AtHome, x
    <2> QED BY <2>2, <2>5, <2>6 DEF AtHome, x
  <1>6. ASSUME running PROVE Attended(sessions)'
    BY <1>1, <1>5, <1>6 DEF Attended
  <1>7. \A k \in DOMAIN sessions' : sessions'[k].receiver.final_reply.type \notin Grants
    BY <1>2 DEF HInv
  <1> QED BY <1>2, <1>4, <1>6, <1>7 DEF HInv

\* Every step of the system keeps the invariant.
LEMMA HomeStep ==
  ASSUME NEW Units, OwnClients(Units), Outlasted, TInv(Units), HInv,
         [TransferNext]_system
  PROVE  HInv'
  <1>1. ToServer \subseteq Packets
    BY DEF ToServer, TInv, Promises, Requests
  <1>2. \A m : Taken(m) \subseteq net
    BY DEF Taken
  <1>3. CASE \E p \in ToServer : ServerReceive(p)
    BY <1>1, <1>3, ServerHome
  <1>4. CASE \E p \in ToServer : ServerRefuse(p)
    <2>1. sender' = sender /\ \E p \in Packets : ServerRefuse(p)
      BY <1>1, <1>4 DEF ServerRefuse
    <2> QED BY <2>1, QuietHome
  <1>5. CASE \/ \E p \in ToServer : ServerIgnore(p)
             \/ \E t \in Transfers : \E m \in ToClient(t) : Unread(t, m)
             \/ \E m \in net : Lose(m)
             \/ ServerSweep \/ ServerStop \/ ServerCrash \/ ServerRestart
             \/ UNCHANGED system
    <2>1. /\ sender' = sender /\ net' \subseteq net
          /\ Sweep \/ Shutdown \/ Crash \/ Restart \/ UNCHANGED vars
      <3>1. CASE \E p \in ToServer : ServerIgnore(p)
        BY <1>2, <3>1 DEF ServerIgnore, Ignore
      <3>2. CASE \E t \in Transfers : \E m \in ToClient(t) : Unread(t, m)
        BY <1>2, <3>2 DEF Unread
      <3>3. CASE \E m \in net : Lose(m)
        BY <3>3 DEF Lose
      <3>4. CASE ServerSweep \/ ServerStop \/ ServerCrash \/ ServerRestart
        BY <3>4 DEF ServerSweep, ServerStop, ServerCrash, ServerRestart
      <3>5. CASE UNCHANGED system
        BY <3>5 DEF system
      <3> QED BY <1>5, <3>1, <3>2, <3>3, <3>4, <3>5
    <2> QED BY <2>1, QuietHome
  <1>6. CASE \E t \in Transfers :
               \/ SenderBegin(t) \/ SenderTimeout(t) \/ SenderFailure(t)
               \/ \E m \in ToClient(t) : SenderReceive(t, m)
    BY <1>6, SendersHome
  <1>7. CASE Time
    BY <1>7, TimeHome
  <1> QED BY <1>3, <1>4, <1>5, <1>6, <1>7 DEF TransferNext, Delivery

\* On a timely network, with time-outs at the server no shorter than the senders'
\* whole retry budget, room for all and nobody killing it: however often DATA and FIN
\* are lost and repeated, each finds the session it is for, and that session has
\* stored what its sender no longer keeps.
THEOREM RetriesFindSession ==
  ASSUME NEW Units, OwnClients(Units), Outlasted
  PROVE  TransferSpec => []SomebodyHome
  <1>1. TransferInit => HInv
    <2> SUFFICES ASSUME TransferInit PROVE HInv
      OBVIOUS
    <2>1. /\ sender = [t \in Transfers |-> Idle] /\ net = {} /\ DOMAIN sessions = {}
      BY NoEntries DEF TransferInit, SenderInit, Init
    <2>2. Idle.phase = "idle" /\ Idle.next = 0 /\ DOMAIN Idle.in_flight = {}
      BY NoEntries DEF Idle
    <2>3. \A t \in Transfers : AtHome(t, Idle, sessions) /\ Unsent(Idle)
      BY <2>2 DEF AtHome, Unsent
    <2> QED BY <2>1, <2>3 DEF HInv, Attended
  <1>2. TInv(Units) /\ HInv /\ [TransferNext]_system => HInv'
    BY HomeStep
  <1>3. TInv(Units) /\ HInv => SomebodyHome
    <2> SUFFICES ASSUME TInv(Units), HInv, running, NEW t \in Transfers, NEW p \in ToServer,
                        p.type \in {"DATA", "FIN"}, Key(p) = Key(StartPacket(t))
                 PROVE  /\ Key(p) \in DOMAIN sessions
                        /\ Acked(t) \subseteq sessions[Key(p)].receiver.stored
      BY DEF SomebodyHome
    <2> DEFINE s == sender[t]
    <2>1. Key(p) = Home(t) /\ p \in net
      BY DEF Key, StartPacket, Home, ToServer
    <2>2. Reachable(t, s, sessions) /\ AtHome(t, s, sessions)
      BY <2>1 DEF HInv, Attended
    <2>3. Home(t) \in DOMAIN sessions
      BY <2>2 DEF Reachable
    <2>4. CASE s.phase \notin {"data", "fin"}
      BY <2>1, <2>3, <2>4 DEF Acked
    <2>5. CASE s.phase = "data"
      <3>1. Stored(s, sessions[Home(t)])
        BY <2>2, <2>5 DEF AtHome
      <3> QED BY <2>1, <2>3, <2>5, <3>1 DEF Acked, Stored
    <2>6. CASE s.phase = "fin"
      <3>1. s.waited = 0
        BY <2>2, <2>6 DEF Reachable
      <3>2. s.attempt \in Nat /\ s.attempt <= MaxRetries
        BY SenderAssumption DEF TInv, SendersOK, SenderOK, WindowOK
      <3>3. Spent(s.attempt, 0) <= Budget
        BY <3>2, TimeSpent
      <3>4. Stored(s, sessions[Home(t)])
        BY <2>2, <2>6, <3>1, <3>3 DEF AtHome
      <3> QED BY <2>1, <2>3, <2>6, <3>4 DEF Acked, Stored
    <2> QED BY <2>4, <2>5, <2>6
  <1> QED BY <1>1, <1>2, <1>3, SystemInOrder, PTL DEF TransferSpec
=============================================================================
