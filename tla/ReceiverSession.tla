-------------------------- MODULE ReceiverSession --------------------------
(***************************************************************************)
(* swiftlink::transfer::ReceiverSession (receiver_session.cpp): the state  *)
(* machine of one incoming transfer.  The class owns no socket; a driver   *)
(* (the epoll server, or the blocking receiver) hands it packets and       *)
(* transmits what it replies.  It is therefore modelled as operators on a  *)
(* session record and a disk, each returning the set of outcomes           *)
(* [session, disk, reply] that handling one packet can have.               *)
(*                                                                         *)
(* The receive window appears as the set of stored sequence numbers:       *)
(* ReceiverWindow!RingExact shows that the ring is an exact encoding of it.*)
(* A SHA-256 digest appears as the contents it is the digest of.           *)
(***************************************************************************)
EXTENDS Disk, FiniteSets

CONSTANTS WindowSize,   \* ServerConfig::window_size, the receive window
          SafeNames,    \* the names sanitize_filename accepts
          Faults        \* the file operations that may fail

ASSUME SessionAssumption ==
  /\ WindowSize \in Nat \ {0}
  /\ Faults \subseteq {"open", "write", "sync", "read", "rename"}

NoPath == <<>>

\* A bare file name is a sequence of parts: <<"f">>, or the three of a partial
\* file's name, which is built from the session id alone.
PartialName(session_id) == <<".swiftlink-", session_id, ".partial">>

\* join_path: every file of every session is in the one output directory.
join_path(name) == <<"output_directory", name>>

OutputPath(name) == join_path(name)
TempPath(session_id) == join_path(PartialName(session_id))

\* A path is a sequence of components.  Only the last one survives; the name
\* is refused if that one is not an acceptable bare file name.  (A name of the
\* form of a partial file's is acceptable: SafeNames may hold some.)
IsSafe(raw) == raw # <<>> /\ raw[Len(raw)] \in SafeNames
sanitize_filename(raw) == raw[Len(raw)]

NoReply == [type |-> "none", sequence |-> 0, status |-> "kOk"]
Answer(type, sequence) == [type |-> type, sequence |-> sequence, status |-> "kOk"]
ErrorReply(status, sequence) ==
  [type |-> "ERROR", sequence |-> sequence, status |-> status]

\* The constructor.
NewSession ==
  [started |-> FALSE, finished |-> FALSE, published |-> FALSE,
   error |-> "kNone", session_id |-> 0,
   output_path |-> NoPath, temp_path |-> NoPath, file |-> Closed,
   declared_size |-> 0, bytes_written |-> 0, stored |-> {},
   final_reply |-> NoReply]

Outcome(session, disk, reply) ==
  [session |-> session, disk |-> disk, reply |-> reply]

\* Some outcomes only exist when the operation may fail.
IfFaulty(operation, outcome) == IF operation \in Faults THEN {outcome} ELSE {}

\* fail: settle on an ERROR, which is kept to be replayed.
fail(session, disk, status, error, sequence) ==
  LET reply == ErrorReply(status, sequence)
  IN Outcome([session EXCEPT !.error = error, !.finished = TRUE,
                             !.final_reply = reply], disk, reply)

on_start(session, disk, p) ==
  LET known == [session EXCEPT !.session_id = p.session_id]
      placed == [known EXCEPT
                   !.output_path = OutputPath(sanitize_filename(p.payload)),
                   !.temp_path = TempPath(p.session_id)]
      refused == fail(placed, disk, "kFileOpenFailed", "kFileOpenFailed",
                      p.sequence)
      opened == [placed EXCEPT !.file = InodeFor(disk, placed.temp_path),
                               !.declared_size = p.offset, !.started = TRUE]
  IN IF session.started THEN
       {IF p.session_id = session.session_id
        THEN Outcome(session, disk, Answer("START_ACK", p.sequence))
        ELSE fail(session, disk, "kUnknownSession", "kProtocolViolation",
                  p.sequence)}
     ELSE IF ~ IsSafe(p.payload) THEN
       {fail(known, disk, "kInvalidFilename", "kInvalidFilename", p.sequence)}
     ELSE IfFaulty("open", refused) \cup
     IF ~ CanOpen(disk, placed.temp_path) THEN {refused}
     ELSE {Outcome(opened, open_write(disk, placed.temp_path),
                   Answer("START_ACK", p.sequence))}

\* ReceiverWindow::base(): the oldest chunk not stored.
Base(stored) ==
  CHOOSE b \in 0 .. Cardinality(stored) :
    b \notin stored /\ \A s \in 0 .. b - 1 : s \in stored

on_data(session, disk, p) ==
  LET ack == Answer("ACK", p.sequence)
      written == [session EXCEPT !.stored = @ \cup {p.sequence},
                                 !.bytes_written = @ + Len(p.payload)]
  IN IF p.sequence \in session.stored THEN
       {Outcome(session, disk, ack)}
     ELSE IF p.sequence >= Base(session.stored) + WindowSize THEN
       {Outcome(session, disk, NoReply)}
     ELSE IF p.offset + Len(p.payload) > session.declared_size THEN
       {fail(session, disk, "kSizeMismatch", "kSizeMismatch", p.sequence)}
     ELSE
       {Outcome(written, write_at(disk, session.file, p.payload, p.offset), ack)}
       \cup IfFaulty("write", fail(session, disk, "kInternalError",
                                   "kFileWriteFailed", p.sequence))

\* Mutant: a FIN is taken at its word.
on_fin_trusting(session, disk, p) ==
  {Outcome([session EXCEPT !.published = TRUE, !.finished = TRUE,
                           !.final_reply = Answer("FIN_ACK", p.sequence)],
           rename(disk, session.temp_path, session.output_path),
           Answer("FIN_ACK", p.sequence))}

on_fin(session, disk, p) ==
  LET contents == read_at(disk, session.file, session.bytes_written)
      broken == fail(session, disk, "kInternalError", "kFileWriteFailed",
                     p.sequence)
      reply == Answer("FIN_ACK", p.sequence)
      published == [session EXCEPT !.published = TRUE, !.finished = TRUE,
                                   !.final_reply = reply]
  IN IF p.offset # session.bytes_written THEN
       {fail(session, disk, "kSizeMismatch", "kSizeMismatch", p.sequence)}
     ELSE IfFaulty("sync", broken) \cup IfFaulty("read", broken) \cup
     IF Len(contents) # session.bytes_written THEN {broken}
     ELSE IF p.payload # contents THEN
       {fail(session, disk, "kIntegrityCheckFailed", "kIntegrityFailed",
             p.sequence)}
     ELSE IfFaulty("rename", broken) \cup
     IF ~ Exists(disk, session.temp_path) THEN {broken}
     ELSE {Outcome(published,
                   rename(disk, session.temp_path, session.output_path), reply)}

\* Mutant: a refused START is answered once.
Replays_fin_only(session, p) ==
  /\ p.session_id = session.session_id
  /\ session.final_reply # NoReply
  /\ p.type = "FIN"

\* The replay rule for a session that has settled: a FIN_ACK answers a FIN, an
\* ERROR answers a START or a FIN, anything else gets silence.
Replays(session, p) ==
  /\ p.session_id = session.session_id
  /\ session.final_reply # NoReply
  /\ IF session.final_reply.type = "ERROR"
     THEN p.type \in {"START", "FIN"} ELSE p.type = "FIN"

\* Mutant: a late DATA is handled although the session has settled.
handle_packet_late_data(session, disk, p) ==
  IF p.type = "DATA" /\ session.started THEN on_data(session, disk, p)
  ELSE IF session.finished THEN
    {Outcome(session, disk,
             IF Replays(session, p) THEN session.final_reply ELSE NoReply)}
  ELSE IF p.type = "START" THEN on_start(session, disk, p)
  ELSE IF ~ session.started THEN
    {fail(session, disk, "kUnknownSession", "kProtocolViolation", p.sequence)}
  ELSE on_fin(session, disk, p)

handle_packet(session, disk, p) ==
  IF session.finished THEN
    {Outcome(session, disk,
             IF Replays(session, p) THEN session.final_reply ELSE NoReply)}
  ELSE IF p.type = "START" THEN on_start(session, disk, p)
  ELSE IF ~ session.started \/ p.session_id # session.session_id THEN
    {fail(session, disk, "kUnknownSession", "kProtocolViolation", p.sequence)}
  ELSE IF p.type = "DATA" THEN on_data(session, disk, p)
  ELSE IF p.type = "FIN" THEN on_fin(session, disk, p)
  ELSE {Outcome(session, disk, NoReply)}

\* Mutant: the descriptor is kept.
close_file_never(session) == session

\* close_file().
close_file(session) == [session EXCEPT !.file = Closed]

\* Mutant: the partial file is left behind.
Leftover_kept(session) == {}

\* Mutant: the published file is removed as well.
Leftover_all(session) == {session.temp_path, session.output_path}

\* ~ReceiverSession: what a session that goes away unlinks.
Leftover(session) ==
  IF session.published \/ session.temp_path = NoPath
  THEN {} ELSE {session.temp_path}
=============================================================================
