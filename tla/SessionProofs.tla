--------------------------- MODULE SessionProofs ---------------------------
(***************************************************************************)
(* What the proofs of the epoll server and of the blocking receiver share: *)
(* what handle_packet can do to a session and its directory, what each     *)
(* operation of the directory does to the names and the contents, and what *)
(* a step of send_file does, whoever is at the other end.                  *)
(***************************************************************************)
EXTENDS Sender, ReceiverSession, RingArithmetic, FiniteSetTheorems,
        SequenceTheorems, TLAPS

\* What clients send.
Requests == {"START", "DATA", "FIN"}

\* A session record: it has these members, whatever their values.
Members ==
  {"started", "finished", "published", "error", "session_id", "output_path",
   "temp_path", "file", "declared_size", "bytes_written", "stored", "final_reply"}
Shaped(r) == r = [m \in Members |-> r[m]]

\* What the directory and the descriptors depend on.
SameFile(s, r) ==
  /\ r.session_id = s.session_id /\ r.started = s.started
  /\ r.output_path = s.output_path /\ r.temp_path = s.temp_path
  /\ r.file = s.file /\ r.declared_size = s.declared_size

\* The ways handle_packet can turn out, by what they do to session and directory:
\* nothing; the session fails; it writes; it publishes; it opens its file, or not.
\* An ERROR goes out exactly when the session fails, a FIN_ACK when it publishes.
Fails(s, d, out) ==
  /\ SameFile(s, out.session) /\ out.disk = d
  /\ out.session.finished = TRUE /\ out.session.published = s.published
  /\ out.session.error \notin {"none", "kNone"} /\ out.reply.type = "ERROR"

Writes(s, d, p, out) ==
  /\ SameFile(s, out.session)
  /\ out.session.finished = s.finished /\ out.session.published = s.published
  /\ out.session.error = s.error /\ out.reply.type = "ACK"
  /\ p.type = "DATA" /\ p.session_id = s.session_id
  /\ ~ (p.offset + Len(p.payload) > s.declared_size)
  /\ out.disk = write_at(d, s.file, p.payload, p.offset)

Publishes(s, d, p, out) ==
  /\ SameFile(s, out.session)
  /\ out.session.finished = TRUE /\ out.session.published = TRUE
  /\ out.session.error = s.error /\ out.reply = Answer("FIN_ACK", p.sequence)
  /\ p.type = "FIN" /\ p.session_id = s.session_id /\ p.offset = s.bytes_written
  /\ p.payload = read_at(d, s.file, s.bytes_written)
  /\ Len(p.payload) = s.bytes_written
  /\ Exists(d, s.temp_path)
  /\ out.disk = rename(d, s.temp_path, s.output_path)

Opens(d, p, out) ==
  /\ IsSafe(p.payload) /\ CanOpen(d, TempPath(p.session_id))
  /\ out.session.started = TRUE /\ out.session.finished = FALSE
  /\ out.session.error = "kNone" /\ out.reply.type = "START_ACK"
  /\ out.session.temp_path = TempPath(p.session_id)
  /\ out.session.output_path = OutputPath(sanitize_filename(p.payload))
  /\ out.session.declared_size = p.offset
  /\ out.session.file = InodeFor(d, TempPath(p.session_id))
  /\ out.disk = open_write(d, TempPath(p.session_id))

OpenFails(d, p, out) ==
  /\ out.session.finished = TRUE
  /\ out.session.error \notin {"none", "kNone"} /\ out.reply.type = "ERROR"
  /\ out.session.temp_path \in {NoPath, TempPath(p.session_id)}
  /\ out.session.file = Closed
  /\ out.disk = d

\* No reply, or one that settles nothing.
Routine(reply) == reply = NoReply \/ reply.type \in {"START_ACK", "ACK"}

\* fail keeps the shape of the session and all that concerns its file.
LEMMA FailCase ==
  ASSUME NEW s, Shaped(s), NEW d, NEW status, NEW error, NEW q,
         error \notin {"none", "kNone"}
  PROVE  /\ Shaped(fail(s, d, status, error, q).session)
         /\ Fails(s, d, fail(s, d, status, error, q))
  BY DEF fail, Outcome, Shaped, Members, SameFile, Fails, ErrorReply

\* The outcomes of a START for a new session.
LEMMA StartCases ==
  ASSUME NEW d, NEW p, p.type = "START", NEW out \in handle_packet(NewSession, d, p)
  PROVE  /\ Shaped(out.session)
         /\ out.session.session_id = p.session_id /\ out.session.published = FALSE
         /\ Opens(d, p, out) \/ OpenFails(d, p, out)
  <1> DEFINE known == [NewSession EXCEPT !.session_id = p.session_id]
             placed == [known EXCEPT
                          !.output_path = OutputPath(sanitize_filename(p.payload)),
                          !.temp_path = TempPath(p.session_id)]
  <1>1. out \in on_start(NewSession, d, p)
    BY DEF handle_packet, NewSession
  <1>2. ~ NewSession.started
    BY DEF NewSession
  <1>3. CASE ~ IsSafe(p.payload)
    <2>1. out = fail(known, d, "kInvalidFilename", "kInvalidFilename", p.sequence)
      BY <1>1, <1>2, <1>3 DEF on_start
    <2>2. Shaped(known) /\ known.session_id = p.session_id /\ known.temp_path = NoPath
          /\ known.published = FALSE /\ known.file = Closed
      BY DEF NewSession, Shaped, Members
    <2> HIDE DEF known
    <2>3. Shaped(out.session) /\ Fails(known, d, out)
      BY <2>1, <2>2, FailCase
    <2> QED BY <2>2, <2>3 DEF Fails, SameFile, OpenFails
  <1>4. CASE IsSafe(p.payload)
    <2>1. \/ /\ CanOpen(d, placed.temp_path)
             /\ out = Outcome([placed EXCEPT !.file = InodeFor(d, placed.temp_path),
                               !.declared_size = p.offset, !.started = TRUE],
                           open_write(d, placed.temp_path),
                           Answer("START_ACK", p.sequence))
          \/ out = fail(placed, d, "kFileOpenFailed", "kFileOpenFailed", p.sequence)
      BY <1>1, <1>2, <1>4 DEF on_start, IfFaulty
    <2>2. /\ Shaped(placed) /\ placed.session_id = p.session_id
          /\ placed.temp_path = TempPath(p.session_id)
          /\ placed.output_path = OutputPath(sanitize_filename(p.payload))
          /\ placed.published = FALSE /\ placed.file = Closed /\ placed.finished = FALSE
          /\ placed.error = "kNone"
      BY DEF NewSession, Shaped, Members
    <2> HIDE DEF placed
    <2>3. CASE out = fail(placed, d, "kFileOpenFailed", "kFileOpenFailed", p.sequence)
      <3>1. Shaped(out.session) /\ Fails(placed, d, out)
        BY <2>2, <2>3, FailCase
      <3> QED BY <2>2, <3>1 DEF Fails, SameFile, OpenFails
    <2>4. CASE out # fail(placed, d, "kFileOpenFailed", "kFileOpenFailed", p.sequence)
      <3> DEFINE opened == [placed EXCEPT !.file = InodeFor(d, placed.temp_path),
                               !.declared_size = p.offset, !.started = TRUE]
      <3>1. /\ Shaped(opened) /\ opened.session_id = placed.session_id
            /\ opened.temp_path = placed.temp_path
            /\ opened.output_path = placed.output_path
            /\ opened.published = FALSE /\ opened.finished = FALSE
            /\ opened.started = TRUE /\ opened.declared_size = p.offset
            /\ opened.file = InodeFor(d, placed.temp_path) /\ opened.error = "kNone"
        BY <2>2 DEF Shaped, Members
      <3> HIDE DEF opened
      <3>2. /\ out.session = opened /\ out.disk = open_write(d, placed.temp_path)
            /\ CanOpen(d, placed.temp_path) /\ out.reply.type = "START_ACK"
        BY <2>1, <2>4 DEF Outcome, Answer, opened
      <3> QED BY <1>4, <2>2, <3>1, <3>2 DEF Opens
    <2> QED BY <2>3, <2>4
  <1> QED BY <1>3, <1>4

\* A session that begins with anything but a START fails.
LEMMA FreshCases ==
  ASSUME NEW d, NEW p, p.type # "START", NEW out \in handle_packet(NewSession, d, p)
  PROVE  Shaped(out.session) /\ Fails(NewSession, d, out)
  <1>1. out = fail(NewSession, d, "kUnknownSession", "kProtocolViolation", p.sequence)
    BY DEF handle_packet, NewSession
  <1>2. Shaped(NewSession)
    BY DEF NewSession, Shaped, Members
  <1> QED BY <1>1, <1>2, FailCase

\* The errors a session that has its file can settle on.
Reasons == {"kProtocolViolation", "kSizeMismatch", "kFileWriteFailed", "kIntegrityFailed"}

\* The outcomes of a packet for a session that has its file or has settled.
LEMMA KnownCases ==
  ASSUME NEW s, Shaped(s), s.finished \/ s.started, NEW d, NEW p,
         NEW out \in handle_packet(s, d, p)
  PROVE  /\ Shaped(out.session)
         /\ \/ /\ out.session = s /\ out.disk = d
               /\ s.finished \/ Routine(out.reply)
            \/ ~ s.finished /\ Fails(s, d, out)
            \/ ~ s.finished /\ Writes(s, d, p, out)
            \/ ~ s.finished /\ Publishes(s, d, p, out)
  <1>1. CASE s.finished
    BY <1>1 DEF handle_packet, Outcome
  <1>2. CASE ~ s.finished /\ p.type = "START"
    <2>1. \/ out = Outcome(s, d, Answer("START_ACK", p.sequence))
          \/ out = fail(s, d, "kUnknownSession", "kProtocolViolation", p.sequence)
      BY <1>2 DEF handle_packet, on_start
    <2> QED BY <1>2, <2>1, FailCase DEF Outcome, Answer, Routine
  <1>3. CASE ~ s.finished /\ p.type = "DATA"
    <2> DEFINE written == [s EXCEPT !.stored = @ \cup {p.sequence},
                                    !.bytes_written = @ + Len(p.payload)]
    <2>1. \/ p.session_id = s.session_id /\ out \in on_data(s, d, p)
          \/ out = fail(s, d, "kUnknownSession", "kProtocolViolation", p.sequence)
      BY <1>3 DEF handle_packet
    <2>2. \/ /\ out.session = s /\ out.disk = d
             /\ Routine(out.reply)
          \/ \E status : \E error \in Reasons : out = fail(s, d, status, error, p.sequence)
          \/ /\ ~ (p.offset + Len(p.payload) > s.declared_size)
             /\ p.session_id = s.session_id
             /\ out = Outcome(written, write_at(d, s.file, p.payload, p.offset),
                              Answer("ACK", p.sequence))
      BY <2>1 DEF on_data, IfFaulty, Outcome, Answer, Routine, Reasons
    <2>3. Shaped(written) /\ SameFile(s, written)
          /\ written.finished = s.finished /\ written.published = s.published
          /\ written.error = s.error
      BY DEF Shaped, SameFile, Members
    <2> HIDE DEF written
    <2>4. CASE out = Outcome(written, write_at(d, s.file, p.payload, p.offset),
                             Answer("ACK", p.sequence))
               /\ ~ (p.offset + Len(p.payload) > s.declared_size)
               /\ p.session_id = s.session_id
      <3>1. /\ out.session = written /\ out.disk = write_at(d, s.file, p.payload, p.offset)
            /\ out.reply.type = "ACK"
        BY <2>4 DEF Outcome, Answer
      <3>2. Writes(s, d, p, out)
        BY <1>3, <2>3, <2>4, <3>1 DEF Writes
      <3> QED BY <1>3, <2>3, <3>1, <3>2
    <2> QED BY <1>3, <2>2, <2>4, FailCase DEF Reasons
  <1>4. CASE ~ s.finished /\ p.type = "FIN"
    <2> DEFINE published == [s EXCEPT !.published = TRUE, !.finished = TRUE,
                                      !.final_reply = Answer("FIN_ACK", p.sequence)]
    <2>1. \/ p.session_id = s.session_id /\ out \in on_fin(s, d, p)
          \/ out = fail(s, d, "kUnknownSession", "kProtocolViolation", p.sequence)
      BY <1>4 DEF handle_packet
    <2>2. \/ \E status : \E error \in Reasons : out = fail(s, d, status, error, p.sequence)
          \/ /\ p.offset = s.bytes_written /\ p.session_id = s.session_id
             /\ p.payload = read_at(d, s.file, s.bytes_written)
             /\ Len(read_at(d, s.file, s.bytes_written)) = s.bytes_written
             /\ Exists(d, s.temp_path)
             /\ out = Outcome(published, rename(d, s.temp_path, s.output_path),
                              Answer("FIN_ACK", p.sequence))
      BY <2>1 DEF on_fin, IfFaulty, Reasons
    <2>3. /\ Shaped(published) /\ SameFile(s, published) /\ published.error = s.error
          /\ published.finished = TRUE /\ published.published = TRUE
      BY DEF Shaped, SameFile, Members
    <2> HIDE DEF published
    <2> QED BY <1>4, <2>2, <2>3, FailCase DEF Publishes, Outcome, Reasons
  <1>5. CASE ~ s.finished /\ p.type \notin {"START", "DATA", "FIN"}
    <2>1. \/ out = Outcome(s, d, NoReply)
          \/ out = fail(s, d, "kUnknownSession", "kProtocolViolation", p.sequence)
      BY <1>5 DEF handle_packet
    <2> QED BY <1>5, <2>1, FailCase DEF Outcome, Routine
  <1> QED BY <1>1, <1>2, <1>3, <1>4, <1>5

\* The replies of a session: none is a request, and a FIN_ACK is either replayed
\* or the answer to the FIN that has just published.
LEMMA ReplyKinds ==
  ASSUME NEW s, Shaped(s), s.final_reply.type \notin Requests, NEW d, NEW p,
         NEW out \in handle_packet(s, d, p)
  PROVE  /\ out.reply.type \notin Requests
         /\ out.session.final_reply.type \notin Requests
         /\ out.reply.type = "FIN_ACK" \/ out.session.final_reply.type = "FIN_ACK" =>
              \/ s.final_reply.type = "FIN_ACK"
              \/ p.type = "FIN" /\ out.disk = rename(d, s.temp_path, s.output_path)
                 /\ ~ s.finished
  <1> DEFINE Mild(r) == r.type \notin Requests /\ r.type # "FIN_ACK"
  <1>1. \A q : /\ Mild(NoReply) /\ Mild(Answer("ACK", q)) /\ Mild(Answer("START_ACK", q))
               /\ Answer("FIN_ACK", q).type = "FIN_ACK"
               /\ \A status : Mild(ErrorReply(status, q))
    BY DEF NoReply, Answer, ErrorReply, Requests
  <1>2. \A x : Shaped(x) => \A status, error, q :
          /\ Mild(fail(x, d, status, error, q).reply)
          /\ Mild(fail(x, d, status, error, q).session.final_reply)
    <2> SUFFICES ASSUME NEW x, Shaped(x), NEW status, NEW error, NEW q
                 PROVE  /\ Mild(fail(x, d, status, error, q).reply)
                        /\ Mild(fail(x, d, status, error, q).session.final_reply)
      OBVIOUS
    <2> DEFINE reply == ErrorReply(status, q)
               y == [x EXCEPT !.error = error, !.finished = TRUE, !.final_reply = reply]
    <2>1. fail(x, d, status, error, q) = Outcome(y, d, reply)
      BY DEF fail
    <2>2. Mild(reply)
      BY <1>1
    <2> HIDE DEF reply, Mild
    <2>3. y.final_reply = reply
      BY DEF Shaped, Members
    <2> HIDE DEF y
    <2> QED BY <2>1, <2>2, <2>3 DEF Outcome
  <1> HIDE DEF Mild
  <1>3. ASSUME Mild(out.reply),
               Mild(out.session.final_reply) \/ out.session.final_reply = s.final_reply
        PROVE  /\ out.reply.type \notin Requests
               /\ out.session.final_reply.type \notin Requests
               /\ out.reply.type # "FIN_ACK"
               /\ out.session.final_reply.type = "FIN_ACK" => s.final_reply.type = "FIN_ACK"
    BY <1>3 DEF Mild
  <1>4. CASE s.finished
    <2>1. out.session = s /\ out.reply \in {s.final_reply, NoReply}
      BY <1>4 DEF handle_packet, Outcome
    <2> QED BY <1>1, <2>1 DEF Mild
  <1>5. CASE ~ s.finished /\ p.type = "START"
    <2> DEFINE known == [s EXCEPT !.session_id = p.session_id]
               placed == [known EXCEPT
                            !.output_path = OutputPath(sanitize_filename(p.payload)),
                            !.temp_path = TempPath(p.session_id)]
               opened == [placed EXCEPT !.file = InodeFor(d, placed.temp_path),
                            !.declared_size = p.offset, !.started = TRUE]
    <2>1. /\ Shaped(known) /\ Shaped(placed)
          /\ opened.final_reply = s.final_reply
      BY DEF Shaped, Members
    <2>2. \/ out = Outcome(s, d, Answer("START_ACK", p.sequence))
          \/ out = Outcome(opened, open_write(d, placed.temp_path),
                           Answer("START_ACK", p.sequence))
          \/ \E x \in {s, known, placed} : \E status, error :
               out = fail(x, d, status, error, p.sequence)
      BY <1>5 DEF handle_packet, on_start, IfFaulty
    <2> HIDE DEF known, placed, opened
    <2>3. CASE \E x \in {s, known, placed} : \E status, error :
                 out = fail(x, d, status, error, p.sequence)
      BY <1>2, <1>3, <2>1, <2>3
    <2>4. CASE \/ out = Outcome(s, d, Answer("START_ACK", p.sequence))
               \/ out = Outcome(opened, open_write(d, placed.temp_path),
                                Answer("START_ACK", p.sequence))
      <3>1. out.reply = Answer("START_ACK", p.sequence)
            /\ out.session.final_reply = s.final_reply
        BY <2>1, <2>4 DEF Outcome
      <3> QED BY <1>1, <1>3, <3>1
    <2> QED BY <2>2, <2>3, <2>4
  <1>6. CASE ~ s.finished /\ p.type = "DATA"
    <2> DEFINE written == [s EXCEPT !.stored = @ \cup {p.sequence},
                                    !.bytes_written = @ + Len(p.payload)]
    <2>1. written.final_reply = s.final_reply
      BY DEF Shaped, Members
    <2>2. \/ \E status, error : out = fail(s, d, status, error, p.sequence)
          \/ \E x \in {s, written} : \E e : \E r \in {NoReply, Answer("ACK", p.sequence)} :
               out = Outcome(x, e, r)
      BY <1>6 DEF handle_packet, on_data, IfFaulty
    <2> HIDE DEF written
    <2>3. CASE \E status, error : out = fail(s, d, status, error, p.sequence)
      BY <1>2, <1>3, <2>3
    <2>4. CASE \E x \in {s, written} : \E e :
                 \E r \in {NoReply, Answer("ACK", p.sequence)} : out = Outcome(x, e, r)
      <3>1. out.reply \in {NoReply, Answer("ACK", p.sequence)}
            /\ out.session.final_reply = s.final_reply
        BY <2>1, <2>4 DEF Outcome
      <3> QED BY <1>1, <1>3, <3>1
    <2> QED BY <2>2, <2>3, <2>4
  <1>7. CASE ~ s.finished /\ p.type = "FIN"
    <2> DEFINE published == [s EXCEPT !.published = TRUE, !.finished = TRUE,
                                      !.final_reply = Answer("FIN_ACK", p.sequence)]
    <2>1. published.final_reply = Answer("FIN_ACK", p.sequence)
      BY DEF Shaped, Members
    <2>2. \/ \E status, error : out = fail(s, d, status, error, p.sequence)
          \/ out = Outcome(published, rename(d, s.temp_path, s.output_path),
                           Answer("FIN_ACK", p.sequence))
      BY <1>7 DEF handle_packet, on_fin, IfFaulty
    <2> HIDE DEF published
    <2>3. CASE \E status, error : out = fail(s, d, status, error, p.sequence)
      BY <1>2, <1>3, <2>3
    <2>4. CASE out = Outcome(published, rename(d, s.temp_path, s.output_path),
                             Answer("FIN_ACK", p.sequence))
      <3>1. /\ out.reply = Answer("FIN_ACK", p.sequence)
            /\ out.session.final_reply = Answer("FIN_ACK", p.sequence)
            /\ out.disk = rename(d, s.temp_path, s.output_path)
        BY <2>1, <2>4 DEF Outcome
      <3> QED BY <1>1, <1>7, <3>1 DEF Requests
    <2> QED BY <2>2, <2>3, <2>4
  <1>8. CASE ~ s.finished /\ p.type \notin Requests
    <2>1. \/ out = Outcome(s, d, NoReply)
          \/ \E status, error : out = fail(s, d, status, error, p.sequence)
      BY <1>8 DEF handle_packet, Requests
    <2>2. CASE \E status, error : out = fail(s, d, status, error, p.sequence)
      BY <1>2, <1>3, <2>2
    <2>3. CASE out = Outcome(s, d, NoReply)
      <3>1. out.reply = NoReply /\ out.session.final_reply = s.final_reply
        BY <2>3 DEF Outcome
      <3> QED BY <1>1, <1>3, <3>1
    <2> QED BY <2>1, <2>2, <2>3
  <1> QED BY <1>4, <1>5, <1>6, <1>7, <1>8 DEF Requests
-----------------------------------------------------------------------------
(***************************************************************************)
(* The directory                                                           *)
(***************************************************************************)

\* A directory: it has names and data.
DiskShaped(d) == d = [m \in {"names", "data"} |-> d[m]]

\* What each operation does to the names.
LEMMA DiskOperations ==
  ASSUME NEW d, DiskShaped(d)
  PROVE  /\ \A x : /\ DiskShaped(open_write(d, x))
                   /\ DOMAIN open_write(d, x).names = DOMAIN d.names \cup {x}
         /\ \A i, units, offset : /\ DiskShaped(write_at(d, i, units, offset))
                                  /\ write_at(d, i, units, offset).names = d.names
         /\ \A paths : /\ DiskShaped(unlink(d, paths))
                       /\ DOMAIN unlink(d, paths).names = DOMAIN d.names \ paths
                       /\ unlink(d, paths).data = d.data
                       /\ \A x \in DOMAIN d.names \ paths :
                            unlink(d, paths).names[x] = d.names[x]
         /\ \A x, y : /\ DiskShaped(rename(d, x, y))
                      /\ DOMAIN rename(d, x, y).names = (DOMAIN d.names \ {x}) \cup {y}
                      /\ rename(d, x, y).data = d.data
         /\ \A open : /\ DiskShaped(Reclaim(d, open))
                      /\ Reclaim(d, open).names = d.names
  <1>1. \A x : /\ DiskShaped(open_write(d, x))
               /\ DOMAIN open_write(d, x).names = DOMAIN d.names \cup {x}
    BY DEF DiskShaped, open_write
  <1>2. \A i, units, offset : /\ DiskShaped(write_at(d, i, units, offset))
                              /\ write_at(d, i, units, offset).names = d.names
    BY DEF DiskShaped, write_at
  <1>3. \A paths : /\ DiskShaped(unlink(d, paths))
                   /\ DOMAIN unlink(d, paths).names = DOMAIN d.names \ paths
                   /\ unlink(d, paths).data = d.data
                   /\ \A x \in DOMAIN d.names \ paths :
                        unlink(d, paths).names[x] = d.names[x]
    BY DEF DiskShaped, unlink
  <1>4. \A x, y : /\ DiskShaped(rename(d, x, y))
                  /\ DOMAIN rename(d, x, y).names = (DOMAIN d.names \ {x}) \cup {y}
                  /\ rename(d, x, y).data = d.data
    BY DEF DiskShaped, rename
  <1>5. \A open : /\ DiskShaped(Reclaim(d, open))
                  /\ Reclaim(d, open).names = d.names
    BY DEF DiskShaped, Reclaim
  <1> QED BY <1>1, <1>2, <1>3, <1>4, <1>5

\* Closing the file changes nothing else.
LEMMA CloseFile ==
  ASSUME NEW r, Shaped(r)
  PROVE  /\ Shaped(close_file(r)) /\ close_file(r).file = Closed
         /\ \A m \in Members \ {"file"} : close_file(r)[m] = r[m]
  BY DEF Shaped, Members, close_file

\* The empty table has no entries.
LEMMA NoEntries == DOMAIN <<>> = {}
  OBVIOUS

\* Partial and output files have a path, in the one directory they share.
LEMMA PathsApart ==
  /\ \A id : TempPath(id) # NoPath
  /\ \A name : OutputPath(name) # NoPath
  BY DEF TempPath, OutputPath, join_path, NoPath

\* Every name has a file of its own, and no file is the closed descriptor.
Linked(d) ==
  /\ DiskShaped(d)
  /\ \A x \in DOMAIN d.names :
       d.names[x] \in DOMAIN d.data /\ d.names[x] # Closed
  /\ \A x, y \in DOMAIN d.names : d.names[x] = d.names[y] => x = y

\* The kernel frees nothing that has a name.
LEMMA ReclaimLinked ==
  ASSUME NEW d, Linked(d), NEW open
  PROVE  LET e == Reclaim(d, open) IN
         /\ Linked(e) /\ e.names = d.names
         /\ \A x \in DOMAIN d.names : Contents(e, x) = Contents(d, x)
  <1> DEFINE e == Reclaim(d, open)
             used == open \cup {d.names[x] : x \in DOMAIN d.names}
  <1>1. DiskShaped(e) /\ e.names = d.names
    BY DiskOperations DEF Linked
  <1>2. e.data = [i \in DOMAIN d.data \cap used |-> d.data[i]]
    BY DEF Reclaim, Linked, DiskShaped
  <1>3. \A x \in DOMAIN d.names : d.names[x] \in DOMAIN d.data \cap used
    BY DEF Linked
  <1> HIDE DEF e, used
  <1>4. \A x \in DOMAIN d.names :
          d.names[x] \in DOMAIN e.data /\ e.data[d.names[x]] = d.data[d.names[x]]
    BY <1>2, <1>3
  <1>5. Linked(e)
    BY <1>1, <1>4 DEF Linked
  <1>6. \A x \in DOMAIN d.names : Contents(e, x) = Contents(d, x)
    BY <1>1, <1>4 DEF Contents
  <1> QED BY <1>1, <1>5, <1>6 DEF e

\* unlink disturbs no other name.
LEMMA UnlinkLinked ==
  ASSUME NEW d, Linked(d), NEW paths
  PROVE  LET e == unlink(d, paths) IN
         /\ Linked(e) /\ DOMAIN e.names = DOMAIN d.names \ paths
         /\ \A x \in DOMAIN e.names :
              e.names[x] = d.names[x] /\ Contents(e, x) = Contents(d, x)
  <1> DEFINE e == unlink(d, paths)
  <1>1. /\ DiskShaped(e) /\ DOMAIN e.names = DOMAIN d.names \ paths /\ e.data = d.data
        /\ \A x \in DOMAIN d.names \ paths : e.names[x] = d.names[x]
    BY DiskOperations DEF Linked
  <1> HIDE DEF e
  <1>2. Linked(e)
    BY <1>1 DEF Linked
  <1>3. \A x \in DOMAIN e.names : Contents(e, x) = Contents(d, x)
    BY <1>1 DEF Contents
  <1> QED BY <1>1, <1>2, <1>3 DEF e

\* A write through a descriptor shows under the name of its file, and no other.
Written(g, m, u, o, h) ==
  /\ Linked(h) /\ h.names = g.names
  /\ Contents(h, m) = Overwrite(Contents(g, m), u, o)
  /\ \A x \in DOMAIN g.names \ {m} : Contents(h, x) = Contents(g, x)

LEMMA WriteLinked ==
  ASSUME NEW g, Linked(g), NEW m \in DOMAIN g.names, NEW u, NEW o
  PROVE  Written(g, m, u, o, write_at(g, g.names[m], u, o))
  <1> DEFINE after == Overwrite(g.data[g.names[m]], u, o)
             h == write_at(g, g.names[m], u, o)
  <1>1. DiskShaped(h) /\ h.names = g.names
    BY DiskOperations DEF Linked
  <1>2. g.names[m] \in DOMAIN g.data
    BY DEF Linked
  <1>3. h.data = [g.data EXCEPT ![g.names[m]] = after]
    BY DEF write_at, Linked, DiskShaped
  <1> HIDE DEF h, after
  <1>4. /\ DOMAIN h.data = DOMAIN g.data /\ h.data[g.names[m]] = after
        /\ \A i \in DOMAIN g.data \ {g.names[m]} : h.data[i] = g.data[i]
    BY <1>2, <1>3
  <1>5. Linked(h)
    BY <1>1, <1>4 DEF Linked
  <1>6. Contents(h, m) = after
    BY <1>1, <1>4 DEF Contents
  <1>7. \A x \in DOMAIN g.names \ {m} : Contents(h, x) = Contents(g, x)
    BY <1>1, <1>4 DEF Contents, Linked
  <1> QED BY <1>1, <1>5, <1>6, <1>7 DEF h, after, Contents, Written

\* rename moves a file under its new name, whatever that named before.
LEMMA RenameLinked ==
  ASSUME NEW d, Linked(d), NEW a \in DOMAIN d.names, NEW b
  PROVE  LET e == rename(d, a, b) IN
         /\ Linked(e) /\ DOMAIN e.names = (DOMAIN d.names \ {a}) \cup {b}
         /\ Contents(e, b) = Contents(d, a)
         /\ \A x \in DOMAIN d.names \ {a, b} :
              e.names[x] = d.names[x] /\ Contents(e, x) = Contents(d, x)
  <1> DEFINE e == rename(d, a, b)
  <1>1. /\ DiskShaped(e) /\ e.data = d.data
        /\ DOMAIN e.names = (DOMAIN d.names \ {a}) \cup {b}
    BY DiskOperations DEF Linked
  <1>2. e.names = [x \in (DOMAIN d.names \ {a}) \cup {b} |->
                     IF x = b THEN d.names[a] ELSE d.names[x]]
    BY DEF rename, Linked, DiskShaped
  <1> HIDE DEF e
  <1>3. e.names[b] = d.names[a] /\ \A x \in DOMAIN d.names \ {a, b} : e.names[x] = d.names[x]
    BY <1>2
  <1>4. Linked(e)
    BY <1>1, <1>3 DEF Linked
  <1>5. Contents(e, b) = Contents(d, a)
    BY <1>1, <1>3 DEF Contents
  <1>6. \A x \in DOMAIN d.names \ {a, b} : Contents(e, x) = Contents(d, x)
    BY <1>1, <1>3 DEF Contents
  <1> QED BY <1>1, <1>3, <1>4, <1>5, <1>6 DEF e

\* open_write gives the name an empty file; other names keep theirs.
LEMMA OpenLinked ==
  ASSUME NEW d, Linked(d), NEW n, CanOpen(d, n)
  PROVE  LET e == open_write(d, n) IN
         /\ Linked(e) /\ DOMAIN e.names = DOMAIN d.names \cup {n}
         /\ e.names[n] = InodeFor(d, n) /\ Contents(e, n) = <<>>
         /\ \A x \in DOMAIN d.names \ {n} :
              e.names[x] = d.names[x] /\ Contents(e, x) = Contents(d, x)
  <1> DEFINE e == open_write(d, n)
             i == InodeFor(d, n)
  <1>1. DiskShaped(e) /\ DOMAIN e.names = DOMAIN d.names \cup {n}
    BY DiskOperations DEF Linked
  <1>2. i # Closed /\ \A x \in DOMAIN d.names \ {n} : d.names[x] # i
    <2>1. CASE n \in DOMAIN d.names
      BY <2>1 DEF InodeFor, Exists, Linked
    <2>2. CASE n \notin DOMAIN d.names
      <3>1. i \in Inodes /\ i \notin DOMAIN d.data
        BY <2>2 DEF CanOpen, InodeFor, Exists
      <3> QED BY <3>1, InodesAssumption DEF Linked
    <2> QED BY <2>1, <2>2
  <1>3. /\ e.names = [x \in DOMAIN d.names \cup {n} |-> IF x = n THEN i ELSE d.names[x]]
        /\ e.data = [j \in DOMAIN d.data \cup {i} |-> IF j = i THEN <<>> ELSE d.data[j]]
    BY DEF open_write
  <1> HIDE DEF e, i
  <1>4. e.names[n] = i /\ \A x \in DOMAIN d.names \ {n} : e.names[x] = d.names[x]
    BY <1>3
  <1>5. /\ DOMAIN e.data = DOMAIN d.data \cup {i} /\ e.data[i] = <<>>
        /\ \A j \in DOMAIN d.data \ {i} : e.data[j] = d.data[j]
    BY <1>3
  <1>6. Linked(e)
    BY <1>1, <1>2, <1>4, <1>5 DEF Linked
  <1>7. Contents(e, n) = <<>>
    BY <1>4, <1>5 DEF Contents
  <1>8. \A x \in DOMAIN d.names \ {n} : Contents(e, x) = Contents(d, x)
    BY <1>2, <1>4, <1>5 DEF Contents, Linked
  <1> QED BY <1>1, <1>4, <1>6, <1>7, <1>8 DEF e, i

\* Writing within a size keeps the contents units, and within that size.
LEMMA OverwriteBounded ==
  ASSUME NEW Units, Hole \in Units, NEW old \in Seq(Units), NEW units \in Seq(Units),
         NEW offset \in Nat, NEW size \in Nat, Len(old) <= size,
         offset + Len(units) <= size
  PROVE  /\ Overwrite(old, units, offset) \in Seq(Units)
         /\ Len(Overwrite(old, units, offset)) <= size
  <1> DEFINE end == offset + Len(units)
             total == IF end > Len(old) THEN end ELSE Len(old)
             at(i) == IF i > offset /\ i <= end THEN units[i - offset]
                      ELSE IF i <= Len(old) THEN old[i] ELSE Hole
  <1>1. /\ Len(old) \in Nat /\ Len(units) \in Nat /\ end \in Nat
        /\ total \in Nat /\ total <= size
    OBVIOUS
  <1>2. \A i \in 1 .. total : at(i) \in Units
    <2> SUFFICES ASSUME NEW i \in 1 .. total
                 PROVE  at(i) \in Units
      OBVIOUS
    <2>1. CASE i > offset /\ i <= end
      <3>1. i - offset \in 1 .. Len(units)
        BY <1>1, <2>1
      <3>2. units[i - offset] \in Units
        BY <3>1
      <3> QED BY <2>1, <3>2
    <2>2. CASE ~ (i > offset /\ i <= end) /\ i <= Len(old)
      <3>1. old[i] \in Units
        BY <1>1, <2>2
      <3> QED BY <2>2, <3>1
    <2>3. CASE ~ (i > offset /\ i <= end) /\ ~ (i <= Len(old))
      BY <2>3
    <2> QED BY <2>1, <2>2, <2>3
  <1>3. Overwrite(old, units, offset) = [i \in 1 .. total |-> at(i)]
    BY DEF Overwrite
  <1> HIDE DEF at, total
  <1>4. /\ [i \in 1 .. total |-> at(i)] \in Seq(Units)
        /\ Len([i \in 1 .. total |-> at(i)]) = total
    BY <1>1, <1>2
  <1> QED BY <1>1, <1>3, <1>4

\* A file no longer than what a read returned is what it returned.
LEMMA ReadWhole ==
  ASSUME NEW Units, NEW contents \in Seq(Units), NEW want \in Nat,
         Len(contents) <= want,
         NEW d, NEW i, d.data[i] = contents
  PROVE  read_at(d, i, want) = contents
  <1>1. read_at(d, i, want) = SubSeq(contents, 1, Len(contents))
    BY DEF read_at
  <1>2. SubSeq(contents, 1, Len(contents)) = contents
    OBVIOUS
  <1> QED BY <1>1, <1>2

\* A chunk of a file is a sequence of its units.
LEMMA ChunkUnits ==
  ASSUME NEW Units, NEW t, t.contents \in Seq(Units), NEW n \in Nat
  PROVE  ChunkAt(t, n) \in Seq(Units) /\ n * ChunkSize \in Nat
  <1> DEFINE offset == n * ChunkSize
             size == Len(t.contents)
             remaining == size - offset
             want == IF remaining < ChunkSize THEN remaining ELSE ChunkSize
             last == offset + want
  <1>1. offset \in Nat
    BY ChunkAssumption
  <1>2. size \in Nat
    OBVIOUS
  <1>3. ChunkAt(t, n) = SubSeq(t.contents, offset + 1, last)
    BY DEF ChunkAt, FileSize
  <1> HIDE DEF offset, size
  <1>4. last \in Int /\ last <= size
    BY <1>1, <1>2, ChunkAssumption
  <1> HIDE DEF want
  <1> HIDE DEF last
  <1>5. CASE offset + 1 <= last
    <2>1. /\ offset + 1 \in 1 .. Len(t.contents) + 1
          /\ last \in (offset + 1) - 1 .. Len(t.contents)
      BY <1>1, <1>2, <1>4, <1>5 DEF size
    <2>2. SubSeq(t.contents, offset + 1, last) \in Seq(Units)
      BY <2>1, SubSeqProperties
    <2> QED BY <1>1, <1>3, <2>2 DEF offset
  <1>6. CASE ~ (offset + 1 <= last)
    <2>1. SubSeq(t.contents, offset + 1, last) = <<>>
      BY <1>1, <1>4, <1>6
    <2>2. <<>> \in Seq(Units)
      OBVIOUS
    <2> QED BY <1>1, <1>3, <2>1, <2>2 DEF offset
  <1> QED BY <1>5, <1>6
-----------------------------------------------------------------------------
(***************************************************************************)
(* The sender                                                              *)
(***************************************************************************)

\* The clients: their files are made of units, and no two draw the same id.
DistinctClients(Units) ==
  /\ Hole \in Units
  /\ \A t \in Transfers : t.contents \in Seq(Units)
  /\ \A t, u \in Transfers : t.session_id = u.session_id => t = u

\* A send_file, but for what its phase requires of the window.
SenderParts == {"phase", "result", "remote_status", "attempt", "waited", "next",
                "in_flight"}

WindowOK(t, s) ==
  /\ s = [m \in SenderParts |-> s[m]]
  /\ s.attempt \in 0 .. MaxRetries /\ s.waited \in 0 .. Rto
  /\ s.next \in 0 .. Total(t)
  /\ DOMAIN s.in_flight \subseteq 0 .. s.next - 1
  /\ \A q, r \in DOMAIN s.in_flight : r < q + WindowCapacity

SenderOK(t, s) ==
  /\ WindowOK(t, s)
  /\ s.phase \in {"idle", "start", "data", "fin", "done"}
  /\ s.phase = "done" <=> s.result # "none"
  /\ s.phase = "data" => DOMAIN s.in_flight # {}

SendersOK ==
  DOMAIN sender = Transfers /\ \A t \in Transfers : SenderOK(t, sender[t])

\* What a packet says of the transfer it belongs to.
LEMMA PacketFacts ==
  ASSUME NEW t, NEW p \in PacketsOf(t)
  PROVE  /\ p.type \in Requests /\ p.from = t.from /\ p.session_id = t.session_id
         /\ p.type = "START" => p.payload = t.name
         /\ p.type = "FIN" => p.payload = t.contents
  <1>1. CASE p \in {StartPacket(t), FinPacket(t)}
    BY <1>1 DEF StartPacket, FinPacket, Requests
  <1>2. CASE \E n \in Chunks(t) : p = DataPacket(t, n)
    BY <1>2 DEF DataPacket, Requests
  <1> QED BY <1>1, <1>2 DEF PacketsOf

\* The number of chunks is a number.
LEMMA TotalNat ==
  ASSUME NEW Units, DistinctClients(Units), NEW t \in Transfers
  PROVE  Total(t) \in Nat
  <1>1. FileSize(t) \in Nat
    BY DEF DistinctClients, FileSize
  <1>2. FileSize(t) + ChunkSize - 1 \in Nat
    BY <1>1, ChunkAssumption
  <1>3. (FileSize(t) + ChunkSize - 1) \div ChunkSize \in Nat
    BY <1>2, ChunkAssumption
  <1> QED BY <1>3 DEF Total, chunk_count

\* window.base() is the oldest packet in flight, or the next one.
LEMMA OldestIs ==
  ASSUME NEW t, NEW s, WindowOK(t, s), Total(t) \in Nat
  PROVE  /\ s.next \in Nat
         /\ Oldest(s) \in Nat /\ Oldest(s) <= s.next
         /\ DOMAIN s.in_flight = {} => Oldest(s) = s.next
         /\ DOMAIN s.in_flight # {} => Oldest(s) \in DOMAIN s.in_flight
         /\ \A q \in DOMAIN s.in_flight :
              q \in Nat /\ Oldest(s) <= q /\ q < Oldest(s) + WindowCapacity
  <1> DEFINE D == DOMAIN s.in_flight
  <1>1. /\ s.next \in Nat /\ D \subseteq 0 .. s.next - 1
        /\ \A q, r \in D : r < q + WindowCapacity
    BY DEF WindowOK
  <1>2. Oldest(s) = IF D = {} THEN s.next ELSE CHOOSE q \in D : \A r \in D : q <= r
    BY DEF Oldest
  <1> HIDE DEF D
  <1>3. CASE D = {}
    BY <1>1, <1>2, <1>3 DEF D
  <1>4. CASE D # {}
    <2>1. D \in SUBSET Nat
      BY <1>1
    <2>2. \E q \in D : \A r \in D : q <= r
      BY <1>4, <2>1, LeastElement
    <2>3. Oldest(s) \in D /\ \A r \in D : Oldest(s) <= r
      BY <1>2, <1>4, <2>2
    <2>4. Oldest(s) \in Nat /\ Oldest(s) <= s.next
      <3>1. Oldest(s) \in 0 .. s.next - 1
        BY <1>1, <2>3
      <3> QED BY <1>1, <3>1
    <2>5. \A q \in D : q \in Nat /\ Oldest(s) <= q /\ q < Oldest(s) + WindowCapacity
      <3> SUFFICES ASSUME NEW q \in D
                   PROVE  q \in Nat /\ Oldest(s) <= q /\ q < Oldest(s) + WindowCapacity
        OBVIOUS
      <3>1. q \in Nat
        BY <2>1
      <3>2. Oldest(s) <= q
        BY <2>3
      <3>3. q < Oldest(s) + WindowCapacity
        BY <1>1, <2>3
      <3> QED BY <3>1, <3>2, <3>3
    <2> QED BY <1>1, <1>4, <2>3, <2>4, <2>5 DEF D
  <1> QED BY <1>3, <1>4

\* The top of the DATA loop keeps the window in order and sends chunks of the file.
LEMMA ProceedOK ==
  ASSUME NEW t, NEW s, WindowOK(t, s), Total(t) \in Nat, s.result = "none"
  PROVE  /\ SenderOK(t, Proceed(t, s)) /\ Proceed(t, s).result = "none"
         /\ Emitted(t, s) \subseteq PacketsOf(t)
  <1> DEFINE D == DOMAIN s.in_flight
             o == Oldest(s)
             more == Fillable(t, s)
             c == Cardinality(more)
             flight == [q \in D \cup more |-> IF q \in more
                          THEN [age |-> 0, attempts |-> 1] ELSE s.in_flight[q]]
             done == [s EXCEPT !.phase = "fin", !.attempt = 0, !.waited = 0]
             sent == [s EXCEPT !.phase = "data", !.next = @ + c, !.in_flight = flight]
  <1>1. /\ s.next \in Nat /\ s.next <= Total(t) /\ o \in Nat /\ o <= s.next
        /\ D = {} => o = s.next
        /\ D # {} => o \in D
        /\ \A q \in D : q \in Nat /\ o <= q /\ q < o + WindowCapacity
        /\ D \subseteq 0 .. s.next - 1
    <2>1. /\ s.next \in 0 .. Total(t) /\ D \subseteq 0 .. s.next - 1
      BY DEF WindowOK
    <2>2. /\ s.next \in Nat /\ o \in Nat /\ o <= s.next
          /\ D = {} => o = s.next
          /\ D # {} => o \in D
          /\ \A q \in D : q \in Nat /\ o <= q /\ q < o + WindowCapacity
      BY OldestIs
    <2> HIDE DEF D, o
    <2> QED BY <2>1, <2>2
  <1>2. /\ WindowCapacity \in Nat \ {0} /\ Rto \in Nat /\ MaxRetries \in Nat
    BY SenderAssumption
  <1>3. Proceed(t, s) = IF o >= Total(t) THEN done ELSE sent
    BY DEF Proceed
  <1>4. CASE o >= Total(t)
    <2>1. /\ done = [m \in SenderParts |-> done[m]] /\ done.phase = "fin"
          /\ done.result = "none" /\ done.attempt = 0 /\ done.waited = 0
          /\ done.next = s.next /\ done.in_flight = s.in_flight
      BY DEF WindowOK, SenderParts
    <2> HIDE DEF done
    <2>2. 0 \in 0 .. MaxRetries /\ 0 \in 0 .. Rto
      BY <1>2
    <2>3. SenderOK(t, done)
      BY <2>1, <2>2 DEF SenderOK, WindowOK
    <2>4. Emitted(t, s) \subseteq PacketsOf(t)
      BY <1>4 DEF Emitted, PacketsOf
    <2> QED BY <1>3, <1>4, <2>1, <2>3, <2>4
  <1>5. CASE ~ (o >= Total(t))
    <2> DEFINE limit == IF o + WindowCapacity < Total(t) THEN o + WindowCapacity
                                                         ELSE Total(t)
    <2>1. more = s.next .. limit - 1
      BY <1>1, <1>2 DEF Fillable
    <2>2. limit \in Nat /\ limit <= Total(t) /\ limit <= o + WindowCapacity /\ o < limit
      BY <1>1, <1>2, <1>5
    <2> HIDE DEF limit, more
    <2>3. c = IF s.next > limit - 1 THEN 0 ELSE limit - s.next
      <3> DEFINE last == limit - 1
      <3>1. s.next \in Int /\ last \in Int
        BY <1>1, <2>2
      <3> HIDE DEF last
      <3>2. Cardinality(s.next .. last) =
              IF s.next > last THEN 0 ELSE last - s.next + 1
        BY <3>1, FS_Interval
      <3>3. c = IF s.next > limit - 1 THEN 0 ELSE (limit - 1) - s.next + 1
        BY <2>1, <3>2 DEF last
      <3> QED BY <1>1, <2>2, <3>3
    <2>4. /\ c \in Nat /\ s.next + c \in 0 .. Total(t)
          /\ \A q \in more : q \in 0 .. s.next + c - 1
      BY <1>1, <2>1, <2>2, <2>3
    <2>5. D \cup more # {}
      BY <1>1, <2>1, <2>2
    <2>6. \A q \in D \cup more : q \in 0 .. s.next + c - 1 /\ o <= q
                               /\ q < o + WindowCapacity
      <3> HIDE DEF D, o, c
      <3>1. \A q \in more : o <= q /\ q < o + WindowCapacity
        BY <1>1, <1>2, <2>1, <2>2
      <3>2. \A q \in D : q \in 0 .. s.next + c - 1
        BY <1>1, <2>4
      <3> QED BY <1>1, <2>4, <3>1, <3>2
    <2>7. \A q, r \in D \cup more : r < q + WindowCapacity
      BY <1>1, <1>2, <2>6
    <2> HIDE DEF D
    <2>8. DOMAIN flight = D \cup more
      OBVIOUS
    <2> HIDE DEF flight, c
    <2>9. /\ sent = [m \in SenderParts |-> sent[m]] /\ sent.phase = "data"
          /\ sent.result = "none" /\ sent.attempt = s.attempt /\ sent.waited = s.waited
          /\ sent.next = s.next + c /\ sent.in_flight = flight
      BY DEF WindowOK, SenderParts
    <2> HIDE DEF sent
    <2>10. WindowOK(t, sent)
      <3>1. DOMAIN sent.in_flight \subseteq 0 .. sent.next - 1
        <4>1. sent.next - 1 = s.next + c - 1
          BY <1>1, <2>4, <2>9
        <4> QED BY <2>6, <2>8, <2>9, <4>1
      <3>2. \A q, r \in DOMAIN sent.in_flight : r < q + WindowCapacity
        BY <2>7, <2>8, <2>9
      <3>3. s.attempt \in 0 .. MaxRetries /\ s.waited \in 0 .. Rto
        BY DEF WindowOK
      <3> QED BY <2>4, <2>9, <3>1, <3>2, <3>3 DEF WindowOK
    <2>11. SenderOK(t, sent)
      BY <2>5, <2>8, <2>9, <2>10 DEF SenderOK
    <2>12. Emitted(t, s) \subseteq PacketsOf(t)
      <3>1. more \subseteq Chunks(t)
        BY <1>1, <2>1, <2>2 DEF Chunks, Total
      <3>2. Emitted(t, s) = {DataPacket(t, q) : q \in more}
        BY <1>5 DEF Emitted, more
      <3> QED BY <3>1, <3>2 DEF PacketsOf
    <2> QED BY <1>3, <1>5, <2>9, <2>11, <2>12
  <1> QED BY <1>4, <1>5

\* A sender that ends is in order.
LEMMA FinishOK ==
  ASSUME NEW t, NEW s, WindowOK(t, s), NEW result, result # "none"
  PROVE  SenderOK(t, Finish(s, result)) /\ Finish(s, result).result = result
  <1> DEFINE f == Finish(s, result)
  <1>1. /\ f = [m \in SenderParts |-> f[m]] /\ f.phase = "done" /\ f.result = result
        /\ f.attempt = s.attempt /\ f.waited = s.waited /\ f.next = s.next
        /\ f.in_flight = <<>>
    BY DEF Finish, WindowOK, SenderParts
  <1> HIDE DEF f
  <1>2. WindowOK(t, f)
    BY <1>1, NoEntries DEF WindowOK
  <1> QED BY <1>1, <1>2 DEF SenderOK, f

\* A window that loses packets, or whose timers are wound, is still in order.
LEMMA FewerInFlight ==
  ASSUME NEW t, NEW s, WindowOK(t, s), NEW f, DOMAIN f \subseteq DOMAIN s.in_flight
  PROVE  LET x == [s EXCEPT !.in_flight = f] IN
         WindowOK(t, x) /\ x.result = s.result /\ x.phase = s.phase /\ x.in_flight = f
  <1> DEFINE x == [s EXCEPT !.in_flight = f]
  <1>1. /\ x = [m \in SenderParts |-> x[m]] /\ x.phase = s.phase /\ x.result = s.result
        /\ x.attempt = s.attempt /\ x.waited = s.waited /\ x.next = s.next
        /\ x.in_flight = f
    BY DEF WindowOK, SenderParts
  <1> HIDE DEF x
  <1>2. WindowOK(t, x)
    BY <1>1 DEF WindowOK
  <1> QED BY <1>1, <1>2 DEF x

\* A step of t's send_file: it ends in order, sends only packets of its own, and
\* reports success only for the reason given.
Moves(t, s, reason) ==
  /\ DOMAIN sender' = Transfers /\ sender'[t] = s
  /\ \A u \in Transfers \ {t} : sender'[u] = sender[u]
  /\ SenderOK(t, s)
  /\ net' \subseteq net \cup PacketsOf(t)
  /\ s.result = "kNone" => reason

\* A change to one sender is a step of it.
LEMMA MovesBy ==
  ASSUME SendersOK, NEW t \in Transfers, NEW s, NEW reason, Becomes(t, s),
         SenderOK(t, s), net' \subseteq net \cup PacketsOf(t),
         s.result = "kNone" => reason
  PROVE  Moves(t, s, reason)
  BY DEF SendersOK, Becomes, Moves

\* The end of a pass through the DATA loop.
LEMMA RetransmitMoves ==
  ASSUME NEW Units, DistinctClients(Units), SendersOK, NEW t \in Transfers, NEW s,
         WindowOK(t, s), s.result = "none", NEW left, left \subseteq net,
         Retransmit(t, s, left)
  PROVE  \E x : Moves(t, x, FALSE)
  <1> DEFINE flight == [q \in DOMAIN s.in_flight |->
                          IF q \in Expired(s)
                          THEN [age |-> 0, attempts |-> s.in_flight[q].attempts + 1]
                          ELSE s.in_flight[q]]
             resent == [s EXCEPT !.in_flight = flight]
  <1>1. WindowOK(t, resent) /\ resent.result = "none"
    BY FewerInFlight
  <1>2. Total(t) \in Nat
    BY TotalNat
  <1>3. \A q \in Expired(s) : DataPacket(t, q) \in PacketsOf(t)
    <2>1. s.next \in Nat /\ s.next <= Total(t) /\ DOMAIN s.in_flight \subseteq 0 .. s.next - 1
      BY <1>2 DEF WindowOK
    <2>2. Expired(s) \subseteq DOMAIN s.in_flight
      BY DEF Expired
    <2>3. Expired(s) \subseteq Chunks(t)
      BY <1>2, <2>1, <2>2 DEF Chunks, Total
    <2> QED BY <2>3 DEF PacketsOf
  <1>4. \/ /\ Becomes(t, Proceed(t, resent))
           /\ net' = left \cup {DataPacket(t, q) : q \in Expired(s)}
                          \cup Emitted(t, resent)
        \/ /\ Becomes(t, Finish(s, "kPeerUnresponsive"))
           /\ \E some \in SUBSET (Expired(s) \ Exhausted(s)) :
                net' = left \cup {DataPacket(t, q) : q \in some}
    BY DEF Retransmit
  <1> HIDE DEF resent
  <1>5. CASE /\ Becomes(t, Proceed(t, resent))
             /\ net' = left \cup {DataPacket(t, q) : q \in Expired(s)}
                            \cup Emitted(t, resent)
    <2>1. /\ SenderOK(t, Proceed(t, resent)) /\ Proceed(t, resent).result = "none"
          /\ Emitted(t, resent) \subseteq PacketsOf(t)
      BY <1>1, <1>2, ProceedOK
    <2>2. net' \subseteq net \cup PacketsOf(t)
      BY <1>3, <1>5, <2>1
    <2> QED BY <1>5, <2>1, <2>2, MovesBy
  <1>6. CASE /\ Becomes(t, Finish(s, "kPeerUnresponsive"))
             /\ \E some \in SUBSET (Expired(s) \ Exhausted(s)) :
                  net' = left \cup {DataPacket(t, q) : q \in some}
    <2>1. /\ SenderOK(t, Finish(s, "kPeerUnresponsive"))
          /\ Finish(s, "kPeerUnresponsive").result = "kPeerUnresponsive"
      BY FinishOK
    <2>2. net' \subseteq net \cup PacketsOf(t)
      BY <1>3, <1>6
    <2> QED BY <1>6, <2>1, <2>2, MovesBy
  <1> QED BY <1>4, <1>5, <1>6

\* A datagram moves its sender: only the FIN_ACK of its own session makes it
\* report success.
LEMMA ReceiveMoves ==
  ASSUME NEW Units, DistinctClients(Units), SendersOK, NEW t \in Transfers, NEW m \in net,
         \/ ControlError(t, m) \/ ControlReply(t, m) \/ ControlIgnored(t, m)
         \/ DataReceive(t, m)
  PROVE  \E s : Moves(t, s, m.type = "FIN_ACK" /\ m.session_id = t.session_id)
  <1> DEFINE s == sender[t]
             own == m.type = "FIN_ACK" /\ m.session_id = t.session_id
  <1>1. SenderOK(t, s) /\ WindowOK(t, s) /\ Total(t) \in Nat
    BY TotalNat DEF SendersOK, SenderOK
  <1>2. Taken(m) \subseteq net
    BY DEF Taken
  <1>3. s.phase \in {"start", "data", "fin"}
    BY DEF ControlError, ControlReply, ControlIgnored, DataReceive, Controlling
  <1>4. s.result = "none"
    BY <1>1, <1>3 DEF SenderOK
  <1>5. CASE ControlError(t, m)
    <2> DEFINE f == Finish(s, "kRemoteError")
               x == [f EXCEPT !.remote_status = m.status]
    <2>1. SenderOK(t, f) /\ f.result = "kRemoteError"
      BY <1>1, FinishOK
    <2>2. Becomes(t, x) /\ net' \subseteq net \cup PacketsOf(t)
      BY <1>2, <1>5 DEF ControlError
    <2> HIDE DEF f
    <2>3. /\ x = [n \in SenderParts |-> x[n]] /\ x.phase = f.phase /\ x.result = f.result
          /\ x.attempt = f.attempt /\ x.waited = f.waited /\ x.next = f.next
          /\ x.in_flight = f.in_flight
      BY <2>1 DEF SenderOK, WindowOK, SenderParts
    <2> HIDE DEF x
    <2>4. SenderOK(t, x)
      BY <2>1, <2>3 DEF SenderOK, WindowOK
    <2>5. Moves(t, x, own)
      BY <2>1, <2>2, <2>3, <2>4, MovesBy
    <2> QED BY <2>5
  <1>6. CASE ControlReply(t, m)
    <2>1. CASE s.phase = "start"
      <3>1. Becomes(t, Proceed(t, s)) /\ net' = Taken(m) \cup Emitted(t, s)
        BY <1>6, <2>1 DEF ControlReply
      <3>2. /\ SenderOK(t, Proceed(t, s)) /\ Proceed(t, s).result = "none"
            /\ Emitted(t, s) \subseteq PacketsOf(t)
        BY <1>1, <1>4, ProceedOK
      <3>3. Moves(t, Proceed(t, s), own)
        BY <1>2, <3>1, <3>2, MovesBy
      <3> QED BY <3>3
    <2>2. CASE s.phase = "fin"
      <3>1. Becomes(t, Finish(s, "kNone")) /\ net' = Taken(m) /\ own
        BY <1>6, <2>2 DEF ControlReply, Expected
      <3>2. SenderOK(t, Finish(s, "kNone"))
        BY <1>1, FinishOK
      <3>3. Moves(t, Finish(s, "kNone"), own)
        BY <1>2, <3>1, <3>2, MovesBy
      <3> QED BY <3>3
    <2> QED BY <1>6, <2>1, <2>2 DEF ControlReply
  <1>7. CASE ControlIgnored(t, m)
    <2>1. sender' = sender /\ net' = Taken(m)
      BY <1>7 DEF ControlIgnored
    <2>2. Moves(t, s, own)
      BY <1>1, <1>2, <1>4, <2>1 DEF Moves, SendersOK
    <2> QED BY <2>2
  <1>8. CASE DataReceive(t, m)
    <2> DEFINE x == IF m.type = "ACK" THEN Acknowledged(s, m.sequence) ELSE s
               f == [r \in DOMAIN s.in_flight \ {m.sequence} |-> s.in_flight[r]]
    <2>1. Retransmit(t, x, Taken(m))
      BY <1>8 DEF DataReceive
    <2>2. Acknowledged(s, m.sequence) = [s EXCEPT !.in_flight = f]
      BY DEF Acknowledged
    <2>3. WindowOK(t, [s EXCEPT !.in_flight = f]) /\ [s EXCEPT !.in_flight = f].result = s.result
      BY <1>1, FewerInFlight
    <2>4. WindowOK(t, x) /\ x.result = "none"
      BY <1>1, <1>4, <2>2, <2>3
    <2> HIDE DEF x
    <2>5. PICK y : Moves(t, y, FALSE)
      BY <1>2, <2>1, <2>4, RetransmitMoves
    <2>6. Moves(t, y, own)
      BY <2>5 DEF Moves
    <2> QED BY <2>6
  <1> QED BY <1>5, <1>6, <1>7, <1>8

\* A sender that acts by itself never reports success.
LEMMA OwnMoves ==
  ASSUME NEW Units, DistinctClients(Units), SendersOK, NEW t \in Transfers,
         Begin(t) \/ ControlTimeout(t) \/ DataTimeout(t) \/ LocalFailure(t)
  PROVE  \E s : Moves(t, s, FALSE)
  <1> DEFINE s == sender[t]
  <1>1. SenderOK(t, s) /\ WindowOK(t, s) /\ Total(t) \in Nat
    BY TotalNat DEF SendersOK, SenderOK
  <1>2. s.phase \in {"idle", "start", "data", "fin"}
    BY DEF Begin, ControlTimeout, DataTimeout, LocalFailure, Controlling
  <1>3. s.result = "none"
    BY <1>1, <1>2 DEF SenderOK
  <1>4. {StartPacket(t), FinPacket(t)} \subseteq PacketsOf(t)
    BY DEF PacketsOf
  <1>5. CASE Begin(t)
    <2> DEFINE x == [s EXCEPT !.phase = "start"]
    <2>1. Becomes(t, x) /\ net' \subseteq net \cup PacketsOf(t)
      BY <1>4, <1>5 DEF Begin
    <2>2. /\ x = [n \in SenderParts |-> x[n]] /\ x.phase = "start" /\ x.result = "none"
          /\ x.attempt = s.attempt /\ x.waited = s.waited /\ x.next = s.next
          /\ x.in_flight = s.in_flight
      BY <1>1, <1>3 DEF WindowOK, SenderParts
    <2> HIDE DEF x, s
    <2>3. SenderOK(t, x)
      BY <1>1, <2>2 DEF SenderOK, WindowOK
    <2> QED BY <2>1, <2>2, <2>3, MovesBy
  <1>6. CASE ControlTimeout(t)
    <2>1. CASE s.attempt < MaxRetries
      <3> DEFINE x == [s EXCEPT !.attempt = @ + 1, !.waited = 0]
      <3>1. Becomes(t, x) /\ net' \subseteq net \cup PacketsOf(t)
        <4>1. s.attempt \in Nat /\ MaxRetries \in Nat
          BY <1>1, SenderAssumption DEF WindowOK
        <4>2. ~ (s.attempt >= MaxRetries)
          BY <2>1, <4>1
        <4> QED BY <1>4, <1>6, <4>2 DEF ControlTimeout, ControlPacket
      <3>2. /\ x = [n \in SenderParts |-> x[n]] /\ x.phase = s.phase /\ x.result = "none"
            /\ x.attempt = s.attempt + 1 /\ x.waited = 0 /\ x.next = s.next
            /\ x.in_flight = s.in_flight
        BY <1>1, <1>3 DEF WindowOK, SenderParts
      <3> HIDE DEF x
      <3>3. x.attempt \in 0 .. MaxRetries /\ x.waited \in 0 .. Rto
        BY <1>1, <2>1, <3>2, SenderAssumption DEF WindowOK
      <3> HIDE DEF s
      <3>4. SenderOK(t, x)
        BY <1>1, <1>3, <3>2, <3>3 DEF SenderOK, WindowOK
      <3> QED BY <3>1, <3>2, <3>4, MovesBy
    <2>2. CASE ~ (s.attempt < MaxRetries)
      <3> DEFINE error == IF s.phase = "start" THEN "kHandshakeFailed"
                                               ELSE "kPeerUnresponsive"
      <3>1. Becomes(t, Finish(s, error)) /\ net' = net
        BY <1>6, <2>2 DEF ControlTimeout
      <3>2. error # "none" /\ error # "kNone"
        OBVIOUS
      <3> HIDE DEF error
      <3>3. SenderOK(t, Finish(s, error)) /\ Finish(s, error).result = error
        BY <1>1, <3>2, FinishOK
      <3> QED BY <3>1, <3>2, <3>3, MovesBy
    <2> QED BY <2>1, <2>2
  <1>7. CASE DataTimeout(t)
    BY <1>1, <1>3, <1>7, RetransmitMoves DEF DataTimeout
  <1>8. CASE LocalFailure(t)
    <2>1. PICK error \in LocalErrors : Becomes(t, Finish(s, error)) /\ net' = net
      BY <1>8 DEF LocalFailure
    <2>2. error # "none" /\ error # "kNone"
      BY SenderAssumption
    <2>3. SenderOK(t, Finish(s, error)) /\ Finish(s, error).result = error
      BY <1>1, <2>2, FinishOK
    <2> QED BY <2>1, <2>2, <2>3, MovesBy
  <1> QED BY <1>5, <1>6, <1>7, <1>8

\* Time leaves every sender in order, with its verdict.
LEMMA AgedOK ==
  ASSUME NEW t, NEW s, SenderOK(t, s)
  PROVE  SenderOK(t, Aged(s)) /\ Aged(s).result = s.result
  <1> DEFINE w == IF s.phase \in {"start", "fin"} /\ s.waited < Rto
                  THEN s.waited + 1 ELSE s.waited
             f == [q \in DOMAIN s.in_flight |-> Waiting(s.in_flight[q])]
             x == [s EXCEPT !.waited = w, !.in_flight = f]
  <1>1. Aged(s) = x
    BY DEF Aged
  <1>2. w \in 0 .. Rto
    BY SenderAssumption DEF SenderOK, WindowOK
  <1>3. DOMAIN f = DOMAIN s.in_flight
    OBVIOUS
  <1> HIDE DEF w, f
  <1>4. /\ x = [n \in SenderParts |-> x[n]] /\ x.phase = s.phase /\ x.result = s.result
        /\ x.attempt = s.attempt /\ x.waited = w /\ x.next = s.next /\ x.in_flight = f
    BY DEF SenderOK, WindowOK, SenderParts
  <1> HIDE DEF x
  <1>5. SenderOK(t, x)
    BY <1>2, <1>3, <1>4 DEF SenderOK, WindowOK
  <1> QED BY <1>1, <1>4, <1>5
=============================================================================
