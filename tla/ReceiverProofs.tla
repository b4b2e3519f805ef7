--------------------------- MODULE ReceiverProofs ---------------------------
(***************************************************************************)
(* Proofs about BlockingReceiver.tla, for any clients, losses and failures,*)
(* and about FileHash.tla, the digest by which it decides.                 *)
(*                                                                         *)
(* The clients have different session ids and files made of units, as in   *)
(* the proofs of the server; nothing else is assumed.  The inductive       *)
(* invariant BInv follows the file from the START that opens it to the     *)
(* verdict, and the last exchange from the FIN to the FIN_ACK: as long as  *)
(* a FIN is in flight its sender waits for the answer, and once the file   *)
(* is published that answer is in flight, lost, or no longer needed.       *)
(***************************************************************************)
EXTENDS BlockingReceiver, FileHash, SessionProofs

\* A session that has its file: the partial file is all there is in the directory,
\* it holds units, no more than announced, and it belongs to a client.
Holding(Units, s, d) ==
  /\ Shaped(s) /\ s.started = TRUE /\ s.finished = FALSE
  /\ s.published = FALSE /\ s.error = "kNone"
  /\ s.temp_path = TempPath(s.session_id)
  /\ Linked(d) /\ DOMAIN d.names = {s.temp_path} /\ d.names[s.temp_path] = s.file
  /\ Contents(d, s.temp_path) \in Seq(Units)
  /\ Len(Contents(d, s.temp_path)) <= s.declared_size
  /\ \E t \in Transfers :
       /\ s.session_id = t.session_id /\ s.declared_size = FileSize(t)
       /\ s.output_path = OutputPath(sanitize_filename(t.name))

\* A session that has not published: what it leaves behind is all there is.
Leaves(s, d) ==
  /\ Shaped(s) /\ s.published = FALSE
  /\ DiskShaped(d) /\ DOMAIN d.names \subseteq Leftover(s)

\* The session that has failed, and the one that has published the file of t.
Failed(out) ==
  /\ out.session.finished = TRUE /\ Leaves(out.session, out.disk)
  /\ out.session.error \notin {"none", "kNone"} /\ out.reply.type = "ERROR"

InPlace(t, d) ==
  /\ DOMAIN d.names = {OutputPath(sanitize_filename(t.name))}
  /\ Contents(d, OutputPath(sanitize_filename(t.name))) = t.contents

Published(t, p, out) ==
  /\ Shaped(out.session) /\ out.session.finished = TRUE
  /\ out.session.published = TRUE /\ out.session.error = "kNone"
  /\ out.session.session_id = t.session_id /\ p = FinPacket(t)
  /\ out.reply = Answer("FIN_ACK", Total(t))
  /\ Linked(out.disk) /\ InPlace(t, out.disk)
-----------------------------------------------------------------------------
\* Nothing remains of a session that has not published.
LEMMA NothingRemains ==
  ASSUME NEW s, NEW d, Leaves(s, d)
  PROVE  Reclaim(unlink(d, Leftover(s)), {}) = EmptyDisk
  <1> DEFINE e == unlink(d, Leftover(s))
             r == Reclaim(e, {})
  <1>1. DiskShaped(e) /\ DOMAIN e.names = {}
    BY DiskOperations DEF Leaves
  <1>2. e.names = <<>>
    <2>1. e.names = [x \in DOMAIN d.names \ Leftover(s) |-> d.names[x]]
      BY DEF unlink, Leaves, DiskShaped
    <2>2. DOMAIN d.names \ Leftover(s) = {}
      BY DEF Leaves
    <2> QED BY <2>1, <2>2
  <1> HIDE DEF e
  <1>3. DiskShaped(r) /\ r.names = <<>>
    BY <1>1, <1>2, DiskOperations
  <1>4. r.data = <<>>
    <2> DEFINE used == {} \cup {e.names[x] : x \in DOMAIN e.names}
    <2>1. r.data = [i \in DOMAIN e.data \cap used |-> e.data[i]]
      BY <1>1 DEF Reclaim, DiskShaped
    <2>2. DOMAIN e.data \cap used = {}
      BY <1>1
    <2> HIDE DEF used, r
    <2> QED BY <2>1, <2>2
  <1> HIDE DEF r
  <1> QED BY <1>3, <1>4 DEF DiskShaped, EmptyDisk, r, e

\* A session that has its file leaves only that behind.
LEMMA HoldingLeaves ==
  ASSUME NEW Units, NEW s, NEW d, Holding(Units, s, d)
  PROVE  Leaves(s, d)
  <1>1. s.temp_path # NoPath
    BY PathsApart DEF Holding
  <1> QED BY <1>1 DEF Holding, Leaves, Leftover, Linked

\* What a packet of a client carries.
LEMMA PacketIs ==
  ASSUME NEW Units, DistinctClients(Units), NEW t \in Transfers, NEW p \in PacketsOf(t)
  PROVE  /\ p.from = t.from /\ p.session_id = t.session_id /\ FileSize(t) \in Nat
         /\ p.type = "START" => p.offset = FileSize(t) /\ p.payload = t.name
         /\ p.type = "DATA" => p.offset \in Nat /\ p.payload \in Seq(Units)
         /\ p.type = "FIN" => /\ p = FinPacket(t) /\ p.sequence = Total(t)
                              /\ p.offset = FileSize(t) /\ p.payload = t.contents
         /\ p.type \in Requests
  <1>1. t.contents \in Seq(Units) /\ FileSize(t) \in Nat
    BY DEF DistinctClients, FileSize
  <1>2. CASE p = StartPacket(t)
    BY <1>1, <1>2 DEF StartPacket, Requests
  <1>3. CASE p = FinPacket(t)
    BY <1>1, <1>3 DEF FinPacket, Requests, Total
  <1>4. CASE \E n \in Chunks(t) : p = DataPacket(t, n)
    <2>1. PICK n \in Nat : p = DataPacket(t, n)
      BY <1>4 DEF Chunks
    <2>2. ChunkAt(t, n) \in Seq(Units) /\ n * ChunkSize \in Nat
      BY <1>1, ChunkUnits
    <2> QED BY <1>1, <2>1, <2>2 DEF DataPacket, Requests
  <1> QED BY <1>2, <1>3, <1>4 DEF PacketsOf

\* The first packet: a START opens a file or fails, anything else fails.
LEMMA FirstPacket ==
  ASSUME NEW Units, DistinctClients(Units), NEW t \in Transfers, NEW p \in PacketsOf(t),
         NEW out \in handle_packet(NewSession, EmptyDisk, p)
  PROVE  \/ Holding(Units, out.session, out.disk) /\ Routine(out.reply)
         \/ Failed(out)
  <1>1. /\ DiskShaped(EmptyDisk) /\ Linked(EmptyDisk) /\ DOMAIN EmptyDisk.names = {}
    BY DEF EmptyDisk, DiskShaped, Linked
  <1>2. CASE p.type # "START"
    <2>1. Shaped(out.session) /\ Fails(NewSession, EmptyDisk, out)
      BY <1>2, FreshCases
    <2>2. out.session.published = FALSE
      BY <2>1 DEF Fails, NewSession
    <2> QED BY <1>1, <2>1, <2>2 DEF Fails, Failed, Leaves
  <1>3. CASE p.type = "START"
    <2>1. /\ Shaped(out.session)
          /\ out.session.session_id = p.session_id /\ out.session.published = FALSE
          /\ Opens(EmptyDisk, p, out) \/ OpenFails(EmptyDisk, p, out)
      BY <1>3, StartCases
    <2>2. CASE OpenFails(EmptyDisk, p, out)
      BY <1>1, <2>1, <2>2 DEF OpenFails, Failed, Leaves
    <2>3. CASE Opens(EmptyDisk, p, out)
      <3> DEFINE n == TempPath(p.session_id)
                 d == out.disk
                 s == out.session
      <3>1. /\ CanOpen(EmptyDisk, n) /\ d = open_write(EmptyDisk, n)
            /\ s.started = TRUE /\ s.finished = FALSE /\ s.error = "kNone"
            /\ s.temp_path = n /\ s.file = InodeFor(EmptyDisk, n)
            /\ s.output_path = OutputPath(sanitize_filename(p.payload))
            /\ s.declared_size = p.offset /\ out.reply.type = "START_ACK"
        BY <2>3 DEF Opens
      <3>2. /\ Linked(d) /\ DOMAIN d.names = {} \cup {n}
            /\ d.names[n] = InodeFor(EmptyDisk, n) /\ Contents(d, n) = <<>>
        BY <1>1, <3>1, OpenLinked
      <3>3. /\ p.session_id = t.session_id /\ p.offset = FileSize(t)
            /\ p.payload = t.name /\ FileSize(t) \in Nat
        BY <1>3, PacketIs
      <3> HIDE DEF n, d, s
      <3>4. /\ Contents(d, n) \in Seq(Units) /\ Len(Contents(d, n)) <= s.declared_size
        BY <3>1, <3>2, <3>3
      <3>5. Holding(Units, s, d)
        BY <2>1, <3>1, <3>2, <3>3, <3>4 DEF Holding, n, s
      <3> QED BY <3>1, <3>5 DEF s, d, Routine
    <2> QED BY <2>1, <2>2, <2>3
  <1> QED BY <1>2, <1>3

\* A later packet: the session keeps its file, fails, or publishes it.
LEMMA LaterPacket ==
  ASSUME NEW Units, DistinctClients(Units), NEW t \in Transfers, NEW p \in PacketsOf(t),
         NEW s, NEW d, Holding(Units, s, d), NEW out \in handle_packet(s, d, p)
  PROVE  \/ /\ Holding(Units, out.session, out.disk)
            /\ Routine(out.reply)
         \/ Failed(out)
         \/ Published(t, p, out)
  <1> DEFINE n == s.temp_path
             old == Contents(d, n)
  <1>1. /\ Shaped(s) /\ s.started = TRUE /\ s.finished = FALSE
        /\ s.published = FALSE /\ s.error = "kNone" /\ n = TempPath(s.session_id)
        /\ Linked(d) /\ DOMAIN d.names = {n} /\ d.names[n] = s.file
        /\ old \in Seq(Units) /\ Len(old) <= s.declared_size
    BY DEF Holding
  <1>2. PICK u \in Transfers :
          /\ s.session_id = u.session_id /\ s.declared_size = FileSize(u)
          /\ s.output_path = OutputPath(sanitize_filename(u.name))
    BY DEF Holding
  <1>3. /\ p.session_id = t.session_id /\ FileSize(t) \in Nat
        /\ p.type = "DATA" => p.offset \in Nat /\ p.payload \in Seq(Units)
        /\ p.type = "FIN" => /\ p = FinPacket(t) /\ p.sequence = Total(t)
                             /\ p.offset = FileSize(t) /\ p.payload = t.contents
    BY PacketIs
  <1>4. p.session_id = s.session_id => u = t
    BY <1>2, <1>3 DEF DistinctClients
  <1>5. /\ Shaped(out.session)
        /\ \/ /\ out.session = s /\ out.disk = d
              /\ Routine(out.reply)
           \/ Fails(s, d, out) \/ Writes(s, d, p, out) \/ Publishes(s, d, p, out)
    BY <1>1, KnownCases
  <1>6. CASE /\ out.session = s /\ out.disk = d
             /\ Routine(out.reply)
    BY <1>6
  <1>7. CASE Fails(s, d, out)
    <2>1. Leaves(s, d)
      BY HoldingLeaves
    <2>2. Leftover(out.session) = Leftover(s)
      BY <1>7 DEF Fails, SameFile, Leftover
    <2>3. Leaves(out.session, out.disk)
      BY <1>5, <1>7, <2>1, <2>2 DEF Fails, Leaves
    <2> QED BY <1>7, <2>3 DEF Fails, Failed
  <1>8. CASE Writes(s, d, p, out)
    <2> DEFINE x == out.session
               e == out.disk
    <2>1. /\ SameFile(s, x) /\ x.finished = s.finished /\ x.published = s.published
          /\ x.error = s.error /\ out.reply.type = "ACK" /\ p.type = "DATA"
          /\ ~ (p.offset + Len(p.payload) > s.declared_size)
          /\ e = write_at(d, d.names[n], p.payload, p.offset)
      BY <1>1, <1>8 DEF Writes
    <2>2. Written(d, n, p.payload, p.offset, e)
      <3>1. n \in DOMAIN d.names
        BY <1>1
      <3> HIDE DEF n, e
      <3> QED BY <1>1, <2>1, <3>1, WriteLinked
    <2>3. /\ Linked(e) /\ e.names = d.names
          /\ Contents(e, n) = Overwrite(old, p.payload, p.offset)
      BY <2>2 DEF Written
    <2>4. /\ Overwrite(old, p.payload, p.offset) \in Seq(Units)
          /\ Len(Overwrite(old, p.payload, p.offset)) <= s.declared_size
      <3> DEFINE z == s.declared_size
      <3>1. /\ p.offset \in Nat /\ p.payload \in Seq(Units) /\ z \in Nat
            /\ Hole \in Units
        BY <1>2, <1>3, <2>1, PacketIs DEF DistinctClients, FileSize
      <3>2. Len(p.payload) \in Nat
        BY <3>1
      <3>3. p.offset + Len(p.payload) <= z
        BY <2>1, <3>1, <3>2
      <3>4. Len(old) <= z /\ old \in Seq(Units)
        BY <1>1
      <3> HIDE DEF z, old
      <3> QED BY <3>1, <3>3, <3>4, OverwriteBounded DEF z
    <2> HIDE DEF x, e, old
    <2>5. Holding(Units, x, e)
      <3>1. x.temp_path = n /\ x.file = s.file /\ x.session_id = s.session_id
            /\ x.started = s.started /\ x.output_path = s.output_path
            /\ x.declared_size = s.declared_size
        BY <2>1 DEF SameFile
      <3>2. Shaped(x)
        BY <1>5 DEF x
      <3>3. Contents(e, x.temp_path) \in Seq(Units)
            /\ Len(Contents(e, x.temp_path)) <= x.declared_size
        BY <2>3, <2>4, <3>1
      <3> QED BY <1>1, <1>2, <2>1, <2>3, <3>1, <3>2, <3>3 DEF Holding
    <2> QED BY <2>1, <2>5 DEF x, e, Routine
  <1>9. CASE Publishes(s, d, p, out)
    <2> DEFINE x == out.session
               e == out.disk
               m == OutputPath(sanitize_filename(t.name))
    <2>1. /\ SameFile(s, x) /\ x.finished = TRUE /\ x.published = TRUE
          /\ x.error = "kNone" /\ out.reply = Answer("FIN_ACK", p.sequence)
          /\ p.type = "FIN" /\ p.session_id = s.session_id
          /\ p.payload = read_at(d, s.file, s.bytes_written)
          /\ p.offset = s.bytes_written
          /\ e = rename(d, n, s.output_path)
      BY <1>1, <1>9 DEF Publishes
    <2>2. u = t /\ s.output_path = m /\ s.bytes_written = FileSize(t)
          /\ Len(old) <= FileSize(t)
      BY <1>1, <1>2, <1>3, <1>4, <2>1
    <2>3. old = t.contents
      <3>1. d.data[s.file] = old
        BY <1>1 DEF Contents
      <3>2. read_at(d, s.file, FileSize(t)) = old
        <4> HIDE DEF old
        <4> QED BY <1>1, <1>3, <2>2, <3>1, ReadWhole
      <3> QED BY <1>3, <2>1, <2>2, <3>2
    <2>4. /\ Linked(e) /\ DOMAIN e.names = (DOMAIN d.names \ {n}) \cup {m}
          /\ Contents(e, m) = old
      <3>1. n \in DOMAIN d.names /\ e = rename(d, n, m)
        BY <1>1, <2>1, <2>2
      <3> HIDE DEF e, n, m
      <3> QED BY <1>1, <3>1, RenameLinked DEF old
    <2>5. InPlace(t, e)
      BY <1>1, <2>3, <2>4 DEF InPlace
    <2>6. x.session_id = t.session_id
      BY <1>2, <2>1, <2>2 DEF SameFile
    <2> QED BY <1>3, <1>5, <2>1, <2>4, <2>5, <2>6 DEF Published
  <1> QED BY <1>5, <1>6, <1>7, <1>8, <1>9

-----------------------------------------------------------------------------
\* The inductive invariant.  The call has a session that is new or has its file, or
\* it has returned and its verdict is true of the directory.
Call(r) == r = [m \in {"session", "idle", "result"} |-> r[m]]

CallOK(Units) ==
  /\ Call(receiver)
  /\ Listening => \/ receiver.session = NewSession /\ disk = EmptyDisk
                  \/ Holding(Units, receiver.session, disk)
  /\ VerdictMatchesDisk

\* What is in flight: requests are those of clients; a FIN_ACK says that the call
\* has returned success for its session, an ERROR that it has returned an error.
Replies == {"START_ACK", "ACK", "FIN_ACK", "ERROR"}

Meant(m, r) ==
  /\ m.type \in Requests \cup Replies
  /\ m.type \in Requests => \E t \in Transfers : m \in PacketsOf(t)
  /\ m.type = "FIN_ACK" => r.result = "kNone" /\ r.session.session_id = m.session_id
  /\ m.type = "ERROR" => r.result \notin {"none", "kNone"}
NetOK == \A m \in net : Meant(m, receiver)

\* A socket serves one send_file at a time.
Busy(t) == sender[t].phase \in {"start", "data", "fin"}
OnePerPort == \A t, u \in Transfers : t.from = u.from /\ Busy(t) /\ Busy(u) => t = u

\* The sender still waits for the answer to its last FIN; or it has settled in one
\* of the ways that do not depend on that answer.
Expecting(t) == sender[t].phase = "fin" /\ sender[t].waited < Rto
Settled(t) == sender[t].result \in LocalErrors \cup {"kNone"}

\* While its FIN is in flight the sender waits, has settled, or gets an ERROR.
FinAwaited ==
  \A t \in Transfers : FinPacket(t) \in net =>
    Expecting(t) \/ Settled(t) \/ receiver.result \notin {"none", "kNone"}

\* Once its file is published the FIN_ACK is on its way, lost, or no longer needed.
FinAck(t) == [type |-> "FIN_ACK", to |-> t.from, session_id |-> t.session_id,
              sequence |-> Total(t), status |-> "kOk"]
Answered ==
  \A t \in Transfers :
    receiver.result = "kNone" /\ receiver.session.session_id = t.session_id =>
      lost["FIN_ACK"] > 0 \/ Settled(t) \/ (Expecting(t) /\ FinAck(t) \in net)

Losses == lost \in [Requests \cup Replies -> Nat]

BInv(Units) ==
  /\ CallOK(Units) /\ NetOK /\ Losses
  /\ SendersOK /\ OnePerPort /\ SenderNeverAhead
  /\ FinAwaited /\ Answered
-----------------------------------------------------------------------------
\* A call that returns an error leaves an empty directory.
LEMMA ReturnsNothing ==
  ASSUME Call(receiver), NEW s, NEW d, Leaves(s, d), NEW r, r \notin {"none", "kNone"},
         Return(s, d, r)
  PROVE  Call(receiver') /\ receiver'.result = r /\ VerdictMatchesDisk'
  <1>1. Call(receiver') /\ receiver'.result = r
    BY DEF Return, Call
  <1>2. disk' = EmptyDisk
    BY NothingRemains DEF Return
  <1> QED BY <1>1, <1>2 DEF VerdictMatchesDisk, Listening

\* A call whose session has published leaves the file of its client, and only that.
LEMMA ReturnsFile ==
  ASSUME Call(receiver), NEW t \in Transfers, NEW p, NEW out, Published(t, p, out),
         NEW r, r \in {"kNone", "kSendFailed"}, Return(out.session, out.disk, r)
  PROVE  /\ Call(receiver') /\ receiver'.result = r
         /\ receiver'.session.session_id = t.session_id
         /\ VerdictMatchesDisk'
  <1> DEFINE s == out.session
             d == out.disk
             m == OutputPath(sanitize_filename(t.name))
  <1>1. Call(receiver') /\ receiver'.result = r /\ receiver'.session = close_file(s)
    BY DEF Return, Call
  <1>2. close_file(s).session_id = t.session_id
    BY CloseFile DEF Published, Members
  <1>3. /\ Linked(d) /\ DOMAIN d.names = {m} /\ Contents(d, m) = t.contents
        /\ Leftover(s) = {}
    BY DEF Published, InPlace, Leftover
  <1>4. disk' = Reclaim(unlink(d, {}), {})
    BY <1>3 DEF Return
  <1> HIDE DEF s, d, m
  <1>5. DOMAIN disk'.names = {m} /\ Contents(disk', m) = t.contents
    <2> DEFINE e == unlink(d, {})
    <2>1. /\ Linked(e) /\ DOMAIN e.names = DOMAIN d.names \ {}
          /\ \A x \in DOMAIN e.names : Contents(e, x) = Contents(d, x)
      BY <1>3, UnlinkLinked
    <2> HIDE DEF e
    <2>2. /\ disk'.names = e.names
          /\ \A x \in DOMAIN e.names : Contents(disk', x) = Contents(e, x)
      BY <1>4, <2>1, ReclaimLinked DEF e
    <2> QED BY <1>3, <2>1, <2>2
  <1> QED BY <1>1, <1>2, <1>5 DEF VerdictMatchesDisk, Whole, Listening, m

\* The reply to a packet, if there is one, is the only datagram that is added.
Adds(kinds) == \A m \in net' : m \in net \/ m.type \in kinds

LEMMA OneReply ==
  ASSUME NEW p, NEW reply, NEW kinds, reply = NoReply \/ reply.type \in kinds,
         net' = Taken(p) \cup send_reply(p, reply)
  PROVE  Adds(kinds)
  <1>1. Taken(p) \subseteq net
    BY DEF Taken
  <1>2. \A m \in send_reply(p, reply) : reply # NoReply /\ m.type = reply.type
    BY DEF send_reply
  <1> QED BY <1>1, <1>2 DEF Adds

\* A packet that arrives while the call listens: it stays, it returns an error, or
\* it returns success and says so to the client whose file is in place.
LEMMA PacketStep ==
  ASSUME NEW Units, DistinctClients(Units), CallOK(Units), NetOK,
         NEW p \in ToReceiver, ReceivePacket(p)
  PROVE  /\ Listening /\ CallOK(Units)'
         /\ \/ receiver'.result = "none" /\ Adds({"START_ACK", "ACK"})
            \/ receiver'.result \notin {"none", "kNone"} /\ Adds({"ERROR"})
            \/ \E t \in Transfers :
                 /\ receiver'.result = "kNone"
                 /\ receiver'.session.session_id = t.session_id
                 /\ FinPacket(t) \in net /\ FinAck(t) \in net'
                 /\ \A m \in net' : m \in net \/ m = FinAck(t)
  <1>1. PICK t \in Transfers : p \in PacketsOf(t)
    BY DEF NetOK, Meant, ToReceiver, Requests
  <1>2. /\ Listening /\ Call(receiver)
        /\ \/ receiver.session = NewSession /\ disk = EmptyDisk
           \/ Holding(Units, receiver.session, disk)
    BY DEF ReceivePacket, CallOK
  <1>3. PICK out \in handle_packet(receiver.session, disk, p) :
          \/ /\ ~ out.session.finished
             /\ Continue(out.session, out.disk)
             /\ net' = Taken(p) \cup send_reply(p, out.reply)
          \/ /\ out.session.finished
             /\ Return(out.session, out.disk, Returned(out.session))
             /\ net' = Taken(p) \cup send_reply(p, out.reply)
          \/ /\ Return(out.session, out.disk, "kSendFailed")
             /\ net' = Taken(p)
    BY DEF ReceivePacket
  <1>4. \/ Holding(Units, out.session, out.disk) /\ Routine(out.reply)
        \/ Failed(out)
        \/ Published(t, p, out)
    BY <1>1, <1>2, FirstPacket, LaterPacket
  <1>5. CASE Return(out.session, out.disk, "kSendFailed") /\ net' = Taken(p)
    <2>1. Adds({"ERROR"})
      BY <1>5 DEF Adds, Taken
    <2>2. CASE Published(t, p, out)
      <3>1. Call(receiver') /\ receiver'.result = "kSendFailed" /\ VerdictMatchesDisk'
        BY <1>2, <1>5, <2>2, ReturnsFile
      <3> QED BY <1>2, <2>1, <3>1 DEF CallOK, Listening
    <2>3. CASE Leaves(out.session, out.disk)
      <3>1. Call(receiver') /\ receiver'.result = "kSendFailed" /\ VerdictMatchesDisk'
        BY <1>2, <1>5, <2>3, ReturnsNothing
      <3> QED BY <1>2, <2>1, <3>1 DEF CallOK, Listening
    <2> QED BY <1>4, <2>2, <2>3, HoldingLeaves DEF Failed
  <1>6. CASE Holding(Units, out.session, out.disk) /\ Routine(out.reply)
    <2>1. CASE Continue(out.session, out.disk)
               /\ net' = Taken(p) \cup send_reply(p, out.reply)
      <3>1. Adds({"START_ACK", "ACK"})
        BY <1>6, <2>1, OneReply DEF Routine
      <3>2. /\ Call(receiver') /\ receiver'.session = out.session
            /\ receiver'.result = receiver.result /\ disk' = out.disk
        BY <1>2, <2>1 DEF Continue, Call
      <3> QED BY <1>2, <1>6, <3>1, <3>2 DEF CallOK, Listening, VerdictMatchesDisk
    <2> QED BY <1>3, <1>5, <1>6, <2>1 DEF Holding
  <1>7. CASE Failed(out)
    <2>1. CASE /\ Return(out.session, out.disk, Returned(out.session))
               /\ net' = Taken(p) \cup send_reply(p, out.reply)
      <3>1. Adds({"ERROR"})
        BY <1>7, <2>1, OneReply DEF Failed
      <3>2. Returned(out.session) \notin {"none", "kNone"}
        BY <1>7 DEF Returned, Failed
      <3>3. Call(receiver') /\ receiver'.result \notin {"none", "kNone"}
            /\ VerdictMatchesDisk'
        BY <1>2, <1>7, <2>1, <3>2, ReturnsNothing DEF Failed
      <3> QED BY <1>2, <3>1, <3>3 DEF CallOK, Listening
    <2> QED BY <1>3, <1>5, <1>7, <2>1 DEF Failed
  <1>8. CASE Published(t, p, out)
    <2>1. CASE /\ Return(out.session, out.disk, Returned(out.session))
               /\ net' = Taken(p) \cup send_reply(p, out.reply)
      <3>1. Returned(out.session) = "kNone"
        BY <1>8 DEF Returned, Published
      <3>2. /\ Call(receiver') /\ receiver'.result = "kNone"
            /\ receiver'.session.session_id = t.session_id /\ VerdictMatchesDisk'
        BY <1>2, <1>8, <2>1, <3>1, ReturnsFile
      <3>3. send_reply(p, out.reply) = {FinAck(t)}
        <4>1. /\ out.reply = Answer("FIN_ACK", Total(t))
              /\ p.from = t.from /\ p.session_id = t.session_id
          BY <1>1, <1>8, PacketIs DEF Published
        <4>2. Answer("FIN_ACK", Total(t)) # NoReply
          BY DEF Answer, NoReply
        <4> QED BY <4>1, <4>2 DEF send_reply, FinAck, Answer
      <3>4. FinPacket(t) \in net /\ Taken(p) \subseteq net
        BY <1>8 DEF Published, ToReceiver, Taken
      <3> QED BY <1>2, <2>1, <3>2, <3>3, <3>4 DEF CallOK, Listening
    <2> QED BY <1>3, <1>5, <1>8, <2>1 DEF Published
  <1> QED BY <1>4, <1>6, <1>7, <1>8

-----------------------------------------------------------------------------
\* What a step of t's send_file has to do with its FIN.
FinStep(t, refused) ==
  /\ sender[t].result = "none"
  /\ FinPacket(t) \in net' => FinPacket(t) \in net \/ Expecting(t)'
  /\ Expecting(t) => Expecting(t)' \/ Settled(t)' \/ refused

\* The FIN is sent on entering the last phase.
LEMMA ProceedFin ==
  ASSUME NEW t, NEW s, WindowOK(t, s), FinPacket(t) \in Emitted(t, s)
  PROVE  Proceed(t, s).phase = "fin" /\ Proceed(t, s).waited = 0
  <1>1. \A q : DataPacket(t, q) # FinPacket(t)
    BY DEF DataPacket, FinPacket
  <1>2. Oldest(s) >= Total(t)
    BY <1>1 DEF Emitted
  <1>3. Proceed(t, s) = [s EXCEPT !.phase = "fin", !.attempt = 0, !.waited = 0]
    BY <1>2 DEF Proceed
  <1> QED BY <1>3 DEF WindowOK, SenderParts

\* A pass through the DATA loop keeps what is in flight, and sends a FIN only on
\* leaving the loop.
LEMMA RetransmitFin ==
  ASSUME SendersOK, NEW t \in Transfers, NEW s, WindowOK(t, s), NEW left,
         Retransmit(t, s, left)
  PROVE  /\ left \subseteq net'
         /\ FinPacket(t) \in net' => FinPacket(t) \in left \/ Expecting(t)'
  <1> DEFINE flight == [q \in DOMAIN s.in_flight |->
                          IF q \in Expired(s)
                          THEN [age |-> 0, attempts |-> s.in_flight[q].attempts + 1]
                          ELSE s.in_flight[q]]
             resent == [s EXCEPT !.in_flight = flight]
  <1>1. WindowOK(t, resent)
    BY FewerInFlight
  <1>2. \A q : DataPacket(t, q) # FinPacket(t)
    BY DEF DataPacket, FinPacket
  <1>3. \/ /\ Becomes(t, Proceed(t, resent))
           /\ net' = left \cup {DataPacket(t, q) : q \in Expired(s)}
                          \cup Emitted(t, resent)
        \/ \E some \in SUBSET (Expired(s) \ Exhausted(s)) :
             net' = left \cup {DataPacket(t, q) : q \in some}
    BY DEF Retransmit
  <1> HIDE DEF resent
  <1>4. CASE \E some \in SUBSET (Expired(s) \ Exhausted(s)) :
               net' = left \cup {DataPacket(t, q) : q \in some}
    BY <1>2, <1>4
  <1>5. CASE /\ Becomes(t, Proceed(t, resent))
             /\ net' = left \cup {DataPacket(t, q) : q \in Expired(s)}
                            \cup Emitted(t, resent)
    <2>1. sender'[t] = Proceed(t, resent)
      BY <1>5 DEF Becomes, SendersOK
    <2>2. FinPacket(t) \in Emitted(t, resent) => Expecting(t)'
      BY <1>1, <2>1, ProceedFin, SenderAssumption DEF Expecting
    <2> QED BY <1>2, <1>5, <2>2
  <1> QED BY <1>3, <1>4, <1>5

\* A sender that acts by itself: what is in flight stays there.
LEMMA OwnFin ==
  ASSUME SendersOK, NEW t \in Transfers,
         Begin(t) \/ ControlTimeout(t) \/ DataTimeout(t) \/ LocalFailure(t)
  PROVE  FinStep(t, FALSE) /\ net \subseteq net'
  <1> DEFINE s == sender[t]
  <1>1. SenderOK(t, s) /\ WindowOK(t, s)
    BY DEF SendersOK, SenderOK
  <1>2. s.result = "none"
    <2>1. s.phase \in {"idle", "start", "data", "fin"}
      BY DEF Begin, ControlTimeout, DataTimeout, LocalFailure, Controlling
    <2> QED BY <1>1, <2>1 DEF SenderOK
  <1>3. CASE Begin(t)
    <2>1. s.phase = "idle" /\ net' = net \cup {StartPacket(t)}
      BY <1>3 DEF Begin
    <2>2. StartPacket(t) # FinPacket(t)
      BY DEF StartPacket, FinPacket
    <2> QED BY <1>2, <2>1, <2>2 DEF FinStep, Expecting
  <1>4. CASE ControlTimeout(t)
    <2>1. s.waited >= Rto /\ s.waited \in Nat /\ Rto \in Nat
      BY <1>1, <1>4, SenderAssumption DEF ControlTimeout, WindowOK
    <2>2. ~ Expecting(t)
      BY <2>1 DEF Expecting
    <2>3. CASE net' = net
      BY <1>2, <2>2, <2>3 DEF FinStep
    <2>4. CASE /\ Becomes(t, [s EXCEPT !.attempt = @ + 1, !.waited = 0])
               /\ net' = net \cup {ControlPacket(t)}
      <3>1. sender'[t].phase = s.phase /\ sender'[t].waited = 0
        BY <1>1, <2>4 DEF Becomes, SendersOK, WindowOK, SenderParts
      <3>2. s.phase = "start" => ControlPacket(t) # FinPacket(t)
        BY DEF ControlPacket, StartPacket, FinPacket
      <3>3. s.phase \in {"start", "fin"}
        BY <1>4 DEF ControlTimeout, Controlling
      <3>4. 0 < Rto
        BY SenderAssumption
      <3>5. FinPacket(t) \in net' => FinPacket(t) \in net \/ Expecting(t)'
        BY <2>4, <3>1, <3>2, <3>3, <3>4 DEF Expecting
      <3> QED BY <1>2, <2>2, <2>4, <3>5 DEF FinStep
    <2> QED BY <1>4, <2>3, <2>4 DEF ControlTimeout
  <1>5. CASE DataTimeout(t)
    <2>1. s.phase = "data" /\ Retransmit(t, s, net)
      BY <1>5 DEF DataTimeout
    <2>2. net \subseteq net' /\ (FinPacket(t) \in net' => FinPacket(t) \in net \/ Expecting(t)')
      BY <1>1, <2>1, RetransmitFin
    <2> QED BY <1>2, <2>1, <2>2 DEF FinStep, Expecting
  <1>6. CASE LocalFailure(t)
    <2>1. PICK error \in LocalErrors : Becomes(t, Finish(s, error)) /\ net' = net
      BY <1>6 DEF LocalFailure
    <2>2. sender'[t] = Finish(s, error)
      BY <2>1 DEF Becomes, SendersOK
    <2>3. Finish(s, error).result = error
      BY <1>1 DEF Finish, WindowOK, SenderParts
    <2>4. Settled(t)'
      BY <2>2, <2>3 DEF Settled
    <2> QED BY <1>2, <2>1, <2>4 DEF FinStep
  <1> QED BY <1>3, <1>4, <1>5, <1>6

\* A datagram for a sender: only an ERROR keeps it from the answer to its FIN, and
\* that answer makes it report success.
LEMMA ReceiveFin ==
  ASSUME SendersOK, NEW t \in Transfers, NEW m \in net,
         \/ ControlError(t, m) \/ ControlReply(t, m) \/ ControlIgnored(t, m)
         \/ DataReceive(t, m)
  PROVE  /\ FinStep(t, m.type = "ERROR") /\ Busy(t) /\ net \ {m} \subseteq net'
         /\ Expecting(t) /\ m = FinAck(t) => Settled(t)'
  <1> DEFINE s == sender[t]
  <1>1. SenderOK(t, s) /\ WindowOK(t, s)
    BY DEF SendersOK, SenderOK
  <1>2. s.phase \in {"start", "data", "fin"}
    BY DEF ControlError, ControlReply, ControlIgnored, DataReceive, Controlling
  <1>3. s.result = "none" /\ Busy(t)
    BY <1>1, <1>2 DEF SenderOK, Busy
  <1>4. Taken(m) \subseteq net /\ net \ {m} \subseteq Taken(m)
    BY DEF Taken
  <1>5. m = FinAck(t) => /\ m.type = "FIN_ACK" /\ m.session_id = t.session_id
                         /\ m.sequence = Total(t)
    BY DEF FinAck
  <1>6. CASE ControlError(t, m)
    <2>1. m.type = "ERROR" /\ net' = Taken(m)
      BY <1>6 DEF ControlError
    <2> QED BY <1>3, <1>4, <1>5, <2>1 DEF FinStep
  <1>7. CASE ControlReply(t, m)
    <2>1. CASE s.phase = "start"
      <3>1. Becomes(t, Proceed(t, s)) /\ net' = Taken(m) \cup Emitted(t, s)
        BY <1>7, <2>1 DEF ControlReply
      <3>2. sender'[t] = Proceed(t, s)
        BY <3>1 DEF Becomes, SendersOK
      <3>3. FinPacket(t) \in Emitted(t, s) => Expecting(t)'
        BY <1>1, <3>2, ProceedFin, SenderAssumption DEF Expecting
      <3> QED BY <1>3, <1>4, <2>1, <3>1, <3>3 DEF FinStep, Expecting
    <2>2. CASE s.phase = "fin"
      <3>1. Becomes(t, Finish(s, "kNone")) /\ net' = Taken(m)
        BY <1>7, <2>2 DEF ControlReply
      <3>2. sender'[t] = Finish(s, "kNone")
        BY <3>1 DEF Becomes, SendersOK
      <3>3. Finish(s, "kNone").result = "kNone"
        BY <1>1 DEF Finish, WindowOK, SenderParts
      <3>4. Settled(t)'
        BY <3>2, <3>3 DEF Settled
      <3> QED BY <1>3, <1>4, <3>1, <3>4 DEF FinStep
    <2> QED BY <1>7, <2>1, <2>2 DEF ControlReply
  <1>8. CASE ControlIgnored(t, m)
    <2>1. /\ ~ (m.session_id = t.session_id /\ Expected(t, m))
          /\ net' = Taken(m) /\ sender' = sender
      BY <1>8 DEF ControlIgnored
    <2>2. ~ (Expecting(t) /\ m = FinAck(t))
      BY <1>5, <2>1 DEF Expected, Expecting
    <2>3. Expecting(t)' <=> Expecting(t)
      BY <2>1 DEF Expecting
    <2> QED BY <1>3, <1>4, <2>1, <2>2, <2>3 DEF FinStep
  <1>9. CASE DataReceive(t, m)
    <2> DEFINE x == IF m.type = "ACK" THEN Acknowledged(s, m.sequence) ELSE s
               f == [r \in DOMAIN s.in_flight \ {m.sequence} |-> s.in_flight[r]]
    <2>1. Retransmit(t, x, Taken(m)) /\ s.phase = "data"
      BY <1>9 DEF DataReceive
    <2>2. Acknowledged(s, m.sequence) = [s EXCEPT !.in_flight = f]
      BY DEF Acknowledged
    <2>3. WindowOK(t, [s EXCEPT !.in_flight = f])
      BY <1>1, FewerInFlight
    <2>4. WindowOK(t, x)
      BY <1>1, <2>2, <2>3
    <2> HIDE DEF x
    <2>5. /\ Taken(m) \subseteq net'
          /\ FinPacket(t) \in net' => FinPacket(t) \in Taken(m) \/ Expecting(t)'
      BY <2>1, <2>4, RetransmitFin
    <2> QED BY <1>3, <1>4, <2>1, <2>5 DEF FinStep, Expecting
  <1> QED BY <1>6, <1>7, <1>8, <1>9

\* A packet of one client is not a packet of another.
LEMMA OneSender ==
  ASSUME NEW Units, DistinctClients(Units), NEW t \in Transfers, NEW u \in Transfers,
         FinPacket(u) \in PacketsOf(t)
  PROVE  u = t
  <1>1. FinPacket(u).session_id = u.session_id
    BY DEF FinPacket
  <1>2. FinPacket(u).session_id = t.session_id
    BY PacketIs
  <1> QED BY <1>1, <1>2 DEF DistinctClients

\* A step of a sender keeps the system in order.
LEMMA SenderKeeps ==
  ASSUME NEW Units, DistinctClients(Units), BInv(Units), UNCHANGED others,
         NEW t \in Transfers, NEW s, NEW reason, NEW refused,
         Moves(t, s, reason), FinStep(t, refused),
         reason => /\ receiver.result = "kNone"
                   /\ receiver.session.session_id = t.session_id,
         refused => receiver.result \notin {"none", "kNone"},
         Busy(t) \/ \A u \in Transfers : u.from = t.from => ~ Busy(u),
         \A u \in Transfers : Expecting(u) /\ FinAck(u) \in net =>
           FinAck(u) \in net' \/ Settled(u)'
  PROVE  BInv(Units)'
  <1>1. receiver' = receiver /\ disk' = disk /\ lost' = lost
    BY DEF others
  <1>2. /\ DOMAIN sender' = Transfers /\ sender'[t] = s /\ SenderOK(t, s)
        /\ \A u \in Transfers \ {t} : sender'[u] = sender[u]
        /\ net' \subseteq net \cup PacketsOf(t)
        /\ s.result = "kNone" => reason
    BY DEF Moves
  <1>3. CallOK(Units)' /\ Losses'
    BY <1>1 DEF BInv, CallOK, Losses, Listening, VerdictMatchesDisk, Whole
  <1>4. SendersOK'
    BY <1>2 DEF SendersOK, BInv
  <1>5. NetOK'
    <2>1. \A m \in net : Meant(m, receiver)
      BY DEF BInv, NetOK
    <2>2. \A m \in PacketsOf(t) : Meant(m, receiver)
      BY PacketIs DEF Meant, Requests
    <2> QED BY <1>1, <1>2, <2>1, <2>2 DEF NetOK
  <1>6. SenderNeverAhead'
    BY <1>1, <1>2 DEF BInv, SenderNeverAhead
  <1>7. OnePerPort'
    <2>1. \A u \in Transfers \ {t} : Busy(u)' <=> Busy(u)
      BY <1>2 DEF Busy
    <2> QED BY <2>1 DEF BInv, OnePerPort
  <1>8. \A u \in Transfers \ {t} : /\ Expecting(u)' <=> Expecting(u)
                                   /\ Settled(u)' <=> Settled(u)
    BY <1>2 DEF Expecting, Settled
  <1>9. ~ Settled(t)
    <2>1. "none" \notin LocalErrors \cup {"kNone"}
      BY SenderAssumption
    <2> QED BY <2>1 DEF Settled, FinStep
  <1>10. FinAwaited'
    <2>1. \A u \in Transfers \ {t} : FinPacket(u) \in net' => FinPacket(u) \in net
      BY <1>2, OneSender
    <2>2. \A u \in Transfers \ {t} : FinPacket(u) \in net' =>
            Expecting(u)' \/ Settled(u)' \/ receiver'.result \notin {"none", "kNone"}
      BY <1>1, <1>8, <2>1 DEF BInv, FinAwaited
    <2>3. FinPacket(t) \in net' =>
            Expecting(t)' \/ Settled(t)' \/ receiver'.result \notin {"none", "kNone"}
      BY <1>1, <1>9 DEF BInv, FinAwaited, FinStep
    <2> QED BY <2>2, <2>3 DEF FinAwaited
  <1>11. Answered'
    <2> SUFFICES ASSUME NEW u \in Transfers, receiver'.result = "kNone",
                        receiver'.session.session_id = u.session_id
                 PROVE  \/ lost'["FIN_ACK"] > 0 \/ Settled(u)'
                        \/ Expecting(u)' /\ FinAck(u) \in net'
      BY DEF Answered, FinAck
    <2>1. lost["FIN_ACK"] > 0 \/ Settled(u) \/ (Expecting(u) /\ FinAck(u) \in net)
      BY <1>1 DEF BInv, Answered
    <2>2. CASE u # t
      BY <1>1, <1>8, <2>1, <2>2
    <2>3. CASE u = t
      BY <1>1, <1>9, <2>1, <2>3 DEF FinStep
    <2> QED BY <2>2, <2>3
  <1> QED BY <1>3, <1>4, <1>5, <1>6, <1>7, <1>10, <1>11 DEF BInv

\* The senders keep the system in order.
LEMMA SendersKeep ==
  ASSUME NEW Units, DistinctClients(Units), BInv(Units), NEW t \in Transfers,
         \/ (Begin(t) \/ LocalFailure(t)) /\ UNCHANGED others
         \/ SenderTimeout(t)
         \/ \E m \in ToClient(t) : SenderReceive(t, m)
  PROVE  BInv(Units)'
  <1>0. SendersOK /\ NetOK /\ OnePerPort
    BY DEF BInv
  <1>1. CASE (Begin(t) \/ LocalFailure(t) \/ SenderTimeout(t)) /\ UNCHANGED others
    <2>1. Begin(t) \/ ControlTimeout(t) \/ DataTimeout(t) \/ LocalFailure(t)
      BY <1>1 DEF SenderTimeout
    <2>2. PICK s : Moves(t, s, FALSE)
      BY <1>0, <2>1, OwnMoves
    <2>3. FinStep(t, FALSE) /\ net \subseteq net'
      BY <1>0, <2>1, OwnFin
    <2>4. Busy(t) \/ \A u \in Transfers : u.from = t.from => ~ Busy(u)
      BY <2>1 DEF Begin, ControlTimeout, DataTimeout, LocalFailure, Controlling, Busy
    <2> QED BY <1>1, <2>2, <2>3, <2>4, SenderKeeps
  <1>2. CASE \E m \in ToClient(t) : SenderReceive(t, m)
    <2>1. PICK m \in net :
            /\ m.to = t.from
            /\ \/ ControlError(t, m) \/ ControlReply(t, m) \/ ControlIgnored(t, m)
               \/ DataReceive(t, m)
            /\ UNCHANGED others
      BY <1>2 DEF SenderReceive, ToClient
    <2> DEFINE own == m.type = "FIN_ACK" /\ m.session_id = t.session_id
               refused == m.type = "ERROR"
    <2>2. PICK s : Moves(t, s, own)
      BY <1>0, <2>1, ReceiveMoves
    <2>3. /\ FinStep(t, refused) /\ Busy(t) /\ net \ {m} \subseteq net'
          /\ Expecting(t) /\ m = FinAck(t) => Settled(t)'
      BY <1>0, <2>1, ReceiveFin
    <2>4. /\ own => /\ receiver.result = "kNone"
                    /\ receiver.session.session_id = t.session_id
          /\ refused => receiver.result \notin {"none", "kNone"}
      BY <1>0 DEF NetOK, Meant
    <2>5. \A u \in Transfers : Expecting(u) /\ FinAck(u) \in net =>
            FinAck(u) \in net' \/ Settled(u)'
      <3> SUFFICES ASSUME NEW u \in Transfers, Expecting(u), FinAck(u) \in net
                   PROVE  FinAck(u) \in net' \/ Settled(u)'
        OBVIOUS
      <3>1. CASE FinAck(u) # m
        BY <2>3, <3>1
      <3>2. CASE FinAck(u) = m
        <4>1. u.from = t.from
          BY <2>1, <3>2 DEF FinAck
        <4>2. Busy(u)
          BY DEF Expecting, Busy
        <4>3. u = t
          BY <1>0, <2>3, <4>1, <4>2 DEF OnePerPort
        <4> QED BY <2>3, <3>2, <4>3
      <3> QED BY <3>1, <3>2
    <2> HIDE DEF own, refused
    <2> QED BY <2>1, <2>2, <2>3, <2>4, <2>5, SenderKeeps
  <1> QED BY <1>1, <1>2 DEF SenderTimeout

\* A datagram is lost, or goes unread.
LEMMA NetworkKeeps ==
  ASSUME NEW Units, BInv(Units),
         \/ \E m \in net : Lose(m)
         \/ \E p \in ToReceiver : Unheard(p)
         \/ \E t \in Transfers : \E m \in ToClient(t) : Unread(t, m)
  PROVE  BInv(Units)'
  <1>1. /\ sender' = sender /\ receiver' = receiver /\ disk' = disk /\ net' \subseteq net
    BY DEF Lose, Unheard, Unread, others, Taken
  <1>2. /\ CallOK(Units)' /\ SendersOK' /\ OnePerPort' /\ SenderNeverAhead'
        /\ NetOK' /\ FinAwaited'
    <2>1. CallOK(Units)' /\ SendersOK'
      BY <1>1 DEF BInv, CallOK, Listening, VerdictMatchesDisk, Whole, SendersOK
    <2>2. OnePerPort' /\ SenderNeverAhead'
      BY <1>1 DEF BInv, OnePerPort, SenderNeverAhead, Busy
    <2>3. NetOK'
      BY <1>1 DEF BInv, NetOK
    <2>4. FinAwaited'
      BY <1>1 DEF BInv, FinAwaited, Expecting, Settled
    <2> QED BY <2>1, <2>2, <2>3, <2>4
  <1>3. ASSUME Losses', lost'["FIN_ACK"] >= lost["FIN_ACK"],
               \A t \in Transfers : Expecting(t) /\ FinAck(t) \in net =>
                 FinAck(t) \in net' \/ lost'["FIN_ACK"] > 0
        PROVE  BInv(Units)'
    <2>1. lost["FIN_ACK"] \in Nat /\ lost'["FIN_ACK"] \in Nat
      BY <1>3 DEF BInv, Losses, Replies
    <2>2. lost["FIN_ACK"] > 0 => lost'["FIN_ACK"] > 0
      BY <1>3, <2>1
    <2>3. \A t \in Transfers : /\ Expecting(t)' <=> Expecting(t)
                               /\ Settled(t)' <=> Settled(t)
      BY <1>1 DEF Expecting, Settled
    <2>4. Answered'
      <3> SUFFICES ASSUME NEW u \in Transfers, receiver'.result = "kNone",
                          receiver'.session.session_id = u.session_id
                   PROVE  \/ lost'["FIN_ACK"] > 0 \/ Settled(u)'
                          \/ Expecting(u)' /\ FinAck(u) \in net'
        BY DEF Answered, FinAck
      <3>1. lost["FIN_ACK"] > 0 \/ Settled(u) \/ (Expecting(u) /\ FinAck(u) \in net)
        BY <1>1 DEF BInv, Answered
      <3> QED BY <1>3, <2>2, <2>3, <3>1
    <2> QED BY <1>2, <1>3, <2>4 DEF BInv
  <1>4. CASE \E m \in net : Lose(m)
    <2>1. PICK m \in net : Lose(m)
      BY <1>4
    <2>2. /\ m.type \in Requests \cup Replies /\ lost \in [Requests \cup Replies -> Nat]
      BY DEF BInv, NetOK, Meant, Losses
    <2>3. /\ lost' = [lost EXCEPT ![m.type] = @ + 1] /\ net' = net \ {m}
      BY <2>1 DEF Lose
    <2>4. Losses' /\ lost'["FIN_ACK"] >= lost["FIN_ACK"]
          /\ (m.type = "FIN_ACK" => lost'["FIN_ACK"] > 0)
      <3>1. Losses'
        BY <2>2, <2>3 DEF Losses
      <3>2. "FIN_ACK" \in Requests \cup Replies
        BY DEF Replies
      <3>3. CASE m.type = "FIN_ACK"
        BY <2>2, <2>3, <3>1, <3>2, <3>3
      <3>4. CASE m.type # "FIN_ACK"
        BY <2>2, <2>3, <3>1, <3>2, <3>4
      <3> QED BY <3>1, <3>3, <3>4
    <2>5. \A t : FinAck(t).type = "FIN_ACK"
      BY DEF FinAck
    <2> QED BY <1>3, <2>3, <2>4, <2>5
  <1>5. CASE \E p \in ToReceiver : Unheard(p)
    <2>1. PICK p \in ToReceiver : Unheard(p)
      BY <1>5
    <2>2. net \ {p} \subseteq net' /\ lost' = lost /\ p.type # "FIN_ACK"
      BY <2>1 DEF Unheard, Taken, ToReceiver
    <2>3. \A t : FinAck(t) # p
      BY <2>2 DEF FinAck
    <2>4. Losses' /\ lost["FIN_ACK"] \in Nat
      BY <2>2 DEF BInv, Losses, Replies
    <2> QED BY <1>3, <2>2, <2>3, <2>4
  <1>6. CASE \E t \in Transfers : \E m \in ToClient(t) : Unread(t, m)
    <2>0. PICK t \in Transfers : \E m \in ToClient(t) : Unread(t, m)
      BY <1>6
    <2>1. PICK m \in ToClient(t) : Unread(t, m)
      BY <2>0
    <2>2. /\ net \ {m} \subseteq net' /\ lost' = lost /\ m.to = t.from
          /\ \A u \in Transfers : u.from = t.from => sender[u].phase \in {"idle", "done"}
      BY <2>1 DEF Unread, Taken, ToClient, others
    <2>3. \A u \in Transfers : Expecting(u) => FinAck(u) # m
      BY <2>2 DEF FinAck, Expecting
    <2>4. Losses' /\ lost["FIN_ACK"] \in Nat
      BY <2>2 DEF BInv, Losses, Replies
    <2> QED BY <1>3, <2>2, <2>3, <2>4
  <1> QED BY <1>4, <1>5, <1>6

\* A step of the receiver does not concern the senders.
LEMMA SendersAsTheyWere ==
  ASSUME NEW Units, BInv(Units), sender' = sender, lost' = lost
  PROVE  /\ SendersOK' /\ OnePerPort' /\ Losses'
         /\ \A t \in Transfers : /\ Expecting(t)' <=> Expecting(t)
                                 /\ Settled(t)' <=> Settled(t)
  BY DEF BInv, SendersOK, OnePerPort, Busy, Losses, Expecting, Settled

\* While the call listens nobody has been told how it ends.
LEMMA NothingSaid ==
  ASSUME NEW Units, BInv(Units), Listening
  PROVE  /\ \A m \in net : m.type \notin {"FIN_ACK", "ERROR"}
         /\ \A m \in net : m.type \in Requests => \E t \in Transfers : m \in PacketsOf(t)
         /\ \A m \in net : m.type \in Requests \cup Replies
         /\ \A t \in Transfers : sender[t].result # "kNone"
         /\ \A t \in Transfers : FinPacket(t) \in net => Expecting(t) \/ Settled(t)
  BY DEF BInv, NetOK, Meant, Listening, SenderNeverAhead, FinAwaited

\* The receiver keeps the system in order: a packet arrives.
LEMMA PacketKeeps ==
  ASSUME NEW Units, DistinctClients(Units), BInv(Units),
         NEW p \in ToReceiver, ReceivePacket(p)
  PROVE  BInv(Units)'
  <1>1. /\ Listening /\ CallOK(Units)' /\ sender' = sender /\ lost' = lost
        /\ \/ receiver'.result = "none" /\ Adds({"START_ACK", "ACK"})
           \/ receiver'.result \notin {"none", "kNone"} /\ Adds({"ERROR"})
           \/ \E t \in Transfers :
                /\ receiver'.result = "kNone"
                /\ receiver'.session.session_id = t.session_id
                /\ FinPacket(t) \in net /\ FinAck(t) \in net'
                /\ \A m \in net' : m \in net \/ m = FinAck(t)
    <2>1. CallOK(Units) /\ NetOK
      BY DEF BInv
    <2> QED BY <2>1, PacketStep DEF ReceivePacket
  <1>2. /\ SendersOK' /\ OnePerPort' /\ Losses'
        /\ \A t \in Transfers : /\ Expecting(t)' <=> Expecting(t)
                                /\ Settled(t)' <=> Settled(t)
    BY <1>1, SendersAsTheyWere
  <1>3. /\ \A m \in net : m.type \notin {"FIN_ACK", "ERROR"}
        /\ \A m \in net : m.type \in Requests => \E t \in Transfers : m \in PacketsOf(t)
        /\ \A m \in net : m.type \in Requests \cup Replies
        /\ \A t \in Transfers : sender[t].result # "kNone"
        /\ \A t \in Transfers : FinPacket(t) \in net => Expecting(t) \/ Settled(t)
    BY <1>1, NothingSaid
  <1>4. SenderNeverAhead'
    BY <1>1, <1>3 DEF SenderNeverAhead
  <1>5. \A t : FinPacket(t).type = "FIN" /\ FinAck(t).type = "FIN_ACK"
    BY DEF FinPacket, FinAck
  <1>6. CASE receiver'.result = "none" /\ Adds({"START_ACK", "ACK"})
    <2>1. NetOK'
      BY <1>3, <1>6 DEF NetOK, Meant, Adds, Requests, Replies
    <2>2. FinAwaited'
      BY <1>2, <1>3, <1>5, <1>6 DEF FinAwaited, Adds
    <2>3. Answered'
      BY <1>6 DEF Answered
    <2> QED BY <1>1, <1>2, <1>4, <2>1, <2>2, <2>3 DEF BInv
  <1>7. CASE receiver'.result \notin {"none", "kNone"} /\ Adds({"ERROR"})
    <2>1. NetOK'
      BY <1>3, <1>7 DEF NetOK, Meant, Adds, Requests, Replies
    <2>2. FinAwaited' /\ Answered'
      BY <1>7 DEF FinAwaited, Answered
    <2> QED BY <1>1, <1>2, <1>4, <2>1, <2>2 DEF BInv
  <1>8. ASSUME NEW t \in Transfers, receiver'.result = "kNone",
               receiver'.session.session_id = t.session_id,
               FinPacket(t) \in net, FinAck(t) \in net',
               \A m \in net' : m \in net \/ m = FinAck(t)
        PROVE  BInv(Units)'
    <2>1. NetOK'
      <3>1. Meant(FinAck(t), receiver')
        BY <1>8 DEF Meant, FinAck, Requests, Replies
      <3>2. \A m \in net : Meant(m, receiver')
        BY <1>3 DEF Meant
      <3> QED BY <1>8, <3>1, <3>2 DEF NetOK
    <2>2. FinAwaited'
      BY <1>2, <1>3, <1>5, <1>8 DEF FinAwaited
    <2>3. Answered'
      <3> SUFFICES ASSUME NEW u \in Transfers,
                          receiver'.session.session_id = u.session_id
                   PROVE  Settled(u)' \/ (Expecting(u)' /\ FinAck(u) \in net')
        BY DEF Answered, FinAck
      <3>1. u = t
        BY <1>8 DEF DistinctClients
      <3> QED BY <1>2, <1>3, <1>8, <3>1
    <2> QED BY <1>1, <1>2, <1>4, <2>1, <2>2, <2>3 DEF BInv
  <1> QED BY <1>1, <1>6, <1>7, <1>8

\* The call gives up waiting, fails, or takes note of something undecodable.
LEMMA ReceiverKeeps ==
  ASSUME NEW Units, BInv(Units), IdleExpires \/ ReceiverFails \/ ReceiveNoise
  PROVE  BInv(Units)'
  <1>1. Listening /\ sender' = sender /\ lost' = lost /\ net' = net
    BY DEF IdleExpires, ReceiverFails, ReceiveNoise
  <1>2. /\ SendersOK' /\ OnePerPort' /\ Losses'
        /\ \A t \in Transfers : /\ Expecting(t)' <=> Expecting(t)
                                /\ Settled(t)' <=> Settled(t)
    BY <1>1, SendersAsTheyWere
  <1>3. /\ \A m \in net : m.type \notin {"FIN_ACK", "ERROR"}
        /\ \A m \in net : m.type \in Requests => \E t \in Transfers : m \in PacketsOf(t)
        /\ \A m \in net : m.type \in Requests \cup Replies
        /\ \A t \in Transfers : sender[t].result # "kNone"
        /\ \A t \in Transfers : FinPacket(t) \in net => Expecting(t) \/ Settled(t)
    BY <1>1, NothingSaid
  <1>4. SenderNeverAhead' /\ NetOK' /\ FinAwaited'
    BY <1>1, <1>2, <1>3 DEF SenderNeverAhead, NetOK, Meant, FinAwaited
  <1>5. Call(receiver)
    BY DEF BInv, CallOK
  <1>6. CASE IdleExpires \/ ReceiverFails
    <2>1. PICK r : r \notin {"none", "kNone"} /\ Return(receiver.session, disk, r)
      BY <1>6, BlockingAssumption DEF IdleExpires, ReceiverFails
    <2>2. Leaves(receiver.session, disk)
      <3>1. CASE Holding(Units, receiver.session, disk)
        BY <3>1, HoldingLeaves
      <3>2. CASE receiver.session = NewSession /\ disk = EmptyDisk
        <4>1. Shaped(NewSession) /\ NewSession.published = FALSE
          BY DEF NewSession, Shaped, Members
        <4>2. DiskShaped(EmptyDisk) /\ DOMAIN EmptyDisk.names = {}
          BY NoEntries DEF EmptyDisk, DiskShaped
        <4> QED BY <3>2, <4>1, <4>2 DEF Leaves
      <3> QED BY <1>1, <3>1, <3>2 DEF BInv, CallOK
    <2>3. Call(receiver') /\ receiver'.result = r /\ VerdictMatchesDisk'
      BY <1>5, <2>1, <2>2, ReturnsNothing
    <2>4. CallOK(Units)' /\ Answered'
      BY <2>1, <2>3 DEF CallOK, Listening, Answered
    <2> QED BY <1>2, <1>4, <2>4 DEF BInv
  <1>7. CASE ReceiveNoise
    <2>1. /\ receiver'.session = receiver.session /\ receiver'.result = receiver.result
          /\ Call(receiver') /\ disk' = disk
      BY <1>5, <1>7 DEF ReceiveNoise, Call
    <2>2. CallOK(Units)' /\ Answered'
      BY <1>1, <2>1 DEF BInv, CallOK, Listening, Answered, VerdictMatchesDisk
    <2> QED BY <1>2, <1>4, <2>2 DEF BInv
  <1> QED BY <1>6, <1>7

\* Time passes with nothing in flight.
LEMMA TimeKeeps ==
  ASSUME NEW Units, BInv(Units), Time
  PROVE  BInv(Units)'
  <1>1. /\ net = {} /\ net' = {} /\ disk' = disk /\ lost' = lost
        /\ sender' = [t \in Transfers |-> Aged(sender[t])]
    BY DEF Time
  <1>2. /\ receiver'.session = receiver.session /\ receiver'.result = receiver.result
        /\ Call(receiver')
    BY DEF Time, BInv, CallOK, Call
  <1>3. \A t \in Transfers : /\ SenderOK(t, sender'[t])
                             /\ sender'[t].result = sender[t].result
                             /\ sender'[t].phase = sender[t].phase
    <2> SUFFICES ASSUME NEW t \in Transfers
                 PROVE  /\ SenderOK(t, sender'[t])
                        /\ sender'[t].result = sender[t].result
                        /\ sender'[t].phase = sender[t].phase
      OBVIOUS
    <2>1. sender'[t] = Aged(sender[t])
      BY <1>1
    <2>2. SenderOK(t, sender[t])
      BY DEF BInv, SendersOK
    <2>3. SenderOK(t, Aged(sender[t])) /\ Aged(sender[t]).result = sender[t].result
      BY <2>2, AgedOK
    <2>4. Aged(sender[t]).phase = sender[t].phase
      BY <2>2 DEF Aged, SenderOK, WindowOK, SenderParts
    <2> QED BY <2>1, <2>3, <2>4
  <1>4. SendersOK' /\ OnePerPort' /\ SenderNeverAhead' /\ Losses'
    BY <1>1, <1>2, <1>3 DEF BInv, SendersOK, OnePerPort, Busy, SenderNeverAhead, Losses
  <1>5. CallOK(Units)'
    BY <1>1, <1>2 DEF BInv, CallOK, Listening, VerdictMatchesDisk, Whole
  <1>6. NetOK' /\ FinAwaited'
    BY <1>1 DEF NetOK, FinAwaited
  <1>7. Answered'
    <2>1. \A t \in Transfers : Settled(t)' <=> Settled(t)
      BY <1>3 DEF Settled
    <2> QED BY <1>1, <1>2, <2>1 DEF BInv, Answered
  <1> QED BY <1>4, <1>5, <1>6, <1>7 DEF BInv

-----------------------------------------------------------------------------
\* The call and its clients begin in order.
LEMMA BlockingBegins ==
  ASSUME NEW Units, DistinctClients(Units), BlockingInit
  PROVE  BInv(Units)
  <1>1. /\ sender = [t \in Transfers |-> Idle] /\ net = {} /\ disk = EmptyDisk
        /\ receiver = [session |-> NewSession, idle |-> 0, result |-> "none"]
        /\ lost = [type \in {"START", "DATA", "FIN", "START_ACK", "ACK", "FIN_ACK",
                             "ERROR"} |-> 0]
    BY DEF BlockingInit, SenderInit
  <1>2. receiver.session = NewSession /\ receiver.result = "none" /\ Call(receiver)
    BY <1>1 DEF Call
  <1>3. CallOK(Units) /\ NetOK /\ FinAwaited /\ Answered
    BY <1>1, <1>2 DEF CallOK, NetOK, FinAwaited, Answered, VerdictMatchesDisk, Listening
  <1>4. Losses
    BY <1>1 DEF Losses, Requests, Replies
  <1>5. \A t \in Transfers : SenderOK(t, sender[t]) /\ sender[t].phase = "idle"
                             /\ sender[t].result = "none"
    <2> SUFFICES ASSUME NEW t \in Transfers
                 PROVE  SenderOK(t, Idle) /\ Idle.phase = "idle" /\ Idle.result = "none"
      BY <1>1
    <2>1. /\ Idle = [m \in SenderParts |-> Idle[m]] /\ Idle.phase = "idle"
          /\ Idle.result = "none" /\ Idle.attempt = 0 /\ Idle.waited = 0
          /\ Idle.next = 0 /\ Idle.in_flight = <<>>
      BY DEF Idle, SenderParts
    <2>2. Total(t) \in Nat /\ MaxRetries \in Nat /\ Rto \in Nat
      BY TotalNat, SenderAssumption
    <2>3. WindowOK(t, Idle)
      BY <2>1, <2>2, NoEntries DEF WindowOK
    <2> QED BY <2>1, <2>3 DEF SenderOK
  <1>6. SendersOK /\ OnePerPort /\ SenderNeverAhead
    BY <1>1, <1>5 DEF SendersOK, OnePerPort, Busy, SenderNeverAhead
  <1> QED BY <1>3, <1>4, <1>6 DEF BInv

\* Whatever happens to the datagrams, the call and the clients: the invariant holds.
THEOREM CallInOrder ==
  ASSUME NEW Units, DistinctClients(Units)
  PROVE  BlockingSpec => []BInv(Units)
  <1>1. BlockingInit => BInv(Units)
    BY BlockingBegins
  <1>2. BInv(Units) /\ [BlockingNext]_system => BInv(Units)'
    <2> SUFFICES ASSUME BInv(Units), [BlockingNext]_system
                 PROVE  BInv(Units)'
      OBVIOUS
    <2>1. CASE UNCHANGED system
      <3>1. /\ sender' = sender /\ net' = net /\ receiver' = receiver
            /\ disk' = disk /\ lost' = lost
        BY <2>1 DEF system
      <3>2. CallOK(Units)' /\ SenderNeverAhead' /\ NetOK'
        BY <3>1 DEF BInv, CallOK, Listening, VerdictMatchesDisk, Whole,
            SenderNeverAhead, NetOK
      <3>3. /\ SendersOK' /\ OnePerPort' /\ Losses'
            /\ \A t \in Transfers : /\ Expecting(t)' <=> Expecting(t)
                                    /\ Settled(t)' <=> Settled(t)
        BY <3>1, SendersAsTheyWere
      <3>4. FinAwaited' /\ Answered'
        BY <3>1, <3>3 DEF BInv, FinAwaited, Answered
      <3> QED BY <3>2, <3>3, <3>4 DEF BInv
    <2>2. CASE Delivery
      BY <2>2, PacketKeeps, SendersKeep, NetworkKeeps DEF Delivery
    <2>3. CASE ReceiveNoise \/ IdleExpires \/ ReceiverFails
      BY <2>3, ReceiverKeeps
    <2>4. CASE \E t \in Transfers :
                 \/ Begin(t) /\ UNCHANGED others
                 \/ SenderTimeout(t)
                 \/ LocalFailure(t) /\ UNCHANGED others
      BY <2>4, SendersKeep
    <2>5. CASE \E m \in net : Lose(m)
      BY <2>5, NetworkKeeps
    <2>6. CASE Time
      BY <2>6, TimeKeeps
    <2> QED BY <2>1, <2>2, <2>3, <2>4, <2>5, <2>6 DEF BlockingNext
  <1> QED BY <1>1, <1>2, PTL DEF BlockingSpec

\* What receive_file returns is what is on disk, whoever else writes to its port,
\* whatever is lost, and wherever one of its own calls fails.
THEOREM VerdictIsOnDisk ==
  ASSUME NEW Units, DistinctClients(Units)
  PROVE  BlockingSpec => []VerdictMatchesDisk
  <1>1. BInv(Units) => VerdictMatchesDisk
    BY DEF BInv, CallOK
  <1> QED BY <1>1, CallInOrder, PTL

\* A send_file that reports success has been answered by a receive_file that has
\* returned success for that very session.
THEOREM ReceiverFirst ==
  ASSUME NEW Units, DistinctClients(Units)
  PROVE  BlockingSpec => []SenderNeverAhead
  <1>1. BInv(Units) => SenderNeverAhead
    BY DEF BInv
  <1> QED BY <1>1, CallInOrder, PTL

\* With the file published, a sender without an error of its own reports a failure
\* only if a FIN_ACK was lost.
THEOREM OnlyLossDivides ==
  ASSUME NEW Units, DistinctClients(Units)
  PROVE  BlockingSpec => []DisagreementNeedsLoss
  <1>1. BInv(Units) => DisagreementNeedsLoss
    BY DEF BInv, Answered, DisagreementNeedsLoss, Done, Expecting, Settled
  <1> QED BY <1>1, CallInOrder, PTL
-----------------------------------------------------------------------------
(***************************************************************************)
(* The digest both ends compare                                            *)
(***************************************************************************)

\* Bytes, and the bytes of a length: the provers do not compute powers, so these
\* are counted in without being shown to lie below 256.
Octet == Byte \cup {Shr(n, k) % 256 : n \in Nat, k \in Nat}

\* A Sha256 object between two calls: whole blocks compressed, less than one kept.
Hasher ==
  {h \in [compressed : Seq(Octet), buffer : Seq(Octet), total_bits : Nat] :
     Len(h.compressed) % 64 = 0 /\ Len(h.buffer) < 64}

\* What it has been given so far.
Given(h) == h.compressed \o h.buffer
-----------------------------------------------------------------------------
\* Whole blocks: what update compresses is a multiple of 64, and less than a block
\* is left.
LEMMA WholeBlocks ==
  ASSUME NEW n \in Nat
  PROVE  /\ (n \div 64) * 64 \in 0 .. n
         /\ n - (n \div 64) * 64 < 64
         /\ ((n \div 64) * 64) % 64 = 0
  OBVIOUS

\* Multiples of 64 add up.
LEMMA MultiplesAdd ==
  \A l, m, n \in Nat :
    l % 64 = 0 /\ m % 64 = 0 /\ n % 64 = 0 => ((l + m) + n) % 64 = 0
  OBVIOUS

\* How many zeros the standard asks for, by the place of the last byte in its block.
LEMMA ZerosNeeded ==
  ASSUME NEW m \in Nat, NEW n \in 0 .. 63, m % 64 = 0
  PROVE  (119 - ((m + n) % 64)) % 64 =
           IF n + 1 > 56 THEN (64 - (n + 1)) + 56 ELSE 56 - (n + 1)
  <1>1. (m + n) % 64 = n
    OBVIOUS
  <1>2. CASE n + 1 > 56
    BY <1>1, <1>2
  <1>3. CASE n + 1 <= 56
    <2>1. 119 - n \in 64 .. 127
      BY <1>3
    <2>2. (119 - n) % 64 = 55 - n
      BY <2>1
    <2> QED BY <1>1, <1>3, <2>2
  <1> QED BY <1>2, <1>3

\* Concatenation of bytes is associative.
LEMMA Associative ==
  \A s, t, u \in Seq(Octet) : (s \o t) \o u = s \o (t \o u)
  BY ConcatAssociative, SMTT(60)

\* So many bytes and so many more.
LEMMA Concatenated ==
  \A s, t \in Seq(Octet) : s \o t \in Seq(Octet) /\ Len(s \o t) = Len(s) + Len(t)
  BY ConcatProperties

\* A length is a natural number.
LEMMA Lengths == \A s \in Seq(Octet) : Len(s) \in Nat
  BY LenProperties

\* A prefix, a middle and the rest are the whole.
LEMMA ThreeParts ==
  ASSUME NEW data \in Seq(Octet), NEW m \in 0 .. Len(data), NEW n \in m .. Len(data)
  PROVE  LET a == SubSeq(data, 1, m)
             b == SubSeq(data, m + 1, n)
             c == SubSeq(data, n + 1, Len(data))
         IN /\ a \in Seq(Octet) /\ b \in Seq(Octet) /\ c \in Seq(Octet)
            /\ Len(a) = m /\ Len(b) = n - m /\ Len(c) = Len(data) - n
            /\ a \o (b \o c) = data
  <1> DEFINE a == SubSeq(data, 1, m)
             b == SubSeq(data, m + 1, n)
             c == SubSeq(data, n + 1, Len(data))
  <1>0. Len(data) \in Nat /\ \A i \in 1 .. Len(data) : data[i] \in Octet
    BY LenProperties, ElementOfSeq
  <1>1. a \in Seq(Octet) /\ Len(a) = m
    <2>1. \A i \in 1 .. m : data[i] \in Octet
      BY <1>0
    <2> QED BY <1>0, <2>1, SubSeqProperties
  <1>2. b \in Seq(Octet) /\ Len(b) = n - m
    <2>1. \A i \in m + 1 .. n : data[i] \in Octet
      BY <1>0
    <2> QED BY <1>0, <2>1, SubSeqProperties
  <1>3. c \in Seq(Octet) /\ Len(c) = Len(data) - n
    <2>1. \A i \in n + 1 .. Len(data) : data[i] \in Octet
      BY <1>0
    <2> QED BY <1>0, <2>1, SubSeqProperties
  <1>4. b \o c = SubSeq(data, m + 1, Len(data))
    <2>1. /\ m + 1 \in 1 .. Len(data) + 1
          /\ n \in (m + 1) - 1 .. Len(data)
          /\ Len(data) \in n .. Len(data)
      BY <1>0
    <2> QED BY <2>1, ConcatAdjacentSubSeq
  <1>5. a \o SubSeq(data, m + 1, Len(data)) = SubSeq(data, 1, Len(data))
    <2>1. /\ 1 \in 1 .. Len(data) + 1
          /\ m \in 1 - 1 .. Len(data)
          /\ Len(data) \in m .. Len(data)
      BY <1>0
    <2> QED BY <2>1, ConcatAdjacentSubSeq
  <1>6. SubSeq(data, 1, Len(data)) = data
    BY SubSeqFull
  <1> QED BY <1>1, <1>2, <1>3, <1>4, <1>5, <1>6, ZenonT(60)

\* The members of a hasher.
LEMMA HasherMembers ==
  ASSUME NEW h \in Hasher
  PROVE  /\ h.compressed \in Seq(Octet) /\ h.buffer \in Seq(Octet)
         /\ h.total_bits \in Nat
         /\ Len(h.compressed) \in Nat /\ Len(h.buffer) \in 0 .. 63
         /\ Len(h.compressed) % 64 = 0
  <1>1. /\ h.compressed \in Seq(Octet) /\ h.buffer \in Seq(Octet)
        /\ h.total_bits \in Nat
        /\ Len(h.compressed) % 64 = 0 /\ Len(h.buffer) < 64
    BY DEF Hasher
  <1>2. Len(h.compressed) \in Nat /\ Len(h.buffer) \in Nat
    BY <1>1, Lengths
  <1>3. \A n \in Nat : n < 64 => n \in 0 .. 63
    OBVIOUS
  <1> QED BY <1>1, <1>2, <1>3, Zenon

\* A hasher of whole blocks and less than one more.
LEMMA HasherMade ==
  ASSUME NEW x \in Seq(Octet), NEW y \in Seq(Octet), NEW n \in Nat,
         Len(x) % 64 = 0, Len(y) < 64
  PROVE  [compressed |-> x, buffer |-> y, total_bits |-> n] \in Hasher
  BY DEF Hasher

\* update loses nothing, adds nothing and keeps the order, and leaves whole blocks.
LEMMA UpdateProperties ==
  ASSUME NEW h \in Hasher, NEW data \in Seq(Octet)
  PROVE  /\ update(h, data) \in Hasher
         /\ Given(update(h, data)) = Given(h) \o data
         /\ update(h, data).total_bits = h.total_bits + 8 * Len(data)
  <1> DEFINE x == h.compressed
             y == h.buffer
             take == IF y = <<>> THEN 0 ELSE 64 - Len(y)
             whole == ((Len(data) - take) \div 64) * 64
             bits == h.total_bits + 8 * Len(data)
             a == SubSeq(data, 1, take)
             b == SubSeq(data, take + 1, take + whole)
             c == SubSeq(data, take + whole + 1, Len(data))
  <1>1. /\ x \in Seq(Octet) /\ y \in Seq(Octet)
        /\ Len(x) \in Nat /\ Len(y) \in 0 .. 63 /\ Len(x) % 64 = 0
    BY HasherMembers
  <1>2. Len(data) \in Nat
    BY Lengths
  <1>3. bits \in Nat
    <2>1. h.total_bits \in Nat
      BY HasherMembers
    <2> QED BY <1>2, <2>1
  <1>4. update(h, data) =
          IF Len(data) < take
          THEN [compressed |-> x, buffer |-> y \o data, total_bits |-> bits]
          ELSE [compressed |-> (x \o (y \o a)) \o b, buffer |-> c,
                total_bits |-> bits]
    BY DEF update
  <1> HIDE DEF x
  <1>5. take \in 0 .. 64 /\ (Len(y) + take = 64 \/ Len(y) + take = 0)
    <2>1. CASE y = <<>>
      <3>1. take = 0 /\ Len(y) = 0
        BY <2>1
      <3> QED BY <3>1
    <2>2. CASE y # <<>>
      <3>1. take = 64 - Len(y)
        BY <2>2
      <3>2. Len(y) \in 0 .. 63
        BY <1>1
      <3>3. \A n \in 0 .. 63 : 64 - n \in 0 .. 64 /\ n + (64 - n) = 64
        OBVIOUS
      <3> HIDE DEF take, y
      <3> QED BY <3>1, <3>2, <3>3, Zenon
    <2> QED BY <2>1, <2>2
  <1>6. Given(h) = x \o y
    BY DEF Given, x
  <1> HIDE DEF y, take, whole, bits, a, b, c
  <1>7. CASE Len(data) < take
    <2>1. y \o data \in Seq(Octet) /\ Len(y \o data) = Len(y) + Len(data)
      BY <1>1, Concatenated
    <2>2. Len(y \o data) < 64
      BY <1>1, <1>2, <1>5, <1>7, <2>1
    <2>3. x \o (y \o data) = (x \o y) \o data
      BY <1>1, Associative
    <2>4. update(h, data) = [compressed |-> x, buffer |-> y \o data,
                             total_bits |-> bits]
      BY <1>4, <1>7
    <2>5. update(h, data) \in Hasher
      BY <1>1, <1>3, <2>1, <2>2, <2>4, HasherMade
    <2>6. Given(update(h, data)) = x \o (y \o data)
      BY <2>4 DEF Given
    <2>7. update(h, data).total_bits = bits
      BY <2>4
    <2> QED BY <1>6, <2>3, <2>5, <2>6, <2>7 DEF bits
  <1>8. CASE ~ (Len(data) < take)
    <2> DEFINE compressed == (x \o (y \o a)) \o b
    <2>1. Len(data) - take \in Nat
      BY <1>2, <1>5, <1>8
    <2>2. /\ whole \in 0 .. Len(data) - take
          /\ (Len(data) - take) - whole < 64 /\ whole % 64 = 0
      BY <2>1, WholeBlocks DEF whole
    <2>3. take \in 0 .. Len(data) /\ take + whole \in take .. Len(data)
      BY <1>2, <1>5, <2>1, <2>2
    <2>4. /\ a \in Seq(Octet) /\ b \in Seq(Octet) /\ c \in Seq(Octet)
          /\ Len(a) = take /\ Len(b) = (take + whole) - take
          /\ Len(c) = Len(data) - (take + whole)
          /\ a \o (b \o c) = data
      BY <2>3, ThreeParts, ZenonT(60) DEF a, b, c
    <2>5. /\ compressed \in Seq(Octet)
          /\ Len(compressed) = (Len(x) + (Len(y) + Len(a))) + Len(b)
          /\ compressed \o c = (x \o y) \o (a \o (b \o c))
      <3>1. /\ x \in Seq(Octet) /\ y \in Seq(Octet) /\ a \in Seq(Octet)
            /\ b \in Seq(Octet) /\ c \in Seq(Octet)
        BY <1>1, <2>4
      <3>2. y \o a \in Seq(Octet) /\ Len(y \o a) = Len(y) + Len(a)
        BY <3>1, Concatenated
      <3>3. /\ x \o (y \o a) \in Seq(Octet)
            /\ Len(x \o (y \o a)) = Len(x) + Len(y \o a)
        BY <3>1, <3>2, Concatenated
      <3>4. /\ compressed \in Seq(Octet)
            /\ Len(compressed) = Len(x \o (y \o a)) + Len(b)
        BY <3>1, <3>3, Concatenated
      <3>5. x \o y \in Seq(Octet) /\ b \o c \in Seq(Octet)
        BY <3>1, Concatenated
      <3>6. (x \o y) \o a = x \o (y \o a)
        BY <3>1, Associative, ZenonT(60)
      <3>7. compressed \o c = (x \o (y \o a)) \o (b \o c)
        BY <3>1, <3>3, Associative, ZenonT(60)
      <3>8. \A s, t, u \in Seq(Octet) : (s \o t) \o u = s \o (t \o u)
        BY Associative
      <3>9. ((x \o y) \o a) \o (b \o c) = (x \o y) \o (a \o (b \o c))
        BY <3>1, <3>5, <3>8, SMTT(90)
      <3> HIDE DEF compressed
      <3> QED BY <3>2, <3>3, <3>4, <3>6, <3>7, <3>9, Zenon
    <2> HIDE DEF compressed
    <2>6. Len(compressed) % 64 = 0
      <3>1. /\ Len(b) = whole /\ whole \in Nat
            /\ Len(y) + Len(a) \in Nat /\ (Len(y) + Len(a)) % 64 = 0
        <4>1. Len(b) = whole /\ whole \in Nat
          BY <1>5, <2>1, <2>2, <2>4
        <4>2. Len(y) + Len(a) = 64 \/ Len(y) + Len(a) = 0
          BY <1>5, <2>4
        <4>3. \A n : n = 64 \/ n = 0 => n \in Nat /\ n % 64 = 0
          OBVIOUS
        <4> QED BY <4>1, <4>2, <4>3, Zenon
      <3>2. Len(x) \in Nat /\ Len(x) % 64 = 0
        BY <1>1
      <3>3. ((Len(x) + (Len(y) + Len(a))) + whole) % 64 = 0
        BY <2>2, <3>1, <3>2, MultiplesAdd
      <3> QED BY <2>5, <3>1, <3>3
    <2>7. Len(c) < 64
      BY <1>2, <1>5, <2>2, <2>3, <2>4
    <2>8. update(h, data) = [compressed |-> compressed, buffer |-> c,
                             total_bits |-> bits]
      BY <1>4, <1>8 DEF compressed
    <2>9. update(h, data) \in Hasher
      BY <1>3, <2>4, <2>5, <2>6, <2>7, <2>8, HasherMade
    <2>10. Given(update(h, data)) = compressed \o c
      BY <2>8 DEF Given
    <2>11. update(h, data).total_bits = bits
      BY <2>8
    <2> QED BY <1>6, <2>4, <2>5, <2>9, <2>10, <2>11 DEF bits
  <1> QED BY <1>7, <1>8

\* Zeros are bytes, and as many as asked for.
LEMMA ZerosProperties ==
  ASSUME NEW n \in Nat
  PROVE  Zeros(n) \in Seq(Octet) /\ Len(Zeros(n)) = n
  BY DEF Zeros, Octet, Byte

\* The length is eight bytes, whatever the message.
LEMMA LengthProperties ==
  ASSUME NEW n \in Nat
  PROVE  LengthBytes(n) \in Seq(Octet) /\ Len(LengthBytes(n)) = 8
  <1>1. \A i \in 1 .. 8 : 8 * (8 - i) \in Nat
    OBVIOUS
  <1>2. \A i \in 1 .. 8 : Shr(n, 8 * (8 - i)) % 256 \in Octet
    <2>1. \A k \in Nat : Shr(n, k) % 256 \in Octet
      BY SMT DEF Octet
    <2> QED BY <1>1, <2>1, Zenon
  <1> QED BY <1>2 DEF LengthBytes

\* Zeros follow zeros.
LEMMA ZerosAdd ==
  ASSUME NEW m \in Nat, NEW n \in Nat
  PROVE  Zeros(m) \o Zeros(n) = Zeros(m + n)
  <1>1. /\ Zeros(m) \o Zeros(n) \in Seq(Octet)
        /\ Len(Zeros(m) \o Zeros(n)) = m + n
        /\ \A i \in 1 .. m + n : (Zeros(m) \o Zeros(n))[i] =
              IF i <= m THEN Zeros(m)[i] ELSE Zeros(n)[i - m]
    <2>1. /\ Zeros(m) \in Seq(Octet) /\ Len(Zeros(m)) = m
          /\ Zeros(n) \in Seq(Octet) /\ Len(Zeros(n)) = n
      BY ZerosProperties
    <2>2. LET s == Zeros(m) \o Zeros(n)
          IN /\ s \in Seq(Octet) /\ Len(s) = Len(Zeros(m)) + Len(Zeros(n))
             /\ \A i \in 1 .. Len(Zeros(m)) + Len(Zeros(n)) : s[i] =
                  IF i <= Len(Zeros(m)) THEN Zeros(m)[i]
                                        ELSE Zeros(n)[i - Len(Zeros(m))]
      BY <2>1, ConcatProperties, Zenon
    <2> QED BY <2>1, <2>2, Zenon
  <1>2. \A i \in 1 .. m + n : (Zeros(m) \o Zeros(n))[i] = Zeros(m + n)[i]
    BY <1>1 DEF Zeros
  <1>3. Zeros(m + n) \in Seq(Octet) /\ Len(Zeros(m + n)) = m + n
    BY ZerosProperties
  <1> QED BY <1>1, <1>2, <1>3, SeqEqual

\* finish pads as the standard says, wherever in its block the message ends.
LEMMA FinishProperties ==
  ASSUME NEW h \in Hasher, h.total_bits = 8 * Len(Given(h))
  PROVE  finish(h).compressed = Padded(Given(h))
  <1> DEFINE done == h.compressed
             kept == h.buffer
             marker == <<128>>
             marked == kept \o marker
             zeros == (119 - (Len(Given(h)) % 64)) % 64
             length == LengthBytes(h.total_bits)
             fill == (IF Len(marked) > 56 THEN 64 ELSE 56) - Len(marked)
  <1>1. /\ done \in Seq(Octet) /\ kept \in Seq(Octet) /\ Given(h) = done \o kept
        /\ Len(done) \in Nat /\ Len(kept) \in 0 .. 63 /\ Len(done) % 64 = 0
    BY HasherMembers, Zenon DEF Given
  <1>2. marker \in Seq(Octet) /\ Len(marker) = 1
    BY DEF Byte, Octet
  <1>3. length \in Seq(Octet)
    BY LengthProperties, HasherMembers
  <1>4. finish(h).compressed =
          IF Len(marked) > 56
          THEN ((done \o marked) \o Zeros(fill))
                 \o ((<<>> \o Zeros(56 - Len(<<>>))) \o length)
          ELSE done \o ((marked \o Zeros(fill)) \o length)
    BY DEF finish
  <1>5. Padded(Given(h)) = (((done \o kept) \o marker) \o Zeros(zeros)) \o length
    BY <1>1 DEF Padded
  <1> HIDE DEF done, kept, marker, length
  <1>6. marked \in Seq(Octet) /\ Len(marked) = Len(kept) + 1
    BY <1>1, <1>2, Concatenated, ZenonT(60)
  <1>7. (done \o kept) \o marker = done \o marked
    BY <1>1, <1>2, Associative
  <1> HIDE DEF marked
  <1>8. done \o marked \in Seq(Octet)
    BY <1>1, <1>6, Concatenated
  <1>9. /\ fill \in Nat
        /\ zeros = IF Len(marked) > 56 THEN fill + 56 ELSE fill
    <2>1. Len(Given(h)) = Len(done) + Len(kept)
      BY <1>1, Concatenated
    <2>2. zeros = IF Len(kept) + 1 > 56 THEN (64 - (Len(kept) + 1)) + 56
                                        ELSE 56 - (Len(kept) + 1)
      <3>1. Len(done) \in Nat /\ Len(kept) \in 0 .. 63 /\ Len(done) % 64 = 0
        BY <1>1
      <3>2. (119 - ((Len(done) + Len(kept)) % 64)) % 64 =
              IF Len(kept) + 1 > 56 THEN (64 - (Len(kept) + 1)) + 56
                                    ELSE 56 - (Len(kept) + 1)
        BY <3>1, ZerosNeeded
      <3> QED BY <2>1, <3>2, Zenon
    <2>3. \A n \in 0 .. 63 :
            /\ (IF n + 1 > 56 THEN 64 ELSE 56) - (n + 1) \in Nat
            /\ (IF n + 1 > 56 THEN (64 - (n + 1)) + 56 ELSE 56 - (n + 1)) =
                 IF n + 1 > 56 THEN ((IF n + 1 > 56 THEN 64 ELSE 56) - (n + 1)) + 56
                               ELSE (IF n + 1 > 56 THEN 64 ELSE 56) - (n + 1)
      OBVIOUS
    <2> HIDE DEF zeros
    <2> QED BY <1>1, <1>6, <2>2, <2>3, Zenon
  <1> HIDE DEF zeros, fill
  <1>10. Zeros(fill) \in Seq(Octet) /\ Zeros(56) \in Seq(Octet)
    BY <1>9, ZerosProperties
  <1>11. CASE Len(marked) > 56
    <2> DEFINE front == (done \o marked) \o Zeros(fill)
    <2>1. <<>> \o Zeros(56 - Len(<<>>)) = Zeros(56)
      <3>1. 56 - Len(<<>>) = 56
        OBVIOUS
      <3> QED BY <1>10, <3>1, ConcatEmptySeq
    <2>2. front \in Seq(Octet)
      BY <1>8, <1>10, Concatenated
    <2>3. front \o Zeros(56) = (done \o marked) \o Zeros(zeros)
      <3>1. front \o Zeros(56) = (done \o marked) \o (Zeros(fill) \o Zeros(56))
        BY <1>8, <1>10, Associative, ZenonT(60)
      <3> QED BY <1>9, <1>11, <3>1, ZerosAdd
    <2>4. finish(h).compressed = front \o (Zeros(56) \o length)
      BY <1>4, <1>11, <2>1
    <2> HIDE DEF front
    <2>5. front \o (Zeros(56) \o length) = (front \o Zeros(56)) \o length
      BY <1>3, <1>10, <2>2, Associative
    <2> QED BY <1>5, <1>7, <2>3, <2>4, <2>5
  <1>12. CASE ~ (Len(marked) > 56)
    <2>1. marked \o Zeros(fill) \in Seq(Octet)
      BY <1>6, <1>10, Concatenated
    <2>2. done \o ((marked \o Zeros(fill)) \o length)
            = (done \o (marked \o Zeros(fill))) \o length
      BY <1>1, <1>3, <2>1, Associative, ZenonT(60)
    <2>3. done \o (marked \o Zeros(fill)) = (done \o marked) \o Zeros(fill)
      BY <1>1, <1>6, <1>10, Associative, ZenonT(60)
    <2> QED BY <1>4, <1>5, <1>7, <1>9, <1>12, <2>2, <2>3
  <1> QED BY <1>11, <1>12
-----------------------------------------------------------------------------
\* The loop: what was read of this piece, and what the hasher was given, is the
\* file up to here.
IInv ==
  /\ offset \in Nat /\ piece \in Seq(Octet)
  /\ result = "none" =>
       /\ offset + Len(piece) <= Len(File)
       /\ offset <= Size /\ (offset < Size => Len(piece) <= Want)
       /\ (offset >= Size => piece = <<>>)
       /\ piece = SubSeq(File, offset + 1, offset + Len(piece))
       /\ hasher \in Hasher
       /\ Given(hasher) = SubSeq(File, 1, offset)
       /\ hasher.total_bits = 8 * offset
  /\ Digested

\* The loop starts with nothing read and nothing hashed.
LEMMA InitIInv ==
  ASSUME File \in Seq(Octet), Size \in Nat, BufferSize \in Nat \ {0}, Init
  PROVE  IInv
  <1>1. /\ offset = 0 /\ piece = <<>> /\ hasher = NewHasher /\ result = "none"
    BY DEF Init
  <1>2. Len(File) \in Nat
    BY Lengths
  <1>3. SubSeq(File, 1, 0) = <<>>
    BY SubSeqEmpty
  <1>4. <<>> \in Seq(Octet) /\ Len(<<>>) = 0
    BY EmptySeq
  <1>5. NewHasher \in Hasher
    <2>1. Len(<<>>) % 64 = 0 /\ Len(<<>>) < 64 /\ 0 \in Nat
      OBVIOUS
    <2> QED BY <1>4, <2>1, HasherMade, Zenon DEF NewHasher
  <1>6. Given(NewHasher) = <<>>
    BY <1>4, ConcatEmptySeq DEF Given, NewHasher
  <1>7. Digested
    BY <1>1 DEF Digested
  <1>8. Want \in Nat
    BY <1>1 DEF Want
  <1> QED BY <1>1, <1>2, <1>3, <1>4, <1>5, <1>6, <1>7, <1>8 DEF IInv, NewHasher

\* A piece that follows a prefix of the file makes a longer prefix.
LEMMA PrefixGrows ==
  ASSUME File \in Seq(Octet), NEW m \in Nat, NEW n \in Nat, NEW k \in 1 .. Len(File) + 1,
         k - 1 <= m, m + n <= Len(File)
  PROVE  /\ SubSeq(File, m + 1, m + n) \in Seq(Octet)
         /\ Len(SubSeq(File, m + 1, m + n)) = n
         /\ SubSeq(File, k, m) \o SubSeq(File, m + 1, m + n) = SubSeq(File, k, m + n)
  <1>1. Len(File) \in Nat /\ \A i \in 1 .. Len(File) : File[i] \in Octet
    BY Lengths, ElementOfSeq
  <1>2. \A i \in m + 1 .. m + n : File[i] \in Octet
    BY <1>1
  <1>3. m + 1 \in Int /\ m + n \in Int
    OBVIOUS
  <1>4. /\ SubSeq(File, m + 1, m + n) \in Seq(Octet)
        /\ Len(SubSeq(File, m + 1, m + n)) =
             IF m + 1 <= m + n THEN (m + n) - (m + 1) + 1 ELSE 0
    BY <1>2, <1>3, SubSeqProperties
  <1>5. m \in k - 1 .. Len(File) /\ m + n \in m .. Len(File)
    BY <1>1
  <1>6. SubSeq(File, k, m) \o SubSeq(File, m + 1, m + n) = SubSeq(File, k, m + n)
    BY <1>5, ConcatAdjacentSubSeq
  <1> QED BY <1>4, <1>6

\* Every step of the loop, pread's short counts included, keeps it so.
LEMMA NextIInv ==
  ASSUME File \in Seq(Octet), Size \in Nat, BufferSize \in Nat \ {0},
         IInv, [Next]_vars
  PROVE  IInv'
  <1>1. Len(File) \in Nat /\ Len(piece) \in Nat /\ offset \in Nat
        /\ piece \in Seq(Octet)
    BY Lengths DEF IInv
  <1>2. CASE Pread
    <2>1. PICK n \in 1 .. Want - Len(piece) :
            /\ offset + Len(piece) + n <= Len(File)
            /\ piece' = piece \o SubSeq(File, offset + Len(piece) + 1,
                                              offset + Len(piece) + n)
      BY <1>2 DEF Pread
    <2>2. /\ result = "none" /\ offset < Size /\ Len(piece) < Want
          /\ offset' = offset /\ hasher' = hasher /\ result' = result
      BY <1>2 DEF Pread, Reading
    <2>3. Want \in Nat /\ Want' = Want /\ n \in Nat /\ offset + Len(piece) \in Nat
          /\ Len(piece) + n <= Want
      BY <1>1, <2>2 DEF Want
    <2>4. piece = SubSeq(File, offset + 1, offset + Len(piece))
      BY <2>2 DEF IInv
    <2> DEFINE m == offset + Len(piece)
               more == SubSeq(File, m + 1, m + n)
    <2>5. /\ m \in Nat /\ n \in Nat /\ offset + 1 \in 1 .. Len(File) + 1
          /\ (offset + 1) - 1 <= m /\ m + n <= Len(File)
      BY <1>1, <2>1, <2>3
    <2> HIDE DEF m
    <2>6. /\ more \in Seq(Octet) /\ Len(more) = n
          /\ SubSeq(File, offset + 1, m) \o more = SubSeq(File, offset + 1, m + n)
      BY <2>5, PrefixGrows
    <2>7. piece' = piece \o more
      BY <2>1 DEF m
    <2> HIDE DEF more
    <2>8. piece' \in Seq(Octet) /\ Len(piece') = Len(piece) + n
      BY <1>1, <2>6, <2>7, Concatenated, Zenon
    <2>9. piece' = SubSeq(File, offset + 1, offset + Len(piece'))
      <3>1. m + n = offset + Len(piece')
        BY <1>1, <2>3, <2>8 DEF m
      <3>2. piece = SubSeq(File, offset + 1, m)
        BY <2>4 DEF m
      <3> QED BY <2>6, <2>7, <3>1, <3>2, Zenon
    <2>10. /\ offset + Len(piece') <= Len(File) /\ Len(piece') <= Want
      BY <1>1, <2>3, <2>5, <2>8 DEF m
    <2>11. Digested'
      BY <2>2 DEF Digested
    <2>12. /\ hasher \in Hasher /\ Given(hasher) = SubSeq(File, 1, offset)
           /\ hasher.total_bits = 8 * offset /\ offset <= Size
      BY <2>2 DEF IInv
    <2>13. ~ (offset >= Size)
      BY <1>1, <2>2
    <2> QED BY <1>1, <2>2, <2>3, <2>8, <2>9, <2>10, <2>11, <2>12, <2>13, Zenon
            DEF IInv
  <1>3. CASE ReadFails
    BY <1>3 DEF IInv, ReadFails, Digested
  <1>4. CASE Update
    <2>1. /\ result = "none" /\ offset < Size /\ Len(piece) = Want
          /\ hasher' = update(hasher, piece) /\ offset' = offset + Want
          /\ piece' = <<>> /\ result' = result
      BY <1>4 DEF Update
    <2>2. /\ offset + Len(piece) <= Len(File)
          /\ piece = SubSeq(File, offset + 1, offset + Len(piece))
          /\ hasher \in Hasher /\ Given(hasher) = SubSeq(File, 1, offset)
          /\ hasher.total_bits = 8 * offset
      BY <2>1 DEF IInv
    <2>3. /\ offset' = offset + Len(piece) /\ offset' \in Nat /\ offset' <= Size
          /\ offset' <= Len(File) /\ offset' + 0 <= Len(File)
      BY <1>1, <2>1, <2>2 DEF Want
    <2>4. /\ hasher' \in Hasher /\ Given(hasher') = Given(hasher) \o piece
          /\ hasher'.total_bits = hasher.total_bits + 8 * Len(piece)
      BY <1>1, <2>1, <2>2, UpdateProperties, Zenon
    <2>5. Given(hasher') = SubSeq(File, 1, offset')
      <3>1. 1 \in 1 .. Len(File) + 1 /\ 1 - 1 <= offset
        BY <1>1
      <3>2. SubSeq(File, 1, offset) \o SubSeq(File, offset + 1, offset + Len(piece))
              = SubSeq(File, 1, offset + Len(piece))
        BY <1>1, <2>2, <3>1, PrefixGrows
      <3> QED BY <2>2, <2>3, <2>4, <3>2, Zenon
    <2>6. hasher'.total_bits = 8 * offset'
      BY <1>1, <2>2, <2>3, <2>4
    <2>7. <<>> \in Seq(Octet) /\ Len(<<>>) = 0
      BY EmptySeq
    <2>8. SubSeq(File, offset' + 1, offset' + Len(<<>>)) = <<>>
      <3>1. /\ offset' + 1 \in Int /\ offset' + Len(<<>>) \in Int
            /\ offset' + Len(<<>>) < offset' + 1
        BY <2>3, <2>7
      <3> QED BY <3>1, SubSeqEmpty, Zenon
    <2>9. offset' < Size => Len(<<>>) <= Want'
      BY <2>3, <2>7 DEF Want
    <2>10. Digested'
      BY <2>1 DEF Digested
    <2>11. offset' + Len(<<>>) <= Len(File)
      BY <2>3, <2>7
    <2> QED BY <2>1, <2>3, <2>4, <2>5, <2>6, <2>7, <2>8, <2>9, <2>10, <2>11, Zenon
            DEF IInv
  <1>5. CASE FinishDigest
    <2>1. /\ result = "none" /\ offset >= Size /\ hasher' = finish(hasher)
          /\ result' = "done" /\ offset' = offset /\ piece' = piece
      BY <1>5 DEF FinishDigest
    <2>2. /\ offset <= Size /\ offset + Len(piece) <= Len(File)
          /\ hasher \in Hasher /\ Given(hasher) = SubSeq(File, 1, offset)
          /\ hasher.total_bits = 8 * offset
      BY <2>1 DEF IInv
    <2>3. offset = Size /\ Size <= Len(File)
      BY <1>1, <2>1, <2>2
    <2>4. Len(Given(hasher)) = offset
      <3>1. /\ 0 \in Nat /\ 1 \in 1 .. Len(File) + 1 /\ 1 - 1 <= 0
            /\ 0 + offset <= Len(File) /\ 0 + offset = offset /\ 0 + 1 = 1
        BY <1>1, <2>2
      <3>2. Len(SubSeq(File, 0 + 1, 0 + offset)) = offset
        BY <1>1, <3>1, PrefixGrows
      <3> QED BY <2>2, <3>1, <3>2
    <2>5. hasher'.compressed = Padded(SubSeq(File, 1, Size))
      <3>1. hasher.total_bits = 8 * Len(Given(hasher))
        BY <2>2, <2>4
      <3>2. finish(hasher).compressed = Padded(Given(hasher))
        BY <2>2, <3>1, FinishProperties
      <3> QED BY <2>1, <2>2, <2>3, <3>2, Zenon
    <2> QED BY <1>1, <2>1, <2>3, <2>5 DEF IInv, Digested
  <1>6. CASE UNCHANGED vars
    <2>1. /\ offset' = offset /\ piece' = piece /\ hasher' = hasher
          /\ result' = result
      BY <1>6 DEF vars
    <2> QED BY <2>1 DEF IInv, Digested, Want
  <1> QED BY <1>2, <1>3, <1>4, <1>5, <1>6 DEF Next

\* hash_file and on_fin hash the padded message of the first Size bytes, all of
\* which were there, whatever pread returned from call to call.
THEOREM DigestIsOfTheFile ==
  ASSUME File \in Seq(Byte), Size \in Nat, BufferSize \in Nat \ {0}
  PROVE  Spec => []Digested
  <1>1. File \in Seq(Octet)
    <2>1. Byte \subseteq Octet
      BY DEF Octet
    <2> QED BY <2>1, SeqMonotonic
  <1>2. Init => IInv
    BY <1>1, InitIInv
  <1>3. IInv /\ [Next]_vars => IInv'
    BY <1>1, NextIInv
  <1>4. IInv => Digested
    BY DEF IInv
  <1> QED BY <1>2, <1>3, <1>4, PTL DEF Spec
=============================================================================
