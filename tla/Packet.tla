------------------------------- MODULE Packet -------------------------------
(***************************************************************************)
(* The datagrams of one transfer, as send_file (sender.cpp) builds them.   *)
(* A transfer is a record [from, session_id, name, contents]: the client's *)
(* address, the id it drew, the remote name as a path, the file's bytes as *)
(* a sequence of units.  Checksums and byte order are left out: a datagram *)
(* that fails to deserialize is dropped by every receiver, like a lost one.*)
(***************************************************************************)
EXTENDS Integers, Sequences

CONSTANT ChunkSize    \* SenderConfig::chunk_size, in units

ASSUME ChunkAssumption == ChunkSize \in Nat \ {0}

FileSize(t) == Len(t.contents)

chunk_count(size) == (size + ChunkSize - 1) \div ChunkSize

\* The chunk numbered sequence: a full one, or what remains of the file.
ChunkAt(t, sequence) ==
  LET offset == sequence * ChunkSize
      remaining == FileSize(t) - offset
      want == IF remaining < ChunkSize THEN remaining ELSE ChunkSize
  IN SubSeq(t.contents, offset + 1, offset + want)

StartPacket(t) ==
  [type |-> "START", from |-> t.from, session_id |-> t.session_id,
   sequence |-> 0, offset |-> FileSize(t), payload |-> t.name]

DataPacket(t, sequence) ==
  [type |-> "DATA", from |-> t.from, session_id |-> t.session_id,
   sequence |-> sequence, offset |-> sequence * ChunkSize,
   payload |-> ChunkAt(t, sequence)]

\* The digest is that of the contents, of which it is taken to be injective.
FinPacket(t) ==
  [type |-> "FIN", from |-> t.from, session_id |-> t.session_id,
   sequence |-> chunk_count(FileSize(t)), offset |-> FileSize(t),
   payload |-> t.contents]

Chunks(t) == 0 .. chunk_count(FileSize(t)) - 1

\* Everything the client of a transfer can ever put on the wire.
PacketsOf(t) ==
  {StartPacket(t), FinPacket(t)} \cup {DataPacket(t, s) : s \in Chunks(t)}
=============================================================================
