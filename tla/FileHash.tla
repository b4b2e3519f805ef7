------------------------------ MODULE FileHash ------------------------------
(***************************************************************************)
(* How both ends compute the digest of a file: hash_file (sender.cpp) and  *)
(* the reading back in ReceiverSession::on_fin are the same loop, over     *)
(* File::read_at, whose pread may return fewer bytes than it was asked for,*)
(* and crypto::Sha256, which cuts what it is given into blocks, keeps the  *)
(* rest in a buffer, and pads the end (sha256.cpp).                        *)
(*                                                                         *)
(* The compression function is left out: a hasher records the bytes that   *)
(* were compressed, of which the digest is a function.                     *)
(***************************************************************************)
EXTENDS Integers, Sequences

CONSTANTS File,        \* what the descriptor reads
          Size,        \* how much of it to hash: the size, or bytes_written_
          BufferSize   \* the 64 KiB of the read buffer

Byte == 0 .. 255

VARIABLES offset,   \* bytes given to the hasher
          piece,    \* what this call of read_at has read so far
          hasher,   \* the Sha256 object
          result    \* "none" while at work, then "done" or "failed"

vars == <<offset, piece, hasher, result>>

\* state_ is a function of compressed, and buffered_ is the length of buffer.
NewHasher == [compressed |-> <<>>, buffer |-> <<>>, total_bits |-> 0]

Init == offset = 0 /\ piece = <<>> /\ hasher = NewHasher /\ result = "none"

\* What this pass of the loop asks for.
Want == IF Size - offset < BufferSize THEN Size - offset ELSE BufferSize
-----------------------------------------------------------------------------
\* update: a block that is not full yet is topped up; then whole blocks are taken
\* straight from the input, and the rest is kept.
update(h, data) ==
  LET take  == IF h.buffer = <<>> THEN 0 ELSE 64 - Len(h.buffer)
      whole == ((Len(data) - take) \div 64) * 64
      bits  == h.total_bits + 8 * Len(data)
  IN IF Len(data) < take
     THEN [compressed |-> h.compressed, buffer |-> h.buffer \o data,
           total_bits |-> bits]
     ELSE [compressed |-> (h.compressed \o (h.buffer \o SubSeq(data, 1, take)))
                            \o SubSeq(data, take + 1, take + whole),
           buffer |-> SubSeq(data, take + whole + 1, Len(data)),
           total_bits |-> bits]

Zeros(n) == [i \in 1 .. n |-> 0]

\* The length in bits, as eight bytes, most significant first: only the low 64 bits
\* of total_bits show, which is all that the uint64_t holds.
Shr(bits, n) == bits \div 2 ^ n
LengthBytes(bits) == [i \in 1 .. 8 |-> Shr(bits, 8 * (8 - i)) % 256]

\* finish: the marker; a block more if the length does not fit behind it; zeros up
\* to the length; the length.
finish(h) ==
  LET marked == h.buffer \o <<128>>
      filled == IF Len(marked) > 56
                THEN (h.compressed \o marked) \o Zeros(64 - Len(marked))
                ELSE h.compressed
      rest   == IF Len(marked) > 56 THEN <<>> ELSE marked
  IN [compressed |-> filled \o ((rest \o Zeros(56 - Len(rest)))
                                   \o LengthBytes(h.total_bits)),
      buffer |-> <<>>, total_bits |-> h.total_bits]
-----------------------------------------------------------------------------
Reading == result = "none" /\ offset < Size /\ Len(piece) < Want

\* pread returns some of what is left to read.
Pread ==
  /\ Reading
  /\ \E n \in 1 .. Want - Len(piece) :
       /\ offset + Len(piece) + n <= Len(File)
       /\ piece' = piece \o SubSeq(File, offset + Len(piece) + 1,
                                         offset + Len(piece) + n)
  /\ UNCHANGED <<offset, hasher, result>>

\* pread returns nothing, at the end of the file, or fails: too few bytes.
ReadFails ==
  /\ Reading
  /\ result' = "failed"
  /\ UNCHANGED <<offset, piece, hasher>>

\* All that was asked for was read.
Update ==
  /\ result = "none" /\ offset < Size /\ Len(piece) = Want
  /\ hasher' = update(hasher, piece)
  /\ offset' = offset + Want
  /\ piece' = <<>>
  /\ UNCHANGED result

FinishDigest ==
  /\ result = "none" /\ offset >= Size
  /\ hasher' = finish(hasher)
  /\ result' = "done"
  /\ UNCHANGED <<offset, piece>>

Next == Pread \/ ReadFails \/ Update \/ FinishDigest

Spec == Init /\ [][Next]_vars
-----------------------------------------------------------------------------
\* FIPS 180-4: a one bit, the least number of zeros, the length of the message.
Padded(message) ==
  ((message \o <<128>>) \o Zeros((119 - (Len(message) % 64)) % 64))
    \o LengthBytes(8 * Len(message))

\* Whatever the sizes in which the file was read, what is compressed is the padded
\* message that SHA-256 prescribes for its first Size bytes, and all of them were
\* there: both ends hash the same function of the contents.
Digested ==
  result = "done" =>
    Size <= Len(File) /\ hasher.compressed = Padded(SubSeq(File, 1, Size))
=============================================================================
