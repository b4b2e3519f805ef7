-------------------------------- MODULE Wire --------------------------------
(***************************************************************************)
(* The wire format (protocol/packet.hpp, serializer.cpp) and its CRC-32    *)
(* (crc32.cpp), bit by bit: a packet is serialized, the network carries it *)
(* or damages it, and the receiver deserializes what arrives.              *)
(*                                                                         *)
(* A number is the set of its bit positions, whatever its width: exclusive *)
(* or is the symmetric difference, a shift moves the elements.  A byte is  *)
(* a subset of 0 .. 7, a datagram a sequence of bytes.                     *)
(***************************************************************************)
EXTENDS Integers, Sequences, FiniteSets, FiniteSetsExt

CONSTANTS MaxPayload,  \* kMaxPayloadSize
          Packets,     \* the packets to send: records [header, payload]
          Fragile,     \* those of them that the network may damage
          MaxRun       \* bound: length of a run of inverted bits

ASSUME WireAssumption ==
  MaxPayload \in 0 .. 65535 /\ Fragile \subseteq Packets /\ MaxRun \in Nat

VARIABLES packet,   \* what is being sent
          wire,     \* its serialization
          arrived,  \* what the receiver got
          damage,   \* what happened to it on the way
          result    \* what deserialize made of it

vars == <<packet, wire, arrived, damage, result>>
-----------------------------------------------------------------------------
\* The bits of a 16-bit number.
Bits(n) == {b \in 0 .. 15 : (n \div 2^b) % 2 = 1}

Shr(word, n) == {b - n : b \in {c \in word : c >= n}}

\* write_be16, write_be32, write_be64: most significant byte first.
write_be(value, size) ==
  [i \in 1 .. size |-> {b \in 0 .. 7 : b + 8 * (size - i) \in value}]

\* read_be8 to read_be64.
read_be(bytes) ==
  UNION {{b + 8 * (Len(bytes) - i) : b \in bytes[i]} : i \in DOMAIN bytes}

\* A constant, given by its bytes.
Word(octets) == read_be([i \in DOMAIN octets |-> Bits(octets[i])])
-----------------------------------------------------------------------------
(***************************************************************************)
(* crc32.cpp                                                               *)
(***************************************************************************)

kPolynomial == Word(<<237, 184, 131, 32>>)    \* 0xEDB88320

\* One bit of the division.
Divided(value) ==
  IF 0 \in value THEN SymDiff(Shr(value, 1), kPolynomial) ELSE Shr(value, 1)

\* Mutant: one bit too few.
make_table_short ==
  [index \in SUBSET (0 .. 7) |->
     LET value[bit \in 0 .. 7] ==
           IF bit = 0 THEN index ELSE Divided(value[bit - 1])
     IN value[7]]

make_table ==
  [index \in SUBSET (0 .. 7) |->
     LET value[bit \in 0 .. 8] ==
           IF bit = 0 THEN index ELSE Divided(value[bit - 1])
     IN value[8]]

kTable == make_table

update(crc, byte) ==
  SymDiff(kTable[{b \in SymDiff(crc, byte) : b < 8}], Shr(crc, 8))

kHeaderWireSize == 40

\* The checksum of a datagram, its own four bytes taken as zero.
crc32_excluding_checksum(bytes, offset) ==
  LET crc[i \in 0 .. Len(bytes)] ==
        IF i = 0 THEN 0 .. 31
        ELSE update(crc[i - 1],
                    IF i > offset /\ i <= offset + 4 THEN {} ELSE bytes[i])
  IN SymDiff(crc[Len(bytes)], 0 .. 31)
-----------------------------------------------------------------------------
(***************************************************************************)
(* serializer.cpp                                                          *)
(***************************************************************************)

kMagic == Word(<<83, 87, 76, 75>>)
kVersion == Bits(1)

\* The offset table: where each field of PacketHeader is, and its bytes.
Offset ==
  [magic |-> 0, version |-> 4, packet_type |-> 5, header_length |-> 6,
   session_id |-> 8, sequence_number |-> 16, acknowledgement_number |-> 20,
   byte_offset |-> 24, payload_length |-> 32, flags |-> 34, checksum |-> 36]
Size ==
  [magic |-> 4, version |-> 1, packet_type |-> 1, header_length |-> 2,
   session_id |-> 8, sequence_number |-> 4, acknowledgement_number |-> 4,
   byte_offset |-> 8, payload_length |-> 2, flags |-> 2, checksum |-> 4]

\* The bytes a field writes, at their places.
Written(buffer, field, value) ==
  LET bytes == write_be(value, Size[field])
  IN [i \in DOMAIN buffer |->
        IF i > Offset[field] /\ i <= Offset[field] + Size[field]
        THEN bytes[i - Offset[field]] ELSE buffer[i]]

\* All of the header; the fields do not overlap.
FieldAt == [i \in 1 .. kHeaderWireSize |->
  CHOOSE f \in DOMAIN Offset : i > Offset[f] /\ i <= Offset[f] + Size[f]]

HeaderBytes(header) ==
  [i \in 1 .. kHeaderWireSize |->
     write_be(header[FieldAt[i]], Size[FieldAt[i]])[i - Offset[FieldAt[i]]]]

\* The length and the checksum are the serializer's, not the caller's.  A payload
\* that the length cannot describe is refused.
serialize(header, payload) ==
  LET sent == [header EXCEPT !.payload_length = Bits(Len(payload)),
                             !.checksum = {}]
      buffer == HeaderBytes(sent) \o payload
  IN IF Len(payload) > MaxPayload THEN <<>>
     ELSE Written(buffer, "checksum",
                  crc32_excluding_checksum(buffer, Offset.checksum))

\* is_valid_packet_type: kStart to kError.
is_valid_packet_type(raw) == raw \in {Bits(n) : n \in 1 .. 7}

failure(error) == [error |-> error]
success(header, payload) ==
  [error |-> "kNone", header |-> header, payload |-> payload]

Field(buffer, f) ==
  read_be(SubSeq(buffer, Offset[f] + 1, Offset[f] + Size[f]))
Payload(buffer) == SubSeq(buffer, kHeaderWireSize + 1, Len(buffer))

\* Mutant: the length is believed.
LengthMatches_unchecked(buffer) == TRUE

LengthMatches(buffer) ==
  Bits(Len(Payload(buffer))) = Field(buffer, "payload_length")

\* Mutant: the checksum is not looked at.
ChecksumMatches_unchecked(buffer) == TRUE

ChecksumMatches(buffer) ==
  crc32_excluding_checksum(buffer, Offset.checksum) = Field(buffer, "checksum")

\* Each check makes the next one safe to perform.
deserialize(buffer) ==
  IF Len(buffer) < kHeaderWireSize THEN failure("kBufferTooSmall")
  ELSE IF Field(buffer, "magic") # kMagic THEN failure("kBadMagic")
  ELSE IF Field(buffer, "version") # kVersion THEN failure("kUnsupportedVersion")
  ELSE IF ~ is_valid_packet_type(Field(buffer, "packet_type"))
    THEN failure("kUnknownPacketType")
  ELSE IF Field(buffer, "header_length") # Bits(kHeaderWireSize)
    THEN failure("kBadHeaderLength")
  ELSE IF ~ LengthMatches(buffer) THEN failure("kPayloadLengthMismatch")
  ELSE IF ~ ChecksumMatches(buffer) THEN failure("kChecksumMismatch")
  ELSE success([f \in DOMAIN Offset |-> Field(buffer, f)], Payload(buffer))
-----------------------------------------------------------------------------
(***************************************************************************)
(* The network                                                             *)
(***************************************************************************)

\* Some bits inverted, bytes missing from the end, bytes added to it.  resealed:
\* by someone who also computed a fitting checksum.
NoDamage == [flips |-> {}, cut |-> 0, extra |-> 0, resealed |-> FALSE]

Damaged(bytes, d) ==
  LET flipped == [i \in DOMAIN bytes |->
        SymDiff(bytes[i], {b \in 0 .. 7 : 8 * (i - 1) + b \in d.flips})]
      sized == SubSeq(flipped, 1, Len(bytes) - d.cut)
                 \o [i \in 1 .. d.extra |-> {}]
  IN IF d.resealed
     THEN Written(sized, "checksum",
                  crc32_excluding_checksum(sized, Offset.checksum))
     ELSE sized

NoPacket == [header |-> <<>>, payload |-> <<>>]

Init == /\ packet = NoPacket /\ wire = <<>> /\ arrived = <<>>
        /\ damage = NoDamage /\ result = failure("none")

Send(p) ==
  /\ packet = NoPacket
  /\ packet' = p
  /\ wire' = serialize(p.header, p.payload)
  /\ UNCHANGED <<arrived, damage, result>>

InTransit == packet # NoPacket /\ result = failure("none")

Positions == 0 .. 8 * Len(wire) - 1

\* On its way a fragile packet is damaged.
Damage(d) ==
  /\ InTransit /\ packet \in Fragile
  /\ damage' = d
  /\ UNCHANGED <<packet, wire, arrived, result>>

\* A bit is inverted; and then perhaps another.
Flip ==
  /\ damage = [NoDamage EXCEPT !.flips = damage.flips]
  /\ Cardinality(damage.flips) < 2
  /\ \E a \in Positions :
       /\ \A b \in damage.flips : b < a
       /\ Damage([damage EXCEPT !.flips = @ \cup {a}])

\* A run of bits is inverted.
Burst ==
  /\ damage = NoDamage
  /\ \E a \in Positions : \E n \in 2 .. MaxRun :
       a + n \in Positions /\ Damage([damage EXCEPT !.flips = a .. a + n])

\* Bytes are lost from the end, or added to it.
Resize ==
  /\ damage = NoDamage
  /\ \E cut, extra \in 0 .. 2 :
       Damage([damage EXCEPT !.cut = cut, !.extra = extra])

\* It was not serialize that wrote and sealed the datagram: a bit is another, or
\* there is more of it.
Foreign ==
  /\ damage = NoDamage
  /\ \E a \in Positions, extra \in 0 .. 2 :
       Damage([flips |-> {a}, cut |-> 0, extra |-> extra, resealed |-> TRUE])

\* The datagram arrives and is decoded.
Receive ==
  /\ InTransit
  /\ arrived' = Damaged(wire, damage)
  /\ result' = deserialize(arrived')
  /\ UNCHANGED <<packet, wire, damage>>

Next ==
  \/ \E p \in Packets : Send(p)
  \/ InTransit /\ (Foreign \/ Resize \/ Flip \/ Burst \/ Receive)

Spec == Init /\ [][Next]_vars
-----------------------------------------------------------------------------
\* Encoding and decoding are inverse, both ways.  An undamaged packet is decoded
\* to what was sent, with the length and the checksum filled in, unless it could
\* not be sent.  And whatever is accepted, even if someone else wrote it, is a
\* packet of this protocol, of which it is the one and only encoding.
Exact ==
  /\ result.error = "kNone" =>
       /\ arrived = serialize(result.header, result.payload)
       /\ result.header.version = kVersion
       /\ is_valid_packet_type(result.header.packet_type)
  /\ damage = NoDamage /\ result # failure("none") =>
       IF Len(packet.payload) > MaxPayload
       THEN result = failure("kBufferTooSmall")
       ELSE /\ result.error = "kNone"
            /\ result.payload = packet.payload
            /\ \A f \in DOMAIN Offset \ {"payload_length", "checksum"} :
                 result.header[f] = packet.header[f]

\* "Corruption anywhere in the datagram is detected": inverted bits, in header,
\* checksum field or payload, and a wrong length.
CorruptionDetected ==
  damage # NoDamage /\ ~ damage.resealed => result.error # "kNone"

\* CRC-32 by its definition: the remainder of dividing by the IEEE polynomial, as
\* written in crc32.cpp, one bit at a time and most significant first.
IEEE == {26, 23, 22, 16, 12, 11, 10, 8, 7, 5, 4, 2, 1, 0}

Reference(bytes) ==
  LET Step(register, bit) ==
        LET shifted == {b + 1 : b \in register \ {31}}
        IN IF (31 \in register) # bit THEN SymDiff(shifted, IEEE) ELSE shifted
      through[k \in 0 .. 8, byte \in SUBSET (0 .. 7),
              register \in SUBSET (0 .. 31)] ==
        IF k = 8 THEN register
        ELSE through[k + 1, byte, Step(register, k \in byte)]
      after[i \in 0 .. Len(bytes)] ==
        IF i = 0 THEN 0 .. 31 ELSE through[0, bytes[i], after[i - 1]]
  IN {31 - b : b \in (0 .. 31) \ after[Len(bytes)]}

\* The table-driven computation agrees with it: the checksum on the wire is the
\* CRC-32 of the datagram with that field zero.
ChecksumIsCrc32 ==
  wire # <<>> /\ damage = NoDamage =>
    read_be(SubSeq(wire, Offset.checksum + 1, Offset.checksum + 4))
      = Reference(Written(wire, "checksum", {}))
=============================================================================
