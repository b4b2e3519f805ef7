------------------------------- MODULE MCWire -------------------------------
(***************************************************************************)
(* Packets of every type with fields at the ends of their range and with   *)
(* bits that tell the bytes of a field apart.  Two of them, an ACK without *)
(* and a DATA with a payload, suffer every error of one or two bits, every *)
(* run of up to 32 inverted bits, and a change of length.                  *)
(***************************************************************************)
EXTENDS Wire

Header(type, session_id, sequence, offset, flags) ==
  [magic |-> kMagic, version |-> kVersion, packet_type |-> Bits(type),
   header_length |-> Bits(kHeaderWireSize), session_id |-> session_id,
   sequence_number |-> sequence, acknowledgement_number |-> Shr(sequence, 1),
   byte_offset |-> offset, payload_length |-> Bits(7), flags |-> flags,
   checksum |-> 0 .. 31]

Stepped == {0, 9, 18, 27, 36, 45, 54, 63}

Ack == [header |-> Header(4, Stepped, {4, 31}, {}, {}), payload |-> <<>>]
Data == [header |-> Header(3, Stepped, {0, 8}, {3, 40}, {}),
         payload |-> <<Bits(165)>>]

Ordinary ==
  {[header |-> Header(type, session_id, sequence, offset, flags),
    payload |-> payload] :
     type \in 1 .. 7, session_id \in {{}, 0 .. 63, Stepped},
     sequence \in {{}, 0 .. 31, {2, 11, 20, 29}}, offset \in {{0}, {63}, Stepped},
     flags \in {{}, {0, 9}}, payload \in {<<>>, <<Bits(255), {}>>}}

TooLong == [Data EXCEPT !.payload = [i \in 1 .. MaxPayload + 1 |-> Bits(i)]]

AllPackets == Ordinary \cup {Ack, Data, TooLong}

FragilePackets == {Ack, Data}
=============================================================================
