---------------------------- MODULE PacketFormat ----------------------------
(***************************************************************************)
(* The packets of the phone on the wire: make of PacketProtocol.swift      *)
(* writes them, decode_header and read_packet of receiver/protocol.py read *)
(* them.  The header is 24 bytes, ">4sBBHIQI": magic, version, type, flags *)
(* (2), payload length (4), timestamp (8), sequence (4), big-endian.       *)
(***************************************************************************)
EXTENDS Integers, Sequences

CONSTANTS Base,           \* values of a byte: 256, smaller for model checking
          MaxPayload      \* MAX_PAYLOAD_LEN

Base2 == Base * Base
Base4 == Base2 * Base2
Base8 == Base4 * Base4

ASSUME FormatAssumption == /\ Base \in Nat /\ Base > 5
                           /\ MaxPayload \in Nat /\ MaxPayload < Base4

Byte == 0 .. Base - 1
Magic == <<1, 2, 3, 4>>          \* "ICAM"
Version == 1
HELLO == 1
VIDEO == 2
PacketTypes == 1 .. 5
KeyframeFlag == 1
HeaderSize == 24

Packets == [type : PacketTypes, flags : 0 .. Base2 - 1,
            timestamp : 0 .. Base8 - 1, sequence : 0 .. Base4 - 1,
            payload : Seq(Byte)]

-----------------------------------------------------------------------------
(* appendBigEndian, for the three widths.                                  *)
U16(n) == <<n \div Base, n % Base>>
U32(n) == U16(n \div Base2) \o U16(n % Base2)
U64(n) == U32(n \div Base4) \o U32(n % Base4)

Header(p) ==
    Magic \o <<Version, p.type>> \o U16(p.flags) \o U32(Len(p.payload))
          \o U64(p.timestamp) \o U32(p.sequence)
Encode(p) == Header(p) \o p.payload

-----------------------------------------------------------------------------
(* HEADER_STRUCT.unpack at the beginning of the stream b.                  *)
ReadU16(b, at) == b[at] * Base + b[at + 1]
ReadU32(b, at) == ReadU16(b, at) * Base2 + ReadU16(b, at + 2)
ReadU64(b, at) == ReadU32(b, at) * Base4 + ReadU32(b, at + 4)

(* decode_header raises ProtocolError for everything else.                 *)
Accepts(b) ==
    /\ Len(b) >= HeaderSize
    /\ \A i \in 1 .. 4 : b[i] = Magic[i]
    /\ b[5] = Version
    /\ ReadU32(b, 9) <= MaxPayload
    /\ b[6] \in PacketTypes

(* read_packet, when all of the packet has arrived, and what it leaves.    *)
PacketEnd(b) == HeaderSize + ReadU32(b, 9)
ReadPacket(b) ==
    [type |-> b[6], flags |-> ReadU16(b, 7), timestamp |-> ReadU64(b, 13),
     sequence |-> ReadU32(b, 21),
     payload |-> SubSeq(b, HeaderSize + 1, PacketEnd(b))]
Rest(b) == SubSeq(b, PacketEnd(b) + 1, Len(b))
=============================================================================
