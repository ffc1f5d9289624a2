----------------------------- MODULE FrameCodec -----------------------------
(***************************************************************************)
(* The frame layout of ProtocolCodec and MessageHeader: preamble, protocol *)
(* type, message type, four length bytes (big-endian), body, checksum.     *)
(* A byte is a number below Base (256 in the program), so that the 32-bit  *)
(* length is a number below Base^4.                                        *)
(***************************************************************************)
EXTENDS Integers, Sequences, SequencesExt

CONSTANTS Base, Preamble, ProtocolType
ASSUME BaseAssumption == Base \in Nat \ {0, 1} /\ Preamble \in 0..(Base - 1)
                         /\ ProtocolType \in 0..(Base - 1)

Byte == 0..(Base - 1)
HeaderSize == 7
LengthRange == Base * Base * Base * Base

CalcChecksum(bytes) == FoldLeft(+, 0, bytes) % Base

(* A number of 32 bits as four bytes, the highest first, and back.         *)
LengthBytes(n) ==
    <<(n \div (Base * Base * Base)) % Base, (n \div (Base * Base)) % Base,
      (n \div Base) % Base, n % Base>>
BigEndian(b) == ((b[1] * Base + b[2]) * Base + b[3]) * Base + b[4]

(* A frame as parseFrame hands it on: without its checksum.                *)
Content(msgType, body) ==
    <<Preamble, ProtocolType, msgType>> \o LengthBytes(Len(body)) \o body

PackFrame(msgType, body) ==
    LET c == Content(msgType, body) IN Append(c, CalcChecksum(c))

(* The length field of a buffer that begins with a header.                 *)
BodyLen(buf) == BigEndian(SubSeq(buf, 4, 7))

(* size_t totalLen = HEADER_SIZE + bodyLen + 1, computed in uint32_t.      *)
TotalLen(buf) == (HeaderSize + BodyLen(buf) + 1) % LengthRange
=============================================================================
