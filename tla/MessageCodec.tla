---------------------------- MODULE MessageCodec ----------------------------
(***************************************************************************)
(* The messages in the frames: what ProtocolCodec packs, the bodies that   *)
(* are encrypted, and what onFrameReceived makes of a frame that TcpClient *)
(* hands to it.  The blocks of a body are enciphered by OpenSSL; here this *)
(* is any bijection that keeps the length.                                 *)
(***************************************************************************)
EXTENDS FrameParser

CONSTANTS
    BlockSize,      \* AES_BLOCK_SIZE (16 in the program)
    Encipher(_),    \* AES-128-CBC with the key and iv configured
    Decipher(_),
    AuthId,         \* the two bytes that begin a login request
    Messages        \* what the two sides have to say

ASSUME BlockAssumption == BlockSize \in 1..(Base - 1)
(* PacketType, and the bit that says the body is encrypted.  Bit 6 is not  *)
(* read.                                                                   *)
LoginReq == 1
LoginResp == 2
Heartbeat == 3
HeartbeatResp == 4
JsonBusiness == 5
EncryptMask == Base \div 2
PacketType(msgType) == msgType % (Base \div 4)
IsEncrypted(msgType) == msgType >= EncryptMask

(* A byte has room for six bits of type and two above them; a unique name  *)
(* of more than 255 bytes is refused before it is packed.                  *)
ASSUME TypeAssumption == Base % 4 = 0 /\ Base >= 32 /\ AuthId \in Seq(Byte) /\ Len(AuthId) = 2

Number == 0..(LengthRange - 1)
LoginRequestBody ==
    [type : {LoginReq}, vehicleType : Byte, fwVersion : Number,
     uuid : {u \in Seq(Byte) : Len(u) < Base}]
LoginResponseBody == [type : {LoginResp}, result : Byte, heartbeatMs : Number]
Message ==
    LoginRequestBody \cup LoginResponseBody \cup [type : {Heartbeat, HeartbeatResp}]
        \cup [type : {JsonBusiness}, text : Seq(Byte)]

ASSUME MessagesAssumption == \A m \in Messages : m \in Message
-----------------------------------------------------------------------------
(* pkcs5Pad and pkcs5Unpad: there is always padding, a block of it behind  *)
(* whole blocks.                                                           *)
Pad(data) == LET n == BlockSize - (Len(data) % BlockSize) IN data \o [i \in 1..n |-> n]

(* Fault: the last byte must be less than a block.                         *)
PaddingHoldsBelow(data) ==
    LET n == data[Len(data)] IN
    n \in 1..(BlockSize - 1) /\ \A i \in (Len(data) - n + 1)..Len(data) : data[i] = n
PaddingHolds(data) ==
    LET n == data[Len(data)] IN
    n \in 1..BlockSize /\ \A i \in (Len(data) - n + 1)..Len(data) : data[i] = n
Unpad(data) == SubSeq(data, 1, Len(data) - data[Len(data)])

ASSUME CipherAssumption ==
    \A m \in Messages : m.type = JsonBusiness =>
        /\ Encipher(Pad(m.text)) \in Seq(Byte)
        /\ Len(Encipher(Pad(m.text))) = Len(Pad(m.text))
        /\ Decipher(Encipher(Pad(m.text))) = Pad(m.text)

AesEncrypt(plain) == Encipher(Pad(plain))
Decryptable(body) ==
    body # <<>> /\ Len(body) % BlockSize = 0 /\ PaddingHolds(Decipher(body))
AesDecrypt(body) == Unpad(Decipher(body))
-----------------------------------------------------------------------------
(* Message type and body of a message.                                     *)
Body(m) ==
    CASE m.type = LoginReq ->
            AuthId \o <<m.vehicleType>> \o LengthBytes(m.fwVersion) \o <<Len(m.uuid)>> \o m.uuid
      [] m.type = LoginResp -> <<m.result>> \o LengthBytes(m.heartbeatMs)
      [] m.type \in {Heartbeat, HeartbeatResp} -> <<>>
      [] m.type = JsonBusiness -> AesEncrypt(m.text)
MsgType(m) == IF m.type = JsonBusiness THEN m.type + EncryptMask ELSE m.type

Dropped == [type |-> 0]

(* parseLoginResponse: a result and the interval, or an exception, which   *)
(* handleLoginResponse catches.                                            *)
ParseLoginResponse(body) ==
    IF Len(body) < 5 THEN Dropped
    ELSE [type |-> LoginResp, result |-> body[1], heartbeatMs |-> BigEndian(SubSeq(body, 2, 5))]

(* What a body is taken for; other types are ignored.                      *)
Dispatch(type, body) ==
    CASE type = LoginResp -> ParseLoginResponse(body)
      [] type \in {Heartbeat, HeartbeatResp} -> [type |-> type]
      [] type = JsonBusiness -> [type |-> type, text |-> body]
      [] OTHER -> Dropped

(* The body of a frame; the checksum is gone.                              *)
BodyOf(frame) == SubSeq(frame, HeaderSize + 1, Len(frame))

OnFrameReceived(frame) ==
    IF ~IsEncrypted(frame[3]) THEN Dispatch(PacketType(frame[3]), BodyOf(frame))
    ELSE IF Decryptable(BodyOf(frame)) THEN Dispatch(PacketType(frame[3]), AesDecrypt(BodyOf(frame)))
    ELSE Dropped

(* A login request is read by the server, with the same layout; business   *)
(* goes both ways.                                                         *)
ReadLoginRequest(body) ==
    [type |-> LoginReq, vehicleType |-> body[3], fwVersion |-> BigEndian(SubSeq(body, 4, 7)),
     uuid |-> SubSeq(body, 9, 8 + body[8])]
Read(frame) ==
    IF frame[3] = LoginReq THEN ReadLoginRequest(BodyOf(frame)) ELSE OnFrameReceived(frame)
-----------------------------------------------------------------------------
(* Every message comes out of its frame as it was packed, with its numbers *)
(* and its text, however the stream was cut, and of whatever length.       *)
MessagesIntact ==
    \A i \in DOMAIN delivered : \A m \in Messages :
        plan[i].msgType = MsgType(m) /\ plan[i].body = Body(m) => Read(delivered[i]) = m
=============================================================================
