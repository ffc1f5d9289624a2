------------------------ MODULE MessageCodec_proofs ------------------------
(***************************************************************************)
(* Every message is read as it was packed, whatever its numbers, text and  *)
(* length, for every block size, byte size and cipher, and however the     *)
(* stream that carries it was cut.                                         *)
(***************************************************************************)
EXTENDS MessageCodec, FrameParser_proofs

(* Padded text is whole blocks, and its last byte is its padding's length. *)
LEMMA PaddingShape ==
  ASSUME NEW data \in Seq(Byte)
  PROVE  \E n \in 1..BlockSize :
            /\ Pad(data) \in Seq(Byte)
            /\ Len(Pad(data)) = Len(data) + n
            /\ Len(Pad(data)) % BlockSize = 0
            /\ \A i \in 1..Len(data) : Pad(data)[i] = data[i]
            /\ \A i \in (Len(data) + 1)..(Len(data) + n) : Pad(data)[i] = n
<1> DEFINE r == Len(data) % BlockSize
           n == BlockSize - r
           tail == [i \in 1..n |-> n]
<1>1. BlockSize \in Nat \ {0} /\ BlockSize < Base /\ Len(data) \in Nat /\ Base \in Nat
  BY BlockAssumption, BaseAssumption
<1>2. r \in 0..(BlockSize - 1) /\ Len(data) = BlockSize * (Len(data) \div BlockSize) + r
  BY <1>1
<1>3. n \in 1..BlockSize /\ n \in Byte
  BY <1>1, <1>2 DEF Byte
<1> HIDE DEF n, r
<1>4. tail \in Seq(Byte) /\ Len(tail) = n
  BY <1>3
<1>5. Pad(data) = data \o tail
  BY DEF Pad, n, r
<1> HIDE DEF tail
<1>6. (Len(data) + n) % BlockSize = 0
  <2>1. Len(data) + n = BlockSize * (Len(data) \div BlockSize + 1)
    BY <1>1, <1>2 DEF n
  <2>2. Len(data) \div BlockSize + 1 \in Nat
    BY <1>1
  <2>3. \A k \in Nat : (BlockSize * k) % BlockSize = 0
    BY <1>1
  <2> QED
    BY <2>1, <2>2, <2>3
<1>7. Pad(data) \in Seq(Byte) /\ Len(Pad(data)) = Len(data) + n
  BY <1>4, <1>5
<1>8. \A i \in 1..Len(data) : Pad(data)[i] = data[i]
  BY <1>4, <1>5
<1>9. \A i \in (Len(data) + 1)..(Len(data) + n) : Pad(data)[i] = n
  BY <1>1, <1>3, <1>4, <1>5 DEF tail
<1> QED
  BY <1>3, <1>6, <1>7, <1>8, <1>9

(* What pkcs5Pad adds, pkcs5Unpad accepts and takes away.                  *)
THEOREM PaddingComesOff ==
  ASSUME NEW data \in Seq(Byte)
  PROVE  /\ Pad(data) # <<>> /\ Len(Pad(data)) % BlockSize = 0
         /\ PaddingHolds(Pad(data))
         /\ Unpad(Pad(data)) = data
<1>1. PICK n \in 1..BlockSize :
            /\ Pad(data) \in Seq(Byte)
            /\ Len(Pad(data)) = Len(data) + n
            /\ Len(Pad(data)) % BlockSize = 0
            /\ \A i \in 1..Len(data) : Pad(data)[i] = data[i]
            /\ \A i \in (Len(data) + 1)..(Len(data) + n) : Pad(data)[i] = n
  BY PaddingShape
<1>2. n \in Nat \ {0} /\ Len(data) \in Nat
  BY BlockAssumption
<1>3. Pad(data)[Len(Pad(data))] = n
  BY <1>1, <1>2
<1>4. PaddingHolds(Pad(data))
  BY <1>1, <1>2, <1>3 DEF PaddingHolds
<1>5. Unpad(Pad(data)) = SubSeq(Pad(data), 1, Len(data))
  BY <1>1, <1>2, <1>3 DEF Unpad
<1>6. SubSeq(Pad(data), 1, Len(data)) = data
  BY <1>1, <1>2
<1> QED
  BY <1>1, <1>2, <1>4, <1>5, <1>6

(* The header takes seven places.                                         *)
LEMMA SevenBefore ==
  ASSUME NEW S, NEW three \in Seq(S), NEW four \in Seq(S), NEW body \in Seq(S),
         Len(three) = 3, Len(four) = 4
  PROVE  /\ ((three \o four) \o body)[3] = three[3]
         /\ SubSeq((three \o four) \o body, 8, Len((three \o four) \o body)) = body
<1> DEFINE frame == (three \o four) \o body
<1>1. three \o four \in Seq(S) /\ Len(three \o four) = 7 /\ (three \o four)[3] = three[3]
  <2>1. three \o four \in Seq(S) /\ Len(three \o four) = Len(three) + Len(four)
    BY ConcatProperties
  <2>2. \A i \in 1..(Len(three) + Len(four)) :
          (three \o four)[i] = IF i <= Len(three) THEN three[i] ELSE four[i - Len(three)]
    BY ConcatProperties, Zenon
  <2> QED
    BY <2>1, <2>2
<1>2. frame \in Seq(S) /\ Len(frame) = 7 + Len(body) /\ frame[3] = three[3]
  BY <1>1, ConcatProperties
<1>3. \A i \in 1..Len(body) : frame[7 + i] = body[i]
  BY <1>1, ConcatProperties
<1> HIDE DEF frame
<1>4. SubSeq(frame, 8, Len(frame)) = body
  BY <1>2, <1>3
<1> QED
  BY <1>2, <1>4 DEF frame

(* Where packFrame puts message type and body.                             *)
LEMMA ContentShape ==
  ASSUME NEW t, NEW body \in Seq(Byte)
  PROVE  Content(t, body)[3] = t /\ BodyOf(Content(t, body)) = body
<1>1. PICK a, b, c, d : LengthBytes(Len(body)) = <<a, b, c, d>>
  BY DEF LengthBytes
<1> DEFINE S == Byte \cup {Preamble, ProtocolType, t, a, b, c, d}
           three == <<Preamble, ProtocolType, t>>
           four == <<a, b, c, d>>
           frame == (three \o four) \o body
<1>2. three \in Seq(S) /\ four \in Seq(S) /\ Len(three) = 3 /\ Len(four) = 4 /\ three[3] = t
  OBVIOUS
<1>3. body \in Seq(S)
  OBVIOUS
<1> HIDE DEF S, three, four
<1>4. frame[3] = three[3] /\ SubSeq(frame, 8, Len(frame)) = body
  BY <1>2, <1>3, SevenBefore
<1>5. Content(t, body) = frame
  BY <1>1, Zenon DEF Content, three, four
<1>6. HeaderSize + 1 = 8
  BY DEF HeaderSize
<1> QED
  BY <1>2, <1>4, <1>5, <1>6, Zenon DEF BodyOf

(* What packJsonBusiness and packFrame make of a text, onFrameReceived     *)
(* reads as this text.                                                     *)
THEOREM BusinessReadBack ==
  ASSUME NEW m \in Messages, NEW text \in Seq(Byte), m = [type |-> JsonBusiness, text |-> text]
  PROVE  OnFrameReceived(Content(MsgType(m), Body(m))) = m
<1> DEFINE frame == Content(MsgType(m), Body(m))
<1>1. m.text \in Seq(Byte) /\ Pad(m.text) \in Seq(Byte)
  BY PaddingShape, CipherAssumption
<1>2. Body(m) = Encipher(Pad(m.text))
  BY DEF Body, AesEncrypt, JsonBusiness, LoginReq, LoginResp, Heartbeat, HeartbeatResp
<1>3. Body(m) \in Seq(Byte) /\ Len(Body(m)) = Len(Pad(m.text)) /\ Decipher(Body(m)) = Pad(m.text)
  BY <1>2, CipherAssumption
<1>4. Decryptable(Body(m)) /\ AesDecrypt(Body(m)) = m.text
  <2>1. Body(m) # <<>>
    BY <1>1, <1>3, PaddingComesOff
  <2> QED
    BY <1>1, <1>3, <2>1, PaddingComesOff DEF Decryptable, AesDecrypt
<1>5. MsgType(m) = 5 + EncryptMask
  BY DEF MsgType, JsonBusiness
<1>6. IsEncrypted(MsgType(m)) /\ PacketType(MsgType(m)) = JsonBusiness
  <2>1. PICK k \in Nat : Base = 4 * k /\ k >= 8
    <3>1. Base \in Nat /\ Base = 4 * (Base \div 4) /\ Base \div 4 \in Nat /\ Base >= 32
      BY BaseAssumption, TypeAssumption
    <3> QED
      BY <3>1
  <2>2. EncryptMask = 2 * k /\ Base \div 4 = k
    BY <2>1 DEF EncryptMask
  <2>3. (5 + 2 * k) % k = 5
    BY <2>1
  <2> QED
    BY <1>5, <2>1, <2>2, <2>3 DEF IsEncrypted, PacketType, JsonBusiness
<1>7. frame[3] = MsgType(m) /\ BodyOf(frame) = Body(m)
  BY <1>3, ContentShape
<1> QED
  BY <1>4, <1>6, <1>7
     DEF OnFrameReceived, Dispatch, JsonBusiness, LoginResp, Heartbeat, HeartbeatResp

(* A number written in four bytes somewhere in a body is read again.       *)
LEMMA NumberAt ==
  ASSUME NEW n \in Number, NEW body \in Seq(Byte), NEW at \in Nat, at + 4 <= Len(body),
         \A i \in 1..4 : body[at + i] = LengthBytes(n)[i]
  PROVE  BigEndian(SubSeq(body, at + 1, at + 4)) = n
<1> DEFINE four == LengthBytes(n)  s == SubSeq(body, at + 1, at + 4)
<1>1. BigEndian(four) = n
  BY FourBytes DEF Number
<1>2. \A i \in 1..4 : s[i] = body[at + i]
  BY SubSeqProperties
<1>3. s[1] = four[1] /\ s[2] = four[2] /\ s[3] = four[3] /\ s[4] = four[4]
  BY <1>2
<1> HIDE DEF four, s
<1>4. BigEndian(s) = BigEndian(four)
  BY <1>3 DEF BigEndian
<1> QED
  BY <1>1, <1>4 DEF s

LEMMA SmallTypes ==
  /\ Base \in Nat /\ Base \div 4 \in Nat /\ EncryptMask \in Nat /\ EncryptMask >= 16
  /\ \A t \in 1..4 : ~IsEncrypted(t) /\ PacketType(t) = t
<1>1. PICK k \in Nat : Base = 4 * k /\ k >= 8
  <2>1. Base \in Nat /\ Base = 4 * (Base \div 4) /\ Base \div 4 \in Nat /\ Base >= 32
    BY BaseAssumption, TypeAssumption
  <2> QED
    BY <2>1
<1>2. EncryptMask = 2 * k /\ Base \div 4 = k
  BY <1>1 DEF EncryptMask
<1>3. \A t \in 1..4 : t % k = t
  BY <1>1
<1> QED
  BY <1>1, <1>2, <1>3 DEF IsEncrypted, PacketType

(* Where packLoginRequest puts what it is given.                           *)
LEMMA LoginRequestShape ==
  ASSUME NEW m \in LoginRequestBody
  PROVE  /\ Body(m) \in Seq(Byte) /\ Len(Body(m)) = 8 + Len(m.uuid)
         /\ Body(m)[3] = m.vehicleType /\ Body(m)[8] = Len(m.uuid)
         /\ \A i \in 1..4 : Body(m)[3 + i] = LengthBytes(m.fwVersion)[i]
         /\ \A i \in 1..Len(m.uuid) : Body(m)[8 + i] = m.uuid[i]
<1> DEFINE v == <<m.vehicleType>>
           f == LengthBytes(m.fwVersion)
           u == <<Len(m.uuid)>>
           uuid == m.uuid
           x == AuthId \o v
           y == x \o f
           z == y \o u
           b == Body(m)
<1>1. m.type = LoginReq /\ m.vehicleType \in Byte /\ m.fwVersion \in Number
      /\ uuid \in Seq(Byte) /\ Len(uuid) < Base /\ Len(uuid) \in Nat
  BY DEF LoginRequestBody
<1>2. AuthId \in Seq(Byte) /\ Len(AuthId) = 2
  BY TypeAssumption
<1>3. v \in Seq(Byte) /\ Len(v) = 1 /\ v[1] = m.vehicleType
  BY <1>1
<1>4. f \in Seq(Byte) /\ Len(f) = 4
  BY <1>1, FourBytes DEF Number
<1>5. u \in Seq(Byte) /\ Len(u) = 1 /\ u[1] = Len(uuid)
  <2>1. Len(uuid) \in Byte
    BY <1>1, BaseAssumption DEF Byte
  <2> QED
    BY <2>1
<1>6. b = z \o uuid
  <2>1. m.type = LoginReq
    BY <1>1
  <2>2. m.type # LoginResp /\ m.type \notin {Heartbeat, HeartbeatResp} /\ m.type # JsonBusiness
    BY <2>1 DEF LoginReq, LoginResp, Heartbeat, HeartbeatResp, JsonBusiness
  <2> QED
    BY <2>1, <2>2, Zenon DEF Body
<1> DEFINE auth == AuthId
<1>a. auth \in Seq(Byte) /\ Len(auth) = 2 /\ x = auth \o v
  BY <1>2
<1> HIDE DEF v, f, u, uuid, b, auth, x
<1>7. x \in Seq(Byte) /\ Len(x) = 3 /\ x[3] = m.vehicleType
  <2>1. x \in Seq(Byte) /\ Len(x) = Len(auth) + Len(v) /\ (\A i \in 1..Len(auth) : x[i] = auth[i])
        /\ \A i \in 1..Len(v) : x[Len(auth) + i] = v[i]
    <3>1. auth \in Seq(Byte)
      BY <1>a
    <3>2. v \in Seq(Byte)
      BY <1>3
    <3>3. x = auth \o v
      BY <1>a
    <3> QED
      BY <3>1, <3>2, <3>3
  <2> QED
    BY <1>a, <1>3, <2>1
<1>8. y \in Seq(Byte) /\ Len(y) = 7 /\ y[3] = m.vehicleType /\ \A i \in 1..4 : y[3 + i] = f[i]
  <2>1. x \in Seq(Byte) /\ Len(x) = 3 /\ f \in Seq(Byte) /\ Len(f) = 4 /\ y = x \o f
    BY <1>7, <1>4
  <2> HIDE DEF y
  <2>2. y \in Seq(Byte) /\ Len(y) = Len(x) + Len(f) /\ (\A i \in 1..Len(x) : y[i] = x[i])
        /\ \A i \in 1..Len(f) : y[Len(x) + i] = f[i]
    <3>1. x \in Seq(Byte)
      BY <2>1
    <3>2. f \in Seq(Byte)
      BY <2>1
    <3>3. y = x \o f
      BY <2>1
    <3> QED
      BY <3>1, <3>2, <3>3
  <2> QED
    BY <1>4, <1>7, <2>2
<1> HIDE DEF y
<1>9. z \in Seq(Byte) /\ Len(z) = 8 /\ z[3] = m.vehicleType /\ z[8] = Len(uuid)
      /\ \A i \in 1..4 : z[3 + i] = f[i]
  <2>1. y \in Seq(Byte) /\ Len(y) = 7 /\ u \in Seq(Byte) /\ Len(u) = 1 /\ z = y \o u
    BY <1>8, <1>5
  <2> HIDE DEF z
  <2>2. z \in Seq(Byte) /\ Len(z) = Len(y) + Len(u) /\ (\A i \in 1..Len(y) : z[i] = y[i])
        /\ \A i \in 1..Len(u) : z[Len(y) + i] = u[i]
    <3>1. y \in Seq(Byte)
      BY <2>1
    <3>2. u \in Seq(Byte)
      BY <2>1
    <3>3. z = y \o u
      BY <2>1
    <3> QED
      BY <3>1, <3>2, <3>3
  <2> QED
    BY <1>5, <1>8, <2>2
<1> HIDE DEF z
<1>10. b \in Seq(Byte) /\ Len(b) = Len(z) + Len(uuid) /\ (\A i \in 1..Len(z) : b[i] = z[i])
       /\ \A i \in 1..Len(uuid) : b[Len(z) + i] = uuid[i]
  <2>1. z \in Seq(Byte) /\ uuid \in Seq(Byte) /\ b = z \o uuid
    BY <1>1, <1>6, <1>9
  <2> HIDE DEF z
  <2> QED
    BY <2>1
<1>11. b \in Seq(Byte) /\ Len(b) = 8 + Len(uuid) /\ b[3] = m.vehicleType /\ b[8] = Len(uuid)
       /\ (\A i \in 1..4 : b[3 + i] = f[i]) /\ \A i \in 1..Len(uuid) : b[8 + i] = uuid[i]
  BY <1>1, <1>9, <1>10
<1> QED
  BY <1>11 DEF b, f, uuid

LEMMA LoginRequestReadBack ==
  ASSUME NEW m \in LoginRequestBody
  PROVE  Read(Content(MsgType(m), Body(m))) = m
<1> DEFINE body == Body(m)  frame == Content(MsgType(m), body)  uuid == m.uuid
<1>1. m.type = LoginReq /\ m.fwVersion \in Number /\ uuid \in Seq(Byte) /\ Len(uuid) \in Nat
  BY DEF LoginRequestBody
<1>2. /\ body \in Seq(Byte) /\ Len(body) = 8 + Len(uuid)
      /\ body[3] = m.vehicleType /\ body[8] = Len(uuid)
      /\ \A i \in 1..4 : body[3 + i] = LengthBytes(m.fwVersion)[i]
      /\ \A i \in 1..Len(uuid) : body[8 + i] = uuid[i]
  BY LoginRequestShape
<1>3. MsgType(m) = LoginReq
  BY <1>1 DEF MsgType, LoginReq, JsonBusiness
<1> HIDE DEF body, uuid
<1>4. frame[3] = LoginReq /\ BodyOf(frame) = body
  BY <1>2, <1>3, ContentShape
<1>5. BigEndian(SubSeq(body, 4, 7)) = m.fwVersion
  <2>1. 3 + 4 <= Len(body)
    BY <1>1, <1>2
  <2>2. BigEndian(SubSeq(body, 3 + 1, 3 + 4)) = m.fwVersion
    BY <1>1, <1>2, <2>1, NumberAt
  <2> QED
    BY <2>2
<1>6. SubSeq(body, 9, 8 + body[8]) = uuid
  BY <1>1, <1>2
<1>7. Read(frame) = [type |-> LoginReq, vehicleType |-> m.vehicleType,
                     fwVersion |-> m.fwVersion, uuid |-> uuid]
  <2> HIDE DEF frame
  <2> QED
    BY <1>2, <1>4, <1>5, <1>6 DEF Read, ReadLoginRequest
<1>8. m = [type |-> LoginReq, vehicleType |-> m.vehicleType,
           fwVersion |-> m.fwVersion, uuid |-> m.uuid]
  BY DEF LoginRequestBody
<1> QED
  BY <1>7, <1>8 DEF body, uuid

LEMMA LoginResponseReadBack ==
  ASSUME NEW m \in LoginResponseBody
  PROVE  Read(Content(MsgType(m), Body(m))) = m
<1> DEFINE body == Body(m)  frame == Content(MsgType(m), body)
           r == <<m.result>>  f == LengthBytes(m.heartbeatMs)
<1>1. m.type = LoginResp /\ m.result \in Byte /\ m.heartbeatMs \in Number
  BY DEF LoginResponseBody
<1>2. body = r \o f
  BY <1>1 DEF Body, JsonBusiness, LoginReq, LoginResp, Heartbeat, HeartbeatResp
<1>3. r \in Seq(Byte) /\ Len(r) = 1 /\ r[1] = m.result /\ f \in Seq(Byte) /\ Len(f) = 4
  BY <1>1, FourBytes DEF Number
<1>4. MsgType(m) = LoginResp
  BY <1>1 DEF MsgType, LoginResp, JsonBusiness
<1> HIDE DEF body, r, f
<1>5. body \in Seq(Byte) /\ Len(body) = 5 /\ body[1] = m.result /\ \A i \in 1..4 : body[1 + i] = f[i]
  <2>1. body \in Seq(Byte) /\ Len(body) = Len(r) + Len(f) /\ (\A i \in 1..Len(r) : body[i] = r[i])
        /\ \A i \in 1..Len(f) : body[Len(r) + i] = f[i]
    <3>1. r \in Seq(Byte)
      BY <1>3
    <3>2. f \in Seq(Byte)
      BY <1>3
    <3> QED
      BY <1>2, <3>1, <3>2
  <2> QED
    BY <1>3, <2>1
<1>6. frame[3] = LoginResp /\ BodyOf(frame) = body
  BY <1>4, <1>5, ContentShape
<1>7. BigEndian(SubSeq(body, 2, 5)) = m.heartbeatMs
  <2>1. BigEndian(SubSeq(body, 1 + 1, 1 + 4)) = m.heartbeatMs
    <3>1. 1 \in Nat /\ 1 + 4 <= Len(body) /\ body \in Seq(Byte) /\ m.heartbeatMs \in Number
      BY <1>1, <1>5
    <3>2. \A i \in 1..4 : body[1 + i] = LengthBytes(m.heartbeatMs)[i]
      BY <1>5 DEF f
    <3> QED
      BY <3>1, <3>2, NumberAt, Zenon
  <2> QED
    BY <2>1
<1>8. ~IsEncrypted(frame[3]) /\ PacketType(frame[3]) = LoginResp /\ frame[3] # LoginReq
  BY <1>6, SmallTypes DEF LoginResp, LoginReq
<1> HIDE DEF frame
<1>9. Read(frame) = ParseLoginResponse(body)
  BY <1>6, <1>8
     DEF Read, OnFrameReceived, Dispatch, LoginResp, Heartbeat, HeartbeatResp, JsonBusiness
<1>10. ParseLoginResponse(body) = [type |-> LoginResp, result |-> m.result,
                                   heartbeatMs |-> m.heartbeatMs]
  BY <1>5, <1>7 DEF ParseLoginResponse
<1>11. m = [type |-> LoginResp, result |-> m.result, heartbeatMs |-> m.heartbeatMs]
  BY DEF LoginResponseBody
<1> QED
  BY <1>9, <1>10, <1>11 DEF frame, body

LEMMA HeartbeatReadBack ==
  ASSUME NEW m \in [type : {Heartbeat, HeartbeatResp}]
  PROVE  Read(Content(MsgType(m), Body(m))) = m
<1> DEFINE frame == Content(MsgType(m), Body(m))
<1>1. m.type \in {Heartbeat, HeartbeatResp} /\ m = [type |-> m.type]
  OBVIOUS
<1>2. Body(m) = <<>> /\ MsgType(m) = m.type
  BY <1>1 DEF Body, MsgType, LoginReq, LoginResp, Heartbeat, HeartbeatResp, JsonBusiness
<1>3. frame[3] = m.type
  <2>1. Body(m) \in Seq(Byte)
    BY <1>2
  <2> QED
    BY <1>2, <2>1, ContentShape
<1>4. ~IsEncrypted(m.type) /\ PacketType(m.type) = m.type /\ m.type # LoginReq
  BY <1>1, SmallTypes DEF Heartbeat, HeartbeatResp, LoginReq
<1> HIDE DEF frame
<1>5. Read(frame) = [type |-> m.type]
  BY <1>1, <1>3, <1>4
     DEF Read, OnFrameReceived, Dispatch, LoginResp, Heartbeat, HeartbeatResp, JsonBusiness
<1> QED
  BY <1>1, <1>5 DEF frame

(* Every message comes out of its frame as it was packed: login request    *)
(* and answer with their numbers, heartbeats, and business of any length.  *)
THEOREM EveryMessageReadBack ==
  ASSUME NEW m \in Messages
  PROVE  Read(Content(MsgType(m), Body(m))) = m
<1>1. m \in Message
  BY MessagesAssumption
<1>2. CASE m \in [type : {JsonBusiness}, text : Seq(Byte)]
  <2>1. m = [type |-> JsonBusiness, text |-> m.text] /\ m.type = JsonBusiness
        /\ m.text \in Seq(Byte)
    BY <1>2
  <2>2. OnFrameReceived(Content(MsgType(m), Body(m))) = m
    BY <2>1, BusinessReadBack
  <2>3. MsgType(m) = 5 + EncryptMask /\ MsgType(m) # LoginReq
    BY <2>1, SmallTypes DEF MsgType, JsonBusiness, LoginReq
  <2>4. Body(m) \in Seq(Byte)
    BY <2>1, CipherAssumption
       DEF Body, AesEncrypt, JsonBusiness, LoginReq, LoginResp, Heartbeat, HeartbeatResp
  <2>5. Content(MsgType(m), Body(m))[3] # LoginReq
    BY <2>3, <2>4, ContentShape
  <2> QED
    BY <2>2, <2>5 DEF Read
<1> QED
  BY <1>1, <1>2, LoginRequestReadBack, LoginResponseReadBack, HeartbeatReadBack DEF Message

(* Every message comes out of its frame as it was packed, with its numbers *)
(* and its text, however the stream was cut.                               *)
THEOREM MessagesComeIntact ==
  ASSUME IntactStreams
  PROVE  Spec => []MessagesIntact
<1>1. ASSUME ParserInv PROVE MessagesIntact
  <2> SUFFICES ASSUME NEW i \in DOMAIN delivered, NEW m \in Messages,
                      plan[i].msgType = MsgType(m), plan[i].body = Body(m)
               PROVE  Read(delivered[i]) = m
    BY DEF MessagesIntact
  <2>1. delivered[i] = Inside(plan[i])
    BY <1>1 DEF ParserInv
  <2>2. delivered[i] = Content(MsgType(m), Body(m))
    BY <2>1 DEF Inside
  <2> QED
    BY <2>2, EveryMessageReadBack
<1> QED
  BY <1>1, ParserInvariant, PTL
=============================================================================
