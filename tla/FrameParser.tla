---------------------------- MODULE FrameParser ----------------------------
(***************************************************************************)
(* TcpClient::receiveAndParse and parseFrame, byte by byte: the io thread  *)
(* cuts frames out of a stream that recv() returns in pieces of any size.  *)
(* Each behaviour starts with one stream, all of it on its way; recv()     *)
(* takes some of it at a time.                                             *)
(***************************************************************************)
EXTENDS FrameCodec

CONSTANTS
    Plans,   \* streams tried: sequences of items (see Item)
    MaxRead  \* most bytes one recv() returns (4096 in the code)

VARIABLES
    plan,       \* the stream, as its items
    wire,       \* bytes not yet received
    recvBuf,    \* recvBuf_
    parsing,    \* inside the loop of receiveAndParse
    delivered   \* frames given to frameCallback_
vars == <<plan, wire, recvBuf, parsing, delivered>>

(* An item: stray bytes, then a frame, whose checksum may be damaged.      *)
Item == [stray : Seq(Byte), msgType : Byte, body : Seq(Byte), damaged : BOOLEAN]
Bytes(it) ==
    LET f == PackFrame(it.msgType, it.body)
        k == Len(f)
    IN  it.stray \o IF it.damaged THEN [f EXCEPT ![k] = (@ + 1) % Base] ELSE f
Stream(items) == FlattenSeq([i \in DOMAIN items |-> Bytes(items[i])])
Sent(items) == [i \in DOMAIN items |-> Content(items[i].msgType, items[i].body)]
-----------------------------------------------------------------------------
(* std::find(PREAMBLE) and the erase before it; all is dropped without one. *)
FromPreamble(buf) ==
    LET at == {i \in DOMAIN buf : buf[i] = Preamble} IN
    IF at = {} THEN <<>> ELSE SubSeq(buf, CHOOSE i \in at : \A j \in at : i <= j, Len(buf))

(* What parseFrame returns (no frame: empty) and leaves in the buffer,     *)
(* when the frame at its head is not complete, ends at total, or is bad.   *)
WaitDropping(buf) == [frame |-> <<>>, rest |-> <<>>]  \* fault: forgets the piece
Wait(buf) == [frame |-> <<>>, rest |-> buf]

CutTooMuch(buf, total) ==                             \* fault: off by one
    [frame |-> SubSeq(buf, 1, total - 1), rest |-> SubSeq(buf, total + 2, Len(buf))]
Cut(buf, total) ==
    [frame |-> SubSeq(buf, 1, total - 1), rest |-> SubSeq(buf, total + 1, Len(buf))]

SkipPreamble(buf) == [frame |-> <<>>, rest |-> Tail(buf)]

ChecksumHolds(buf, total) == buf[total] = CalcChecksum(SubSeq(buf, 1, total - 1))

ParseFrame(buf) ==
    LET b == FromPreamble(buf) IN
    IF Len(b) < HeaderSize \/ Len(b) < TotalLen(b) THEN Wait(b)
    ELSE IF ChecksumHolds(b, TotalLen(b)) THEN Cut(b, TotalLen(b))
    ELSE SkipPreamble(b)

Receive ==
    /\ ~parsing
    /\ \E n \in 1..MaxRead :
          /\ n <= Len(wire)
          /\ recvBuf' = recvBuf \o SubSeq(wire, 1, n)
          /\ wire' = SubSeq(wire, n + 1, Len(wire))
    /\ parsing' = TRUE
    /\ UNCHANGED <<plan, delivered>>

(* Fault: "if" for "while".                                                *)
ParseNextOnce ==
    /\ parsing /\ recvBuf # <<>>
    /\ LET p == ParseFrame(recvBuf) IN
          /\ recvBuf' = p.rest
          /\ delivered' = IF p.frame = <<>> THEN delivered ELSE Append(delivered, p.frame)
    /\ parsing' = FALSE
    /\ UNCHANGED <<plan, wire>>

(* One turn of the loop: a frame goes to the callback, or the loop ends.   *)
ParseNext ==
    /\ parsing /\ recvBuf # <<>>
    /\ LET p == ParseFrame(recvBuf) IN
          /\ recvBuf' = p.rest
          /\ IF p.frame = <<>>
               THEN parsing' = FALSE /\ UNCHANGED delivered
               ELSE delivered' = Append(delivered, p.frame) /\ UNCHANGED parsing
    /\ UNCHANGED <<plan, wire>>

ParseEnds ==
    /\ parsing /\ recvBuf = <<>>
    /\ parsing' = FALSE
    /\ UNCHANGED <<plan, wire, recvBuf, delivered>>

Init ==
    /\ plan \in Plans
    /\ wire = Stream(plan)
    /\ recvBuf = <<>>
    /\ parsing = FALSE
    /\ delivered = <<>>

Next == Receive \/ ParseNext \/ ParseEnds

Spec == Init /\ [][Next]_vars

(* The io thread polls for ever and the network delivers what was sent.    *)
FairSpec == Spec /\ WF_vars(Next)
-----------------------------------------------------------------------------
Remaining == LET all == Sent(plan) IN SubSeq(all, Len(delivered) + 1, Len(all))

Channel == INSTANCE FrameChannel WITH queue <- Remaining

(* However the stream is cut by recv(), the callback sees the frames that  *)
(* were sent, whole, once and in order.                                    *)
ImplementsChannel == Channel!Spec

(* Every frame reaches the callback as soon as its bytes are there; none   *)
(* waits for something after it.                                           *)
AllDelivered == Channel!EventuallyAll

(* "Complete frames are notified": when the parser waits for more bytes,   *)
(* there is no complete frame in its buffer.                               *)
NoFrameLeftBehind == ~parsing => ParseFrame(recvBuf).frame = <<>>
=============================================================================
