---------------------------- MODULE MCFrameParser ----------------------------
(***************************************************************************)
(* Bytes below 32, blocks of two, and streams of up to three frames, whose *)
(* bodies, checksums and stray bytes include the preamble's value where    *)
(* that is legal, and whose texts end in what could be padding.            *)
(***************************************************************************)
EXTENDS MessageCodec

MCAuthId == <<19, 20>>
MCEncipher(s) == Reverse([i \in DOMAIN s |-> (s[i] + 5) % 32])
MCDecipher(s) == Reverse([i \in DOMAIN s |-> (s[i] + 27) % 32])

Texts == {<<>>, <<1>>, <<2, 2>>, <<5, 10, 1>>}
MCMessages ==
    {[type |-> LoginReq, vehicleType |-> 1, fwVersion |-> 100, uuid |-> <<10, 27>>],
     [type |-> LoginResp, result |-> 1, heartbeatMs |-> 1000], [type |-> Heartbeat]}
        \cup {[type |-> JsonBusiness, text |-> t] : t \in Texts}

It(s, t, b, d) == [stray |-> s, msgType |-> t, body |-> b, damaged |-> d]

(* Type 5 with no body has the preamble for its checksum.  Type 21 is an   *)
(* encrypted message whose body is not one.                                *)
Others == {<<5, <<>>>>, <<21, <<10>>>>, <<21, <<10, 11>>>>, <<6, <<10, 27, 3>>>>}
Packed == {<<MsgType(m), Body(m)>> : m \in MCMessages}
Alone == {It(<<>>, p[1], p[2], FALSE) : p \in Packed \cup Others}
Short == {f \in Alone : Len(f.body) < 3}
Behind == {[f EXCEPT !.stray = <<1, 4>>] : f \in Short}

IntactPlans == [1..2 -> Alone \cup Behind] \cup [1..3 -> Short]

DamagedPlans == {<<It(<<>>, 3, <<>>, TRUE), It(<<>>, 3, <<7>>, FALSE)>>}
=============================================================================
