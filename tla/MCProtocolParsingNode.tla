------------------------ MODULE MCProtocolParsingNode ------------------------
(* ProtocolParsingNode on small instances; the other constants are in the  *)
(* cfgs.                                                                   *)
EXTENDS ProtocolParsingNode

(* Each recv() brings one frame.                                           *)
Singly == {<<fr>> : fr \in InFrames}

(* Or a damaged one with the login answer behind it, which recvBuf_ keeps. *)
BehindDamage == Singly \cup {<<"corrupt", "loginOk">>}
=============================================================================
