---------------------------- MODULE FrameChannel ----------------------------
(***************************************************************************)
(* What the receiving side of TcpClient promises: the frame callback gets  *)
(* every frame the server sent, once, whole and in order.                  *)
(***************************************************************************)
EXTENDS Sequences

VARIABLES
    queue,      \* frames sent and not yet handed to the frame callback
    delivered   \* frames handed to the frame callback

Init == delivered = <<>>

Deliver ==
    /\ queue # <<>>
    /\ delivered' = Append(delivered, Head(queue))
    /\ queue' = Tail(queue)

Spec == Init /\ [][Deliver]_<<queue, delivered>>

EventuallyAll == <>(queue = <<>>)
=============================================================================
