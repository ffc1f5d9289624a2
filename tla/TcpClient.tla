----------------------------- MODULE TcpClient -----------------------------
(***************************************************************************)
(* class TcpClient (tcp_client.cpp): the socket, the send queue and the    *)
(* two threads that run its code.  "io" is the background thread of        *)
(* start(); "main" is the thread of the owner (ros::spinOnce, timers).     *)
(*                                                                         *)
(* The module gives one action per atomic step of a member function, each  *)
(* parameterised by the thread that runs it where both may, and the        *)
(* kernel's side of a TCP connection.  The owner (ProtocolParsingNode)     *)
(* supplies the two callbacks and composes the steps into a next-state     *)
(* relation.  A step is the code between two accesses to state the other   *)
(* thread may touch: sockFd_ is a plain int read again at each use, so     *)
(* close(sockFd_) and sockFd_ = -1 are two steps, and the test of line 92  *)
(* is apart from the ::send of line 100.                                   *)
(***************************************************************************)
EXTENDS Integers, Sequences, FiniteSets

CONSTANTS
    Fds,       \* descriptors the process can still open (1..N)
    InFrames,  \* kinds of frame the server may send
    MaxQueue,  \* bound: while the queue is longer, the network does not
               \* misbehave and the node has nothing new of its own to send
    Bursts     \* bound: the sequences of frames that may wait to be read on a
               \* connection, to come out of one recv()

ASSUME FdsAssumption == Fds \subseteq Nat \ {0} /\ IsFiniteSet(Fds)
ASSUME BoundAssumption == MaxQueue \in Nat /\ Bursts \subseteq Seq(InFrames)

VARIABLES
    sockFd,     \* sockFd_
    state,      \* state_
    running,    \* running_
    sendQueue,  \* sendQueue_: what is left to write of each frame
    sendMutex,  \* holder of sendMutex_
    recvBuf,    \* recvBuf_, as the frames it holds
    pc,         \* where each thread is
    local,      \* each thread's arguments and return addresses
    conn        \* the kernel's and the server's view of each descriptor

clientVars == <<sockFd, state, running, sendQueue, sendMutex, recvBuf>>
tcpVars == <<clientVars, pc, local, conn>>

NoFd == -1
NoThread == "none"
Threads == {"main", "io"}
States == {"DISCONNECTED", "CONNECTING", "CONNECTED"}
OutKinds == {"login", "heartbeat", "heartbeatResp", "business"}
Chunks == [kind : OutKinds, part : {"whole", "rest"}]

SendLabels == {"send", "lock", "write", "pop", "trim", "wclose", "wunset", "unlock"}
NotifyLabels == {"notify", "cb"}

(* A descriptor's connection.  peer: its TCP state; pos: where the byte    *)
(* stream written so far stops ("stale": inside a frame begun on another   *)
(* connection, "torn": a frame was cut by bytes of another one); srv: what *)
(* the server made of the login; rx: frames that wait to be read.          *)
Peers == {"closed", "new", "up", "fin", "reset"}
Positions == {"start", "boundary", "stale", "torn"} \cup OutKinds
Conns == [peer : Peers, pos : Positions, srv : {"new", "asked", "ok", "no"},
          rx : Seq(InFrames)]
ClosedConn == [peer |-> "closed", pos |-> "start", srv |-> "new", rx |-> <<>>]

PeerOf(f) == IF f \in Fds THEN conn[f].peer ELSE "closed"
Holder(t) == sendMutex = t
-----------------------------------------------------------------------------
(* Control: every step is enabled at one label and leaves at another.      *)

NoCall == [data |-> "none", sendRet |-> "none", newState |-> "none", notifyRet |-> "none"]

Goto(t, l) == pc' = [pc EXCEPT ![t] = l]

CallSend(t, kind, ret) ==
    /\ Goto(t, "send")
    /\ local' = [local EXCEPT ![t].data = kind, ![t].sendRet = ret]

ReturnSend(t) ==
    /\ Goto(t, local[t].sendRet)
    /\ local' = [local EXCEPT ![t].data = "none", ![t].sendRet = "none"]

CallNotify(t, s, ret) ==
    /\ Goto(t, "notify")
    /\ local' = [local EXCEPT ![t].newState = s, ![t].notifyRet = ret]

ReturnNotify(t) ==
    /\ Goto(t, local[t].notifyRet)
    /\ local' = [local EXCEPT ![t].newState = "none", ![t].notifyRet = "none"]

CloseFd(f) == conn' = IF f \in Fds THEN [conn EXCEPT ![f] = ClosedConn] ELSE conn
-----------------------------------------------------------------------------
(* notifyState: state_.exchange, then the callback (label "cb") when the   *)
(* value changed.                                                          *)
NotifyState(t) ==
    /\ pc[t] = "notify"
    /\ state' = local[t].newState
    /\ IF state # local[t].newState
         THEN Goto(t, "cb") /\ UNCHANGED local
         ELSE ReturnNotify(t)
    /\ UNCHANGED <<sockFd, running, sendQueue, sendMutex, recvBuf, conn>>
-----------------------------------------------------------------------------
(* send                                                                    *)

SendCheck(t) ==
    /\ pc[t] = "send"
    /\ IF sockFd = NoFd
         THEN ReturnSend(t)
         ELSE Goto(t, "lock") /\ UNCHANGED local
    /\ UNCHANGED <<clientVars, conn>>

(* Fault: no lock_guard.                                                   *)
SendLockUnguarded(t) ==
    /\ pc[t] = "lock"
    /\ sendMutex' = t
    /\ sendQueue' = Append(sendQueue, [kind |-> local[t].data, part |-> "whole"])
    /\ Goto(t, "write")
    /\ UNCHANGED <<sockFd, state, running, recvBuf, local, conn>>

SendLock(t) ==
    /\ pc[t] = "lock"
    /\ sendMutex = NoThread
    /\ sendMutex' = t
    /\ sendQueue' = Append(sendQueue, [kind |-> local[t].data, part |-> "whole"])
    /\ Goto(t, "write")
    /\ UNCHANGED <<sockFd, state, running, recvBuf, local, conn>>

(* Where the stream of a connection stops once chunk c, or only a first    *)
(* piece of it, has been written after position p.                         *)
InStep(p, c) ==
    \/ c.part = "whole" /\ p \in {"start", "boundary"}
    \/ c.part = "rest" /\ p \in {c.kind, "stale", "start"}
PosAfter(p, c, all) ==
    CASE ~InStep(p, c) -> "torn"
      [] InStep(p, c) /\ all -> "boundary"
      [] InStep(p, c) /\ ~all -> IF c.part = "whole" \/ p = c.kind THEN c.kind ELSE "stale"

(* The server has a login request once a whole one is in the stream.       *)
CompletesLogin(p, c) ==
    c.kind = "login" /\ (IF c.part = "whole" THEN p \in {"start", "boundary"} ELSE p = "login")
Written(cn, c, all) ==
    [cn EXCEPT !.pos = PosAfter(cn.pos, c, all),
               !.srv = IF all /\ @ = "new" /\ CompletesLogin(cn.pos, c) THEN "asked" ELSE @]

ShortQueue == Len(sendQueue) <= MaxQueue

(* The loop of send(): one ::send of the front chunk per turn.             *)
SendAll(t) ==
    /\ pc[t] = "write" /\ sendQueue # <<>>
    /\ PeerOf(sockFd) \in {"up", "fin"}
    /\ conn' = [conn EXCEPT ![sockFd] = Written(@, Head(sendQueue), TRUE)]
    /\ Goto(t, "pop")
    /\ UNCHANGED <<clientVars, local>>

SendPartial(t) ==
    /\ pc[t] = "write" /\ sendQueue # <<>> /\ ShortQueue
    /\ PeerOf(sockFd) \in {"up", "fin"}
    /\ conn' = [conn EXCEPT ![sockFd] = Written(@, Head(sendQueue), FALSE)]
    /\ Goto(t, "trim")
    /\ UNCHANGED <<clientVars, local>>

(* Fault: the front is popped although nothing of it was sent.             *)
SendWouldBlockPops(t) ==
    /\ pc[t] = "write" /\ sendQueue # <<>> /\ ShortQueue
    /\ PeerOf(sockFd) \in {"new", "up", "fin"}
    /\ sendQueue' = Tail(sendQueue)
    /\ sendMutex' = NoThread
    /\ ReturnSend(t)
    /\ UNCHANGED <<sockFd, state, running, recvBuf, conn>>

SendWouldBlock(t) ==
    /\ pc[t] = "write" /\ sendQueue # <<>> /\ ShortQueue
    /\ PeerOf(sockFd) \in {"new", "up", "fin"}
    /\ sendMutex' = NoThread
    /\ ReturnSend(t)
    /\ UNCHANGED <<sockFd, state, running, sendQueue, recvBuf, conn>>

SendError(t) ==
    /\ pc[t] = "write" /\ sendQueue # <<>>
    /\ PeerOf(sockFd) \in {"closed", "new", "reset"}
    /\ Goto(t, "wclose")
    /\ UNCHANGED <<clientVars, local, conn>>

SendDone(t) ==
    /\ pc[t] = "write" /\ sendQueue = <<>>
    /\ sendMutex' = NoThread
    /\ ReturnSend(t)
    /\ UNCHANGED <<sockFd, state, running, sendQueue, recvBuf, conn>>

SendPop(t) ==
    /\ pc[t] = "pop"
    /\ sendQueue' = Tail(sendQueue)
    /\ Goto(t, "write")
    /\ UNCHANGED <<sockFd, state, running, sendMutex, recvBuf, local, conn>>

(* Fault: the part already sent is not erased from the front.              *)
SendTrimForgets(t) ==
    /\ pc[t] = "trim"
    /\ sendMutex' = NoThread
    /\ ReturnSend(t)
    /\ UNCHANGED <<sockFd, state, running, sendQueue, recvBuf, conn>>

SendTrim(t) ==
    /\ pc[t] = "trim"
    /\ sendQueue' = [sendQueue EXCEPT ![1].part = "rest"]
    /\ sendMutex' = NoThread
    /\ ReturnSend(t)
    /\ UNCHANGED <<sockFd, state, running, recvBuf, conn>>

SendClose(t) ==
    /\ pc[t] = "wclose"
    /\ CloseFd(sockFd)
    /\ Goto(t, "wunset")
    /\ UNCHANGED <<clientVars, local>>

(* sockFd_ = -1, then notifyState(DISCONNECTED) with sendMutex_ held.      *)
SendUnset(t) ==
    /\ pc[t] = "wunset"
    /\ sockFd' = NoFd
    /\ CallNotify(t, "DISCONNECTED", "unlock")
    /\ UNCHANGED <<state, running, sendQueue, sendMutex, recvBuf, conn>>

SendUnlock(t) ==
    /\ pc[t] = "unlock"
    /\ sendMutex' = NoThread
    /\ ReturnSend(t)
    /\ UNCHANGED <<sockFd, state, running, sendQueue, recvBuf, conn>>

SendStep(t) ==
    \/ SendCheck(t) \/ SendLock(t)
    \/ SendAll(t) \/ SendPartial(t) \/ SendWouldBlock(t) \/ SendError(t) \/ SendDone(t)
    \/ SendPop(t) \/ SendTrim(t)
    \/ SendClose(t) \/ SendUnset(t) \/ SendUnlock(t)
-----------------------------------------------------------------------------
(* ioLoop, run by "io"                                                     *)

IoLoop ==
    /\ pc["io"] = "loop"
    /\ \/ ~running /\ Goto("io", "dead") /\ UNCHANGED local
       \/ running /\ sockFd = NoFd /\ CallNotify("io", "CONNECTING", "socket")
       \/ running /\ sockFd # NoFd /\ Goto("io", "recv") /\ UNCHANGED local
    /\ UNCHANGED <<clientVars, conn>>

(* tryConnect: socket() returns the lowest free descriptor.                *)
FreeFds == {f \in Fds : conn[f].peer = "closed"}
LowestFree(f) == f \in FreeFds /\ \A g \in FreeFds : f <= g

Socket ==
    /\ pc["io"] = "socket"
    /\ \/ \E f \in Fds :
            /\ LowestFree(f)
            /\ sockFd' = f
            /\ conn' = [conn EXCEPT ![f].peer = "new"]
            /\ Goto("io", "connect")
       \/ /\ FreeFds = {}
          /\ sockFd' = NoFd
          /\ UNCHANGED conn
          /\ Goto("io", "sleep")
    /\ UNCHANGED <<state, running, sendQueue, sendMutex, recvBuf, local>>

(* connect() and select(): established, refused only after select() has    *)
(* reported the socket writable (SO_ERROR is not read), or not in 5 s.     *)
ConnectReturns(peer) ==
    /\ pc["io"] = "connect"
    /\ PeerOf(sockFd) = "new"
    /\ conn' = [conn EXCEPT ![sockFd].peer = peer]
    /\ CallNotify("io", "CONNECTED", "clear")
    /\ UNCHANGED <<clientVars>>
ConnectOk == ConnectReturns("up")
ConnectLateError == ShortQueue /\ ConnectReturns("reset")

ConnectFails ==
    /\ pc["io"] = "connect"
    /\ Goto("io", "cclose")
    /\ UNCHANGED <<clientVars, local, conn>>

(* close(sockFd_) and sockFd_ = -1 of tryConnect and of receiveAndParse.   *)
IoClose ==
    /\ pc["io"] \in {"cclose", "rclose"}
    /\ CloseFd(sockFd)
    /\ Goto("io", IF pc["io"] = "cclose" THEN "cunset" ELSE "runset")
    /\ UNCHANGED <<clientVars, local>>

(* Fault: 0 taken for "no descriptor".                                     *)
IoUnsetToZero ==
    /\ pc["io"] \in {"cunset", "runset"}
    /\ sockFd' = 0
    /\ Goto("io", IF pc["io"] = "cunset" THEN "sleep" ELSE "after")
    /\ UNCHANGED <<state, running, sendQueue, sendMutex, recvBuf, local, conn>>

IoUnset ==
    /\ pc["io"] \in {"cunset", "runset"}
    /\ sockFd' = NoFd
    /\ Goto("io", IF pc["io"] = "cunset" THEN "sleep" ELSE "after")
    /\ UNCHANGED <<state, running, sendQueue, sendMutex, recvBuf, local, conn>>

(* Fault: the retry does not look at running_ again.                       *)
ReconnectSleepRetries ==
    /\ pc["io"] = "sleep"
    /\ Goto("io", "socket")
    /\ UNCHANGED <<clientVars, local, conn>>

ReconnectSleep ==
    /\ pc["io"] = "sleep"
    /\ Goto("io", "loop")
    /\ UNCHANGED <<clientVars, local, conn>>

(* Fault: recvBuf_.clear() is missing.                                     *)
ClearRecvBufSkipped ==
    /\ pc["io"] = "clear"
    /\ Goto("io", "recv")
    /\ UNCHANGED <<clientVars, local, conn>>

ClearRecvBuf ==
    /\ pc["io"] = "clear"
    /\ recvBuf' = <<>>
    /\ Goto("io", "recv")
    /\ UNCHANGED <<sockFd, state, running, sendQueue, sendMutex, local, conn>>

(* receiveAndParse: one recv() takes all that has arrived.                 *)
Receive ==
    /\ pc["io"] = "recv"
    /\ PeerOf(sockFd) \in {"up", "fin"}
    /\ conn[sockFd].rx # <<>>
    /\ recvBuf' = recvBuf \o conn[sockFd].rx
    /\ conn' = [conn EXCEPT ![sockFd].rx = <<>>]
    /\ Goto("io", "parse")
    /\ UNCHANGED <<sockFd, state, running, sendQueue, sendMutex, local>>

ReceiveNothing ==
    /\ pc["io"] = "recv"
    /\ PeerOf(sockFd) = "up"
    /\ conn[sockFd].rx = <<>>
    /\ Goto("io", "after")
    /\ UNCHANGED <<clientVars, local, conn>>

ReceiveEnds ==
    /\ pc["io"] = "recv"
    /\ \/ PeerOf(sockFd) \in {"closed", "new", "reset"}
       \/ PeerOf(sockFd) = "fin" /\ conn[sockFd].rx = <<>>
    /\ Goto("io", "rclose")
    /\ UNCHANGED <<clientVars, local, conn>>

(* parseFrame finds nothing more: the buffer is empty, or its first frame  *)
(* fails its checksum, which also ends the loop over the frames behind it. *)
ParseStops ==
    /\ pc["io"] = "parse"
    /\ \/ recvBuf = <<>> /\ UNCHANGED recvBuf
       \/ recvBuf # <<>> /\ Head(recvBuf) = "corrupt" /\ recvBuf' = Tail(recvBuf)
    /\ Goto("io", "after")
    /\ UNCHANGED <<sockFd, state, running, sendQueue, sendMutex, local, conn>>

(* The tail of the loop body: report the loss of the connection.           *)
AfterReceive ==
    /\ pc["io"] = "after"
    /\ IF sockFd = NoFd
         THEN CallNotify("io", "DISCONNECTED", "loop")
         ELSE Goto("io", "loop") /\ UNCHANGED local
    /\ UNCHANGED <<clientVars, conn>>

IoClientStep ==
    \/ IoLoop \/ Socket \/ ConnectOk \/ ConnectLateError \/ ConnectFails
    \/ IoClose \/ IoUnset \/ ReconnectSleep \/ ClearRecvBuf
    \/ Receive \/ ReceiveNothing \/ ReceiveEnds \/ ParseStops \/ AfterReceive
-----------------------------------------------------------------------------
(* stop and start, run by "main"; stop returns to label next.              *)

StopRunning ==
    /\ pc["main"] = "stop"
    /\ running' = FALSE
    /\ Goto("main", "join")
    /\ UNCHANGED <<sockFd, state, sendQueue, sendMutex, recvBuf, local, conn>>

(* Fault: the thread is detached, not joined.                              *)
DetachIo ==
    /\ pc["main"] = "join"
    /\ Goto("main", "stopClose")
    /\ UNCHANGED <<clientVars, local, conn>>

JoinIo ==
    /\ pc["main"] = "join"
    /\ pc["io"] = "dead"
    /\ Goto("main", "stopClose")
    /\ UNCHANGED <<clientVars, local, conn>>

StopClose(next) ==
    /\ pc["main"] = "stopClose"
    /\ sockFd' = NoFd
    /\ CloseFd(sockFd)
    /\ CallNotify("main", "DISCONNECTED", next)
    /\ UNCHANGED <<state, running, sendQueue, sendMutex, recvBuf>>

(* start: nothing if running_, else a new thread.                          *)
Start ==
    /\ pc["main"] = "start"
    /\ running' = TRUE
    /\ pc' = IF running THEN [pc EXCEPT !["main"] = "ok"]
                        ELSE [pc EXCEPT !["main"] = "ok", !["io"] = "loop"]
    /\ UNCHANGED <<sockFd, state, sendQueue, sendMutex, recvBuf, local, conn>>
-----------------------------------------------------------------------------
(* The network and the peer's kernel                                       *)

PeerFin(f) ==
    /\ conn[f].peer = "up" /\ ShortQueue
    /\ conn' = [conn EXCEPT ![f].peer = "fin"]
    /\ UNCHANGED <<clientVars, pc, local>>

PeerReset(f) ==
    /\ conn[f].peer \in {"up", "fin"} /\ ShortQueue
    /\ conn' = [conn EXCEPT ![f].peer = "reset", ![f].rx = <<>>]
    /\ UNCHANGED <<clientVars, pc, local>>

Deliver(f, fr, srv) ==
    /\ conn[f].peer = "up"
    /\ fr \in InFrames /\ Append(conn[f].rx, fr) \in Bursts
    /\ conn' = [conn EXCEPT ![f].rx = Append(@, fr), ![f].srv = srv]
    /\ UNCHANGED <<clientVars, pc, local>>
-----------------------------------------------------------------------------
(* The program as the owner's constructor leaves it: start() was called.   *)
TcpInit ==
    /\ sockFd = NoFd
    /\ state = "DISCONNECTED"
    /\ running = TRUE
    /\ sendQueue = <<>>
    /\ sendMutex = NoThread
    /\ recvBuf = <<>>
    /\ pc = [t \in Threads |-> IF t = "io" THEN "loop" ELSE "ok"]
    /\ local = [t \in Threads |-> NoCall]
    /\ conn = [f \in Fds |-> ClosedConn]
=============================================================================
