---------------------- MODULE FramesContiguous_proofs ----------------------
(***************************************************************************)
(* On every connection a frame once begun is completed before any other    *)
(* byte follows it, for any number of descriptors and any queue length.    *)
(* The argument: what was written to the connection in use stops where the *)
(* head of sendQueue goes on, except while the thread that holds           *)
(* sendMutex_ has written and not yet popped or trimmed the head.  From    *)
(* that it follows that the login request of a connection is not lost.     *)
(***************************************************************************)
EXTENDS ProtocolParsingNode_proofs

AtPop == \E t \in Threads : pc[t] = "pop"
AtTrim == \E t \in Threads : pc[t] = "trim"
Between(p) == p \in {"start", "boundary"}

(* Only the head of the queue may be the rest of a frame.                  *)
RestIsFirst == \A i \in 2..Len(sendQueue) : sendQueue[i].part = "whole"

(* Nothing was written to a descriptor that is closed or not connected.    *)
FreshStart == \A f \in Fds : conn[f].peer \in {"closed", "new"} => conn[f].pos = "start"

(* Where the stream of the connection in use stops.                        *)
Aligned(p) ==
    /\ AtPop \/ sendQueue = <<>> => Between(p)
    /\ AtTrim => p \in {Head(sendQueue).kind, "stale", "start"}
    /\ ~AtPop /\ ~AtTrim /\ sendQueue # <<>> => InStep(p, Head(sendQueue))

StreamInv ==
    /\ RestIsFirst
    /\ FreshStart
    /\ sockFd \in Fds => Aligned(conn[sockFd].pos)
    /\ FramesContiguous
-----------------------------------------------------------------------------
(* Steps that leave the queue alone.                                       *)

Quiet(l) == l \notin {"pop", "trim"}

(* Such a step may change or drop the descriptor in use, close connections *)
(* and move the threads, but not into or out of "pop" and "trim".          *)
LEMMA StreamFrame ==
  ASSUME StreamInv, sendQueue \in Seq(Chunks), UNCHANGED sendQueue,
         sockFd' \in Fds => sockFd' = sockFd \/ conn'[sockFd'].pos = "start",
         \A t \in Threads : pc'[t] = pc[t] \/ (Quiet(pc[t]) /\ Quiet(pc'[t])),
         \A f \in Fds : \/ conn'[f].pos = "start"
                        \/ conn'[f].pos = conn[f].pos /\ conn'[f].peer \notin {"closed", "new"}
                        \/ conn'[f] = conn[f]
  PROVE  StreamInv'
<1> DEFINE AlignedNext(p) ==
      /\ AtPop' \/ sendQueue = <<>> => Between(p)
      /\ AtTrim' => p \in {Head(sendQueue).kind, "stale", "start"}
      /\ ~AtPop' /\ ~AtTrim' /\ sendQueue # <<>> => InStep(p, Head(sendQueue))
<1>1. (AtPop' <=> AtPop) /\ (AtTrim' <=> AtTrim)
  BY DEF AtPop, AtTrim, Quiet
<1>2. RestIsFirst'
  BY DEF StreamInv, RestIsFirst
<1>3. FreshStart' /\ FramesContiguous'
  BY DEF StreamInv, FreshStart, FramesContiguous
<1>4. sendQueue # <<>> => Head(sendQueue) \in Chunks
  BY HeadTailProperties
<1>5. AlignedNext("start")
  BY <1>4 DEF Between, InStep, Chunks
<1>6. \A p : Aligned(p) => AlignedNext(p)
  BY <1>1 DEF Aligned
<1> HIDE DEF AlignedNext
<1>7. sockFd' \in Fds => AlignedNext(conn'[sockFd'].pos)
  BY <1>5, <1>6 DEF StreamInv
<1>8. sockFd' \in Fds => Aligned(conn[sockFd].pos)'
  BY <1>7 DEF AlignedNext, Aligned
<1> QED
  BY <1>2, <1>3, <1>8 DEF StreamInv

(* Where a call returns to is never "pop" or "trim".                       *)
LEMMA QuietReturns ==
  ASSUME ControlInv, NEW t \in Threads
  PROVE  /\ pc[t] \in SendLabels => Quiet(local[t].sendRet)
         /\ pc[t] \in NotifyLabels => Quiet(local[t].notifyRet)
  BY DEF ControlInv, CallOK, InSend, SendReturns, NotifyReturns, Quiet

LEMMA CloseIsFresh ==
  ASSUME ConnTypeOK, NEW g, CloseFd(g)
  PROVE  \A f \in Fds : conn'[f].pos = "start" \/ conn'[f] = conn[f]
  BY DEF CloseFd, ConnTypeOK, ClosedConn

LEMMA StreamQuietSend ==
  ASSUME StreamInv, TypeOK, ControlInv, NEW t \in Threads,
         \/ SendCheck(t) \/ SendWouldBlock(t) \/ SendError(t) \/ SendDone(t)
         \/ SendClose(t) \/ SendUnset(t) \/ SendUnlock(t)
  PROVE  StreamInv'
<1> USE DEF TypeOK, ClientTypeOK, clientVars
<1>1. pc \in [Threads -> Labels]
  BY DEF ControlTypeOK
<1>2. NoFd \notin Fds
  BY FdsAssumption, SMT DEF NoFd
<1>3. \A u \in Threads : pc'[u] = pc[u] \/ (Quiet(pc[u]) /\ Quiet(pc'[u]))
  BY <1>1, QuietReturns
  DEF SendCheck, SendWouldBlock, SendError, SendDone, SendClose, SendUnset, SendUnlock,
      ReturnSend, CallNotify, Goto, Quiet, SendLabels
<1>4. \A f \in Fds : conn'[f].pos = "start" \/ conn'[f] = conn[f]
  BY CloseIsFresh
  DEF SendCheck, SendWouldBlock, SendError, SendDone, SendClose, SendUnset, SendUnlock
<1>5. UNCHANGED sendQueue /\ sockFd' \in {sockFd, NoFd}
  BY DEF SendCheck, SendWouldBlock, SendError, SendDone, SendClose, SendUnset, SendUnlock
<1> QED
  BY <1>2, <1>3, <1>4, <1>5, StreamFrame
-----------------------------------------------------------------------------
(* The steps of send() that write or change the queue.                     *)

(* The thread inside the locked part is alone there.                       *)
LEMMA Alone ==
  ASSUME ControlInv, NEW t \in Threads, InCritical(t)
  PROVE  \A u \in Threads \ {t} : Quiet(pc[u])
  BY DEF ControlInv, MutexSafe, Holder, InCritical, Quiet

LEMMA StreamLock ==
  ASSUME StreamInv, TypeOK, ControlInv, NEW t \in Threads, SendLock(t)
  PROVE  StreamInv'
<1> DEFINE c == [kind |-> local[t].data, part |-> "whole"]
<1>1. sendQueue \in Seq(Chunks) /\ c \in Chunks /\ sendQueue' = Append(sendQueue, c)
  BY DEF SendLock, ControlInv, CallOK, InSend, SendLabels, Chunks, TypeOK, ClientTypeOK
<1>2. /\ Len(sendQueue') = Len(sendQueue) + 1 /\ Len(sendQueue) \in Nat
      /\ \A i \in 1..Len(sendQueue) : sendQueue'[i] = sendQueue[i]
      /\ sendQueue'[Len(sendQueue) + 1] = c
  BY <1>1, AppendProperties, LenProperties
<1>3. RestIsFirst'
  BY <1>2, SMT DEF StreamInv, RestIsFirst
<1>4. sendQueue' # <<>> /\ Head(sendQueue') = (IF sendQueue = <<>> THEN c ELSE Head(sendQueue))
  BY <1>1, <1>2, SMT
<1>5. ~AtPop /\ ~AtTrim /\ ~AtPop' /\ ~AtTrim'
  <2>1. \A u \in Threads : Quiet(pc[u])
    BY DEF SendLock, ControlInv, MutexSafe, Holder, InCritical, Quiet, NoThread, Threads
  <2>2. \A u \in Threads : Quiet(pc'[u])
    BY <2>1 DEF SendLock, Goto, ControlInv, ControlTypeOK, Quiet
  <2> QED
    BY <2>1, <2>2 DEF AtPop, AtTrim, Quiet
<1>6. sockFd' = sockFd /\ conn' = conn
  BY DEF SendLock
<1>7. \A p : Aligned(p) => InStep(p, Head(sendQueue'))
  BY <1>4, <1>5 DEF Aligned, Between, InStep
<1>8. sockFd' \in Fds => Aligned(conn[sockFd].pos)'
  BY <1>4, <1>5, <1>6, <1>7 DEF Aligned, StreamInv
<1> QED
  BY <1>3, <1>6, <1>8 DEF StreamInv, FreshStart, FramesContiguous

(* One ::send of the head, whole or in part, to the connection in use.     *)
LEMMA StreamWrite ==
  ASSUME StreamInv, TypeOK, ControlInv, NEW t \in Threads, SendAll(t) \/ SendPartial(t)
  PROVE  StreamInv'
<1> DEFINE p == conn[sockFd].pos
           c == Head(sendQueue)
           all == pc'[t] = "pop"
<1>1. /\ sockFd \in Fds /\ conn[sockFd].peer \in {"up", "fin"} /\ sendQueue # <<>>
      /\ UNCHANGED <<sendQueue, sockFd>>
  BY DEF SendAll, SendPartial, PeerOf, clientVars
<1>2. /\ c \in Chunks /\ conn[sockFd] \in Conns
      /\ conn' = [conn EXCEPT ![sockFd] = Written(conn[sockFd], c, all)]
  <2>1. pc \in [Threads -> Labels]
    BY DEF ControlInv, ControlTypeOK
  <2>2. c \in Chunks /\ conn[sockFd] \in Conns
    BY <1>1, HeadTailProperties DEF TypeOK, ClientTypeOK, ConnTypeOK
  <2>3. CASE SendAll(t)
    BY <2>1, <2>2, <2>3 DEF SendAll, Goto
  <2>4. CASE SendPartial(t)
    <3>1. all = FALSE
      BY <2>1, <2>4 DEF SendPartial, Goto
    <3> QED
      BY <2>2, <2>4, <3>1 DEF SendPartial
  <2> QED
    BY <2>3, <2>4
<1>3. /\ \A u \in Threads : Quiet(pc[u])
      /\ \A u \in Threads \ {t} : pc'[u] = pc[u]
      /\ pc'[t] \in {"pop", "trim"}
  <2>1. InCritical(t) /\ Quiet(pc[t])
    BY DEF SendAll, SendPartial, InCritical, Quiet
  <2> QED
    BY <2>1, Alone DEF SendAll, SendPartial, Goto, ControlInv, ControlTypeOK
<1>4. ~AtPop /\ ~AtTrim /\ (AtPop' <=> all) /\ (AtTrim' <=> ~all)
  BY <1>3 DEF AtPop, AtTrim, Quiet
<1>5. InStep(p, c)
  BY <1>1, <1>4 DEF StreamInv, Aligned
<1>6. PosAfter(p, c, all) = IF all THEN "boundary"
                            ELSE IF c.part = "whole" \/ p = c.kind THEN c.kind ELSE "stale"
  BY <1>5 DEF PosAfter
<1>7. conn'[sockFd].pos = PosAfter(p, c, all) /\ conn'[sockFd].peer = conn[sockFd].peer
  BY <1>1, <1>2 DEF Written, Conns, TypeOK, ConnTypeOK
<1>8. \A f \in Fds \ {sockFd} : conn'[f] = conn[f]
  BY <1>1, <1>2 DEF TypeOK, ConnTypeOK
<1>9. PosAfter(p, c, all) # "torn"
  BY <1>2, <1>6 DEF Chunks, OutKinds
<1>10. FreshStart' /\ FramesContiguous'
  BY <1>1, <1>7, <1>8, <1>9 DEF StreamInv, FreshStart, FramesContiguous
<1>11. Aligned(conn[sockFd].pos)'
  BY <1>1, <1>4, <1>6, <1>7 DEF Aligned, Between
<1> QED
  BY <1>1, <1>10, <1>11 DEF StreamInv, RestIsFirst

LEMMA StreamPop ==
  ASSUME StreamInv, TypeOK, ControlInv, NEW t \in Threads, SendPop(t)
  PROVE  StreamInv'
<1>1. sendQueue \in Seq(Chunks) /\ sendQueue # <<>> /\ sendQueue' = Tail(sendQueue)
  BY DEF SendPop, ControlInv, QueueHeld, TypeOK, ClientTypeOK
<1>2. /\ Len(sendQueue) \in Nat /\ Len(sendQueue') = Len(sendQueue) - 1
      /\ \A i \in 1..Len(sendQueue') : sendQueue'[i] = sendQueue[i + 1]
  BY <1>1, HeadTailProperties, LenProperties
<1>3. \A i \in 1..Len(sendQueue') : sendQueue'[i].part = "whole"
  BY <1>2, SMT DEF StreamInv, RestIsFirst
<1>4. RestIsFirst'
  BY <1>2, <1>3, SMT DEF RestIsFirst
<1>5. sendQueue' # <<>> => Head(sendQueue').part = "whole"
  BY <1>1, <1>2, <1>3, HeadTailProperties, EmptySeq, SMT
<1>6. AtPop /\ ~AtPop' /\ ~AtTrim'
  <2>1. \A u \in Threads : Quiet(pc'[u])
    BY Alone DEF SendPop, Goto, ControlInv, ControlTypeOK, InCritical, Quiet
  <2> QED
    BY <2>1 DEF SendPop, AtPop, AtTrim, Quiet
<1>7. sockFd' = sockFd /\ conn' = conn
  BY DEF SendPop
<1>8. sockFd' \in Fds => Aligned(conn[sockFd].pos)'
  BY <1>5, <1>6, <1>7 DEF StreamInv, Aligned, Between, InStep
<1> QED
  BY <1>4, <1>7, <1>8 DEF StreamInv, FreshStart, FramesContiguous

LEMMA StreamTrim ==
  ASSUME StreamInv, TypeOK, ControlInv, NEW t \in Threads, SendTrim(t)
  PROVE  StreamInv'
<1> DEFINE c == [sendQueue[1] EXCEPT !.part = "rest"]
<1>1. sendQueue \in Seq(Chunks) /\ sendQueue # <<>> /\ sendQueue' = [sendQueue EXCEPT ![1] = c]
  BY DEF SendTrim, ControlInv, QueueHeld, TypeOK, ClientTypeOK
<1>2. 1 \in 1..Len(sendQueue) /\ sendQueue[1] \in Chunks
  BY <1>1, EmptySeq, ElementOfSeq
<1>3. c \in Chunks /\ c.part = "rest" /\ c.kind = sendQueue[1].kind
  BY <1>2 DEF Chunks
<1>4. /\ sendQueue' \in Seq(Chunks) /\ Len(sendQueue') = Len(sendQueue)
      /\ \A i \in 1..Len(sendQueue) : sendQueue'[i] = IF i = 1 THEN c ELSE sendQueue[i]
  BY <1>1, <1>2, <1>3, ExceptSeq
<1>5. RestIsFirst'
  BY <1>4, SMT DEF StreamInv, RestIsFirst
<1>6. Head(sendQueue') = c /\ Head(sendQueue) = sendQueue[1] /\ sendQueue' # <<>>
  BY <1>1, <1>2, <1>4, HeadTailProperties, EmptySeq, SMT
<1>7. AtTrim /\ ~AtPop' /\ ~AtTrim'
  <2>1. \A u \in Threads : Quiet(pc'[u])
    BY Alone, QuietReturns
    DEF SendTrim, ReturnSend, Goto, ControlInv, ControlTypeOK, InCritical, Quiet, SendLabels
  <2> QED
    BY <2>1 DEF SendTrim, AtPop, AtTrim, Quiet
<1>8. sockFd' = sockFd /\ conn' = conn
  BY DEF SendTrim
<1>9. sockFd' \in Fds => Aligned(conn[sockFd].pos)'
  BY <1>3, <1>6, <1>7, <1>8 DEF StreamInv, Aligned, InStep
<1> QED
  BY <1>5, <1>8, <1>9 DEF StreamInv, FreshStart, FramesContiguous
-----------------------------------------------------------------------------
(* The other steps.                                                        *)

LEMMA StreamNotify ==
  ASSUME StreamInv, TypeOK, ControlInv, NEW t \in Threads, NotifyState(t) \/ CallbackStep(t)
  PROVE  StreamInv'
<1>1. \A u \in Threads : pc'[u] = pc[u] \/ (Quiet(pc[u]) /\ Quiet(pc'[u]))
  BY QuietReturns
  DEF NotifyState, CallbackStep, OnConnected, OnDisconnected, OnConnecting, ReturnNotify, Goto,
      Quiet, NotifyLabels, ControlInv, ControlTypeOK
<1>2. UNCHANGED <<sendQueue, sockFd, conn>>
  BY DEF NotifyState, CallbackStep, OnConnected, OnDisconnected, OnConnecting, clientVars
<1> QED
  BY <1>1, <1>2, StreamFrame DEF TypeOK, ClientTypeOK

(* The io thread outside of calls moves between its own labels and calls.  *)
LEMMA IoQuiet ==
  ASSUME ControlInv, IoClientStep \/ IoNodeStep
  PROVE  \A u \in Threads : pc'[u] = pc[u] \/ (Quiet(pc[u]) /\ Quiet(pc'[u]))
<1> USE DEF ControlInv, ControlTypeOK, Quiet, Goto, CallSend, CallNotify
<1>1. CASE IoClientStep
  BY <1>1 DEF IoClientStep, IoLoop, Socket, ConnectOk, ConnectLateError, ConnectReturns,
              ConnectFails, IoClose, IoUnset, ReconnectSleep, ClearRecvBuf, Receive,
              ReceiveNothing, ReceiveEnds, ParseStops, AfterReceive
<1>2. CASE IoNodeStep
  BY <1>2 DEF IoNodeStep, LoginSent, HandleLoginOk, LoginTimes, HandleIgnored, HandleHeartbeat,
              HbAnswered, HandleHeartbeatResponse, HandleJsonBusiness, TakeFrame
<1> QED
  BY <1>1, <1>2

LEMMA StreamIo ==
  ASSUME StreamInv, TypeOK, ControlInv, IoClientStep \/ IoNodeStep
  PROVE  StreamInv'
<1> USE DEF TypeOK, ClientTypeOK, ConnTypeOK, clientVars
<1>1. sendQueue' = sendQueue
  BY DEF IoClientStep, IoLoop, Socket, ConnectOk, ConnectLateError, ConnectReturns,
         ConnectFails, IoClose, IoUnset, ReconnectSleep, ClearRecvBuf, Receive,
         ReceiveNothing, ReceiveEnds, ParseStops, AfterReceive,
         IoNodeStep, LoginSent, HandleLoginOk, LoginTimes, HandleIgnored, HandleHeartbeat,
         HbAnswered, HandleHeartbeatResponse, HandleJsonBusiness, TakeFrame
<1>2. CASE UNCHANGED <<sockFd, conn>>
  BY <1>1, <1>2, IoQuiet, StreamFrame
<1>3. CASE Socket
  <2>1. CASE sockFd' = NoFd /\ UNCHANGED conn
    <3>1. sockFd' \notin Fds
      BY <2>1, FdsAssumption, SMT DEF NoFd
    <3> QED
      BY <1>1, <2>1, <3>1, IoQuiet, StreamFrame
  <2>2. ASSUME NEW f \in Fds, LowestFree(f), sockFd' = f, conn' = [conn EXCEPT ![f].peer = "new"]
        PROVE  StreamInv'
    <3>1. conn[f].pos = "start"
      BY <2>2 DEF LowestFree, FreeFds, StreamInv, FreshStart
    <3>2. conn'[f].pos = "start" /\ \A g \in Fds \ {f} : conn'[g] = conn[g]
      BY <2>2, <3>1 DEF Conns
    <3> QED
      BY <1>1, <2>2, <3>2, IoQuiet, StreamFrame
  <2> QED
    BY <1>3, <2>1, <2>2 DEF Socket
<1>4. ASSUME NEW peer, peer \in {"up", "reset"}, ConnectReturns(peer) PROVE StreamInv'
  <2>1. sockFd \in Fds /\ sockFd' = sockFd /\ conn' = [conn EXCEPT ![sockFd].peer = peer]
    BY <1>4 DEF ConnectReturns, PeerOf
  <2>2. /\ conn'[sockFd].pos = conn[sockFd].pos /\ conn'[sockFd].peer \notin {"closed", "new"}
        /\ \A g \in Fds \ {sockFd} : conn'[g] = conn[g]
    BY <1>4, <2>1 DEF Conns
  <2> QED
    BY <1>1, <2>1, <2>2, IoQuiet, StreamFrame
<1>5. CASE IoClose
  <2>1. sockFd' = sockFd /\ \A f \in Fds : conn'[f].pos = "start" \/ conn'[f] = conn[f]
    BY <1>5, CloseIsFresh DEF IoClose
  <2> QED
    BY <1>1, <2>1, IoQuiet, StreamFrame
<1>6. CASE IoUnset
  <2>1. sockFd' \notin Fds /\ conn' = conn
    BY <1>6, FdsAssumption, SMT DEF IoUnset, NoFd
  <2> QED
    BY <1>1, <2>1, IoQuiet, StreamFrame
<1>7. CASE Receive
  <2>1. sockFd \in Fds /\ sockFd' = sockFd /\ conn' = [conn EXCEPT ![sockFd].rx = <<>>]
        /\ conn[sockFd].peer \in {"up", "fin"}
    BY <1>7 DEF Receive, PeerOf
  <2>2. /\ conn'[sockFd].pos = conn[sockFd].pos /\ conn'[sockFd].peer \notin {"closed", "new"}
        /\ \A g \in Fds \ {sockFd} : conn'[g] = conn[g]
    BY <2>1 DEF Conns
  <2> QED
    BY <1>1, <2>1, <2>2, IoQuiet, StreamFrame
<1>8. CASE IoNodeStep
  BY <1>2, <1>8
  DEF IoNodeStep, LoginSent, HandleLoginOk, LoginTimes, HandleIgnored, HandleHeartbeat,
      HbAnswered, HandleHeartbeatResponse, HandleJsonBusiness, TakeFrame
<1>9. CASE IoLoop \/ ConnectFails \/ ReconnectSleep \/ ClearRecvBuf \/ ReceiveNothing
           \/ ReceiveEnds \/ ParseStops \/ AfterReceive
  BY <1>2, <1>9 DEF IoLoop, ConnectFails, ReconnectSleep, ClearRecvBuf, ReceiveNothing,
                    ReceiveEnds, ParseStops, AfterReceive
<1> QED
  BY <1>3, <1>4, <1>5, <1>6, <1>7, <1>8, <1>9 DEF IoClientStep, ConnectOk, ConnectLateError

LEMMA StreamMain ==
  ASSUME StreamInv, TypeOK, ControlInv, StopInv, MainClientStep \/ MainNodeStep \/ Shutdown
  PROVE  StreamInv'
<1> USE DEF TypeOK, ClientTypeOK, clientVars
<1>1. sendQueue' = sendQueue
  BY DEF MainClientStep, StopRunning, JoinIo, StopClose, Start, MainNodeStep, Shutdown, OnUplink,
         SpinOnceReturns, TickState, TickLogin, TickSend, TickRecv
<1>2. \A u \in Threads : pc'[u] = pc[u] \/ (Quiet(pc[u]) /\ Quiet(pc'[u]))
  <2> USE DEF ControlInv, ControlTypeOK, Quiet, Goto, CallSend, CallNotify
  <2>1. CASE Start
    BY <2>1 DEF Start, StopInv, Threads
  <2>2. CASE StopRunning \/ JoinIo \/ StopClose(AfterStop)
    BY <2>2 DEF StopRunning, JoinIo, StopClose
  <2>3. CASE MainNodeStep \/ Shutdown
    BY <2>3 DEF MainNodeStep, Shutdown, OnUplink, SpinOnceReturns, TickState, TickLogin, TickSend,
                TickRecv
  <2> QED
    BY <2>1, <2>2, <2>3 DEF MainClientStep
<1>3. CASE StopClose(AfterStop)
  <2>1. /\ sockFd' \notin Fds
        /\ \A f \in Fds : conn'[f].pos = "start" \/ conn'[f] = conn[f]
    BY <1>3, CloseIsFresh, FdsAssumption, SMT DEF StopClose, NoFd
  <2> QED
    BY <1>1, <1>2, <2>1, StreamFrame
<1>4. CASE UNCHANGED <<sockFd, conn>>
  BY <1>1, <1>2, <1>4, StreamFrame
<1> QED
  BY <1>3, <1>4
  DEF MainClientStep, StopRunning, JoinIo, Start, MainNodeStep, Shutdown, OnUplink,
      SpinOnceReturns, TickState, TickLogin, TickSend, TickRecv

LEMMA StreamOther ==
  ASSUME StreamInv, TypeOK, Environment \/ TimeElapses \/ Terminated \/ UNCHANGED vars
  PROVE  StreamInv'
<1>1. UNCHANGED <<pc, sendQueue, sockFd>>
  BY OtherSteps DEF clientVars
<1>2. ASSUME NEW f \in Fds,
             \/ PeerFin(f) \/ PeerReset(f) \/ LineNoise(f)
             \/ ServerAcceptsLogin(f) \/ ServerRefusesLogin(f) \/ ServerSends(f)
      PROVE  StreamInv'
  <2>1. conn \in [Fds -> Conns]
    BY DEF TypeOK, ConnTypeOK
  <2>2. /\ conn'[f].pos = conn[f].pos /\ conn'[f].peer \notin {"closed", "new"}
        /\ \A g \in Fds \ {f} : conn'[g] = conn[g]
    <3>1. CASE PeerFin(f) \/ PeerReset(f)
      BY <2>1, <3>1 DEF PeerFin, PeerReset, Conns
    <3>2. ASSUME NEW fr, NEW srv, Deliver(f, fr, srv)
          PROVE  /\ conn'[f].pos = conn[f].pos /\ conn'[f].peer \notin {"closed", "new"}
                 /\ \A g \in Fds \ {f} : conn'[g] = conn[g]
      BY <2>1, <3>2 DEF Deliver, Conns
    <3> QED
      BY <1>2, <3>1, <3>2 DEF LineNoise, ServerAcceptsLogin, ServerRefusesLogin, ServerSends
  <2> QED
    BY <1>1, <2>2, StreamFrame DEF TypeOK, ClientTypeOK
<1>3. CASE UNCHANGED conn
  BY <1>1, <1>3, StreamFrame DEF TypeOK, ClientTypeOK
<1> QED
  BY <1>2, <1>3 DEF Environment, TimeElapses, LoginTimeElapses, HbTimeoutElapses, Terminated, vars,
                    tcpVars
-----------------------------------------------------------------------------
LEMMA StreamInit == Init => StreamInv
<1> SUFFICES ASSUME Init PROVE StreamInv
  OBVIOUS
<1>1. sendQueue = <<>> /\ sockFd \notin Fds /\ \A f \in Fds : conn[f].pos = "start"
  BY FdsAssumption, SMT DEF Init, TcpInit, ClosedConn, NoFd
<1>2. RestIsFirst
  BY <1>1, EmptySeq, SMT DEF RestIsFirst
<1> QED
  BY <1>1, <1>2 DEF StreamInv, FreshStart, FramesContiguous

LEMMA StreamNext ==
  ASSUME StreamInv, IInv, [Next]_vars
  PROVE  StreamInv'
<1> USE DEF IInv
<1>1. ASSUME NEW t \in Threads, SendStep(t) PROVE StreamInv'
  BY <1>1, StreamQuietSend, StreamLock, StreamWrite, StreamPop, StreamTrim DEF SendStep
<1>2. ASSUME NEW t \in Threads, ThreadStep(t) PROVE StreamInv'
  BY <1>1, <1>2, StreamNotify DEF ThreadStep
<1> QED
  BY <1>2, StreamIo, StreamMain, StreamOther DEF Next, IoStep, MainStep, Threads

(* Whatever both threads send, and however ::send splits it over failures  *)
(* and reconnections, no byte comes between the parts of a frame on any    *)
(* connection.                                                             *)
THEOREM NothingInBetween == Spec => []FramesContiguous
<1>1. StreamInv => FramesContiguous
  BY DEF StreamInv
<1>2. StreamInv /\ IInv /\ [Next]_vars => StreamInv'
  BY StreamNext
<1> QED
  BY <1>1, <1>2, StreamInit, Invariance, PTL DEF Spec
-----------------------------------------------------------------------------
(* The login request of a new connection.                                  *)

(* The io thread calls the state callback for a new connection, and its    *)
(* login is not in sendQueue_ yet.                                         *)
BeforeLogin ==
    \/ pc["io"] \in NotifyLabels /\ local["io"].notifyRet = "clear"
    \/ pc["io"] \in {"send", "lock"} /\ local["io"].sendRet = "loginSent"

(* CONNECTED is always a change of state_, so that the callback is called; *)
(* what it sends is a login.                                               *)
CallbackInv ==
    /\ pc["io"] \in {"socket", "connect"} => state # "CONNECTED"
    /\ pc["io"] = "cb" /\ local["io"].newState = "CONNECTING" => state # "CONNECTED"
    /\ pc["io"] = "notify" /\ local["io"].newState = "CONNECTED" => state # "CONNECTED"
    /\ pc["io"] \in NotifyLabels /\ local["io"].notifyRet = "socket" =>
          local["io"].newState = "CONNECTING"
    /\ pc["io"] \in NotifyLabels /\ local["io"].notifyRet = "clear" =>
          local["io"].newState = "CONNECTED"
    /\ pc["io"] \in {"send", "lock"} /\ local["io"].sendRet = "loginSent" =>
          local["io"].data = "login"

(* Chunk i of the queue will complete a login request on a connection      *)
(* whose stream stops at p, and it has not been written there already.     *)
Completes(i, p) ==
    /\ sendQueue[i].kind = "login"
    /\ sendQueue[i].part = "whole" \/ p = "login"
    /\ i = 1 => ~AtPop /\ (AtTrim => p = "login")
Pending(p) == \E i \in 1..Len(sendQueue) : Completes(i, p)

LoginInv ==
    ~BeforeLogin /\ PeerOf(sockFd) = "up" /\ conn[sockFd].srv = "new" => Pending(conn[sockFd].pos)
-----------------------------------------------------------------------------
LEMMA CallbackThread ==
  ASSUME CallbackInv, ControlInv, NEW t \in Threads, ThreadStep(t)
  PROVE  CallbackInv'
<1> USE DEF CallbackInv, ControlInv, ControlTypeOK, SendLabels, NotifyLabels, Threads, clientVars
<1>1. CASE t = "main"
  <2>1. pc'["io"] = pc["io"] /\ local'["io"] = local["io"]
    BY <1>1, OtherThread DEF ThreadStep
  <2>2. state' = state \/ state' # "CONNECTED"
    <3>1. CASE NotifyState("main")
      BY <3>1 DEF NotifyState, CallOK, NotifyReturns
    <3>2. CASE SendStep("main")
      BY <3>2 DEF SendStep, SendCheck, SendLock, SendAll, SendPartial, SendWouldBlock,
                  SendError, SendDone, SendPop, SendTrim, SendClose, SendUnset, SendUnlock
    <3>3. CASE CallbackStep("main")
      BY <3>3 DEF CallbackStep, OnConnected, OnDisconnected, OnConnecting
    <3> QED
      BY <1>1, <3>1, <3>2, <3>3 DEF ThreadStep
  <2> QED
    BY <2>1, <2>2
<1>2. CASE t = "io" /\ SendStep(t)
  <2>1. CASE SendCheck(t)
    BY <1>2, <2>1 DEF SendCheck, ReturnSend, Goto, CallOK, InSend, SendReturns
  <2>2. CASE SendWouldBlock(t) \/ SendDone(t) \/ SendTrim(t) \/ SendUnlock(t)
    <3>1. ReturnSend("io") /\ pc["io"] \in SendLabels
      BY <1>2, <2>2 DEF SendWouldBlock, SendDone, SendTrim, SendUnlock
    <3> QED
      BY <3>1 DEF ReturnSend, Goto, CallOK, InSend, SendReturns
  <2>3. CASE SendLock(t) \/ SendAll(t) \/ SendPartial(t) \/ SendError(t) \/ SendPop(t)
             \/ SendClose(t)
    BY <1>2, <2>3 DEF SendLock, SendAll, SendPartial, SendError, SendPop, SendClose, Goto
  <2>4. CASE SendUnset(t)
    BY <1>2, <2>4 DEF SendUnset, CallNotify, Goto
  <2> QED
    BY <1>2, <2>1, <2>2, <2>3, <2>4 DEF SendStep
<1>3. CASE t = "io" /\ NotifyState(t)
  BY <1>3 DEF NotifyState, Goto, ReturnNotify, CallOK, InSend, NotifyReturns
<1>4. CASE t = "io" /\ OnConnected(t)
  <2>1. pc' = [pc EXCEPT !["io"] = "send"]
    BY <1>4 DEF OnConnected, Goto
  <2>2. local' = [local EXCEPT !["io"] = [NoCall EXCEPT !.data = "login", !.sendRet = "loginSent"]]
    BY <1>4 DEF OnConnected
  <2> QED
    BY <2>1, <2>2 DEF NoCall
<1>5. CASE t = "io" /\ (OnDisconnected(t) \/ OnConnecting(t))
  BY <1>5 DEF OnDisconnected, OnConnecting, Goto, ReturnNotify, CallOK, InSend, NotifyReturns
<1> QED
  BY <1>1, <1>2, <1>3, <1>4, <1>5 DEF ThreadStep, CallbackStep

LEMMA CallbackNext ==
  ASSUME CallbackInv, IInv, [Next]_vars
  PROVE  CallbackInv'
<1> USE DEF IInv, CallbackInv, ControlInv, ControlTypeOK, SendLabels, NotifyLabels, Threads, Goto,
            CallSend, CallNotify, clientVars
<1>1. ASSUME NEW t \in Threads, ThreadStep(t) PROVE CallbackInv'
  BY <1>1, CallbackThread
<1>2. CASE IoClientStep
  BY <1>2 DEF IoClientStep, IoLoop, Socket, ConnectOk, ConnectLateError, ConnectReturns,
              ConnectFails, IoClose, IoUnset, ReconnectSleep, ClearRecvBuf, Receive,
              ReceiveNothing, ReceiveEnds, ParseStops, AfterReceive
<1>3. CASE IoNodeStep
  BY <1>3 DEF IoNodeStep, LoginSent, HandleLoginOk, LoginTimes, HandleIgnored, HandleHeartbeat,
              HbAnswered, HandleHeartbeatResponse, HandleJsonBusiness, TakeFrame
<1>4. CASE MainClientStep
  BY <1>4 DEF MainClientStep, StopRunning, JoinIo, StopClose, Start, StopInv
<1>5. CASE MainNodeStep \/ Shutdown
  BY <1>5 DEF MainNodeStep, Shutdown, OnUplink, SpinOnceReturns, TickState, TickLogin, TickSend,
              TickRecv
<1>6. CASE Environment \/ TimeElapses \/ Terminated \/ UNCHANGED vars
  BY <1>6, OtherSteps
<1> QED
  BY <1>1, <1>2, <1>3, <1>4, <1>5, <1>6 DEF Next, IoStep, MainStep
-----------------------------------------------------------------------------
(* What a step that leaves the queue alone may do to a connection.         *)
KeepsLogin(cn, next) ==
    next.peer = "up" => /\ cn.peer = "up" /\ next.pos = cn.pos
                        /\ next.srv = "new" => cn.srv = "new"

LEMMA LoginFrame ==
  ASSUME LoginInv, UNCHANGED sendQueue, BeforeLogin => BeforeLogin' \/ sockFd' \notin Fds,
         sockFd' \in Fds => sockFd' = sockFd \/ conn'[sockFd'].peer # "up",
         \A t \in Threads : pc'[t] = pc[t] \/ (Quiet(pc[t]) /\ Quiet(pc'[t])),
         \A f \in Fds : conn'[f] = conn[f] \/ KeepsLogin(conn[f], conn'[f])
  PROVE  LoginInv'
<1>1. (AtPop' <=> AtPop) /\ (AtTrim' <=> AtTrim)
  BY DEF AtPop, AtTrim, Quiet
<1>2. SUFFICES ASSUME ~BeforeLogin', PeerOf(sockFd)' = "up", conn'[sockFd'].srv = "new"
               PROVE  Pending(conn[sockFd].pos)'
  BY DEF LoginInv
<1>3. sockFd' \in Fds /\ conn'[sockFd'].peer = "up"
  BY <1>2 DEF PeerOf
<1>4. /\ sockFd' = sockFd /\ ~BeforeLogin /\ conn[sockFd].peer = "up" /\ conn[sockFd].srv = "new"
      /\ conn'[sockFd].pos = conn[sockFd].pos
  BY <1>2, <1>3 DEF KeepsLogin
<1>5. Pending(conn[sockFd].pos)
  BY <1>3, <1>4 DEF LoginInv, PeerOf
<1> QED
  BY <1>1, <1>4, <1>5 DEF Pending, Completes

LEMMA CloseKeepsLogin ==
  ASSUME ConnTypeOK, NEW g, CloseFd(g)
  PROVE  \A f \in Fds : conn'[f] = conn[f] \/ KeepsLogin(conn[f], conn'[f])
  BY DEF CloseFd, ConnTypeOK, ClosedConn, KeepsLogin

LEMMA LoginQuietSend ==
  ASSUME LoginInv, TypeOK, ControlInv, NEW t \in Threads,
         \/ SendCheck(t) \/ SendWouldBlock(t) \/ SendError(t) \/ SendDone(t)
         \/ SendClose(t) \/ SendUnset(t) \/ SendUnlock(t)
  PROVE  LoginInv'
<1> USE DEF TypeOK, ClientTypeOK, clientVars
<1>1. pc \in [Threads -> Labels] /\ ControlTypeOK
  BY DEF ControlTypeOK, ControlInv
<1>2. NoFd \notin Fds
  BY FdsAssumption, SMT DEF NoFd
<1>3. \A u \in Threads : pc'[u] = pc[u] \/ (Quiet(pc[u]) /\ Quiet(pc'[u]))
  BY <1>1, QuietReturns
  DEF SendCheck, SendWouldBlock, SendError, SendDone, SendClose, SendUnset, SendUnlock,
      ReturnSend, CallNotify, Goto, Quiet, SendLabels
<1>4. \A f \in Fds : conn'[f] = conn[f] \/ KeepsLogin(conn[f], conn'[f])
  BY CloseKeepsLogin
  DEF SendCheck, SendWouldBlock, SendError, SendDone, SendClose, SendUnset, SendUnlock
<1>5. UNCHANGED sendQueue /\ sockFd' \in {sockFd, NoFd}
  BY DEF SendCheck, SendWouldBlock, SendError, SendDone, SendClose, SendUnset, SendUnlock
<1>6. BeforeLogin => BeforeLogin' \/ sockFd' \notin Fds
  <2>1. CASE t = "main"
    BY <1>1, <2>1, OtherThread DEF BeforeLogin, Threads, SendStep
  <2>2. CASE t = "io" /\ SendCheck(t)
    BY <1>1, <1>2, <2>2 DEF SendCheck, BeforeLogin, Goto, NotifyLabels, Threads
  <2>3. CASE t = "io" /\ ~SendCheck(t)
    BY <2>3 DEF BeforeLogin, NotifyLabels, SendWouldBlock, SendError, SendDone, SendClose,
                SendUnset, SendUnlock
  <2> QED
    BY <2>1, <2>2, <2>3 DEF Threads
<1> QED
  BY <1>2, <1>3, <1>4, <1>5, <1>6, LoginFrame

LEMMA LoginLock ==
  ASSUME LoginInv, CallbackInv, TypeOK, ControlInv, NEW t \in Threads, SendLock(t)
  PROVE  LoginInv'
<1> DEFINE c == [kind |-> local[t].data, part |-> "whole"]
<1>1. sendQueue \in Seq(Chunks) /\ c \in Chunks /\ sendQueue' = Append(sendQueue, c)
  BY DEF SendLock, ControlInv, CallOK, InSend, SendLabels, Chunks, TypeOK, ClientTypeOK
<1>2. /\ Len(sendQueue') = Len(sendQueue) + 1 /\ Len(sendQueue) \in Nat
      /\ \A i \in 1..Len(sendQueue) : sendQueue'[i] = sendQueue[i]
      /\ sendQueue'[Len(sendQueue) + 1] = c
  BY <1>1, AppendProperties, LenProperties
<1>3. ~AtPop' /\ ~AtTrim'
  <2>1. \A u \in Threads : Quiet(pc[u])
    BY DEF SendLock, ControlInv, MutexSafe, Holder, InCritical, Quiet, NoThread, Threads
  <2>2. \A u \in Threads : Quiet(pc'[u])
    BY <2>1 DEF SendLock, Goto, ControlInv, ControlTypeOK, Quiet
  <2> QED
    BY <2>2 DEF AtPop, AtTrim, Quiet
<1>4. sockFd' = sockFd /\ conn' = conn
  BY DEF SendLock
<1>5. ASSUME NEW p, Pending(p) PROVE Pending(p)'
  <2>1. PICK i \in 1..Len(sendQueue) : Completes(i, p)
    BY <1>5 DEF Pending
  <2>2. i \in 1..Len(sendQueue')
    BY <1>2, SMT
  <2>3. sendQueue'[i] = sendQueue[i]
    BY <1>2
  <2>4. Completes(i, p)'
    BY <1>3, <2>1, <2>3 DEF Completes
  <2> QED
    BY <2>2, <2>4 DEF Pending
<1>6. CASE t = "io" /\ BeforeLogin
  <2>1. c.kind = "login"
    BY <1>6 DEF SendLock, BeforeLogin, CallbackInv, NotifyLabels
  <2>2. PICK n \in 1..Len(sendQueue') : sendQueue'[n] = c
    BY <1>2, SMT
  <2>3. ASSUME NEW p PROVE Completes(n, p)'
    BY <1>3, <2>1, <2>2 DEF Completes
  <2>4. Pending(conn[sockFd].pos)'
    BY <2>2, <2>3 DEF Pending
  <2> QED
    BY <2>4 DEF LoginInv
<1>7. CASE t = "main" \/ ~BeforeLogin
  <2>1. BeforeLogin => BeforeLogin'
    <3>1. t = "main" => pc'["io"] = pc["io"] /\ local' = local
      BY DEF SendLock, Goto, ControlInv, ControlTypeOK, Threads
    <3> QED
      BY <1>7, <3>1 DEF BeforeLogin
  <2> QED
    BY <1>4, <1>5, <2>1 DEF LoginInv, PeerOf
<1> QED
  BY <1>6, <1>7 DEF Threads

(* A thread that is inside the locked part is not about to send the login. *)
LEMMA InsideKeepsBefore ==
  ASSUME ControlInv, NEW t \in Threads, SendStep(t),
         pc[t] \in {"write", "pop", "trim"}
  PROVE  BeforeLogin => BeforeLogin'
<1>1. CASE t = "main"
  <2>1. pc'["io"] = pc["io"] /\ local'["io"] = local["io"]
    BY <1>1, OtherThread DEF ControlInv, Threads
  <2> QED
    BY <2>1 DEF BeforeLogin
<1>2. CASE t = "io"
  BY <1>2 DEF BeforeLogin, NotifyLabels
<1> QED
  BY <1>1, <1>2 DEF Threads

LEMMA LoginWrite ==
  ASSUME LoginInv, StreamInv, TypeOK, ControlInv, NEW t \in Threads, SendAll(t) \/ SendPartial(t)
  PROVE  LoginInv'
<1> DEFINE p == conn[sockFd].pos
           c == Head(sendQueue)
           all == pc'[t] = "pop"
<1>1. /\ sockFd \in Fds /\ conn[sockFd].peer \in {"up", "fin"} /\ sendQueue # <<>>
      /\ UNCHANGED <<sendQueue, sockFd>>
  BY DEF SendAll, SendPartial, PeerOf, clientVars
<1>2. /\ c \in Chunks /\ c = sendQueue[1] /\ conn[sockFd] \in Conns
      /\ conn' = [conn EXCEPT ![sockFd] = Written(conn[sockFd], c, all)]
  <2>1. pc \in [Threads -> Labels]
    BY DEF ControlInv, ControlTypeOK
  <2>2. c \in Chunks /\ c = sendQueue[1] /\ conn[sockFd] \in Conns
    BY <1>1, HeadTailProperties DEF TypeOK, ClientTypeOK, ConnTypeOK
  <2>3. CASE SendAll(t)
    BY <2>1, <2>2, <2>3 DEF SendAll, Goto
  <2>4. CASE SendPartial(t)
    <3>1. all = FALSE
      BY <2>1, <2>4 DEF SendPartial, Goto
    <3> QED
      BY <2>2, <2>4, <3>1 DEF SendPartial
  <2> QED
    BY <2>3, <2>4
<1>3. /\ \A u \in Threads : Quiet(pc[u])
      /\ \A u \in Threads \ {t} : pc'[u] = pc[u]
      /\ pc'[t] \in {"pop", "trim"}
  <2>1. InCritical(t) /\ Quiet(pc[t])
    BY DEF SendAll, SendPartial, InCritical, Quiet
  <2> QED
    BY <2>1, Alone DEF SendAll, SendPartial, Goto, ControlInv, ControlTypeOK
<1>4. ~AtPop /\ ~AtTrim /\ (AtPop' <=> all) /\ (AtTrim' <=> ~all)
  BY <1>3 DEF AtPop, AtTrim, Quiet
<1>5. InStep(p, c)
  BY <1>1, <1>4 DEF StreamInv, Aligned
<1>6. PosAfter(p, c, all) = IF all THEN "boundary"
                            ELSE IF c.part = "whole" \/ p = c.kind THEN c.kind ELSE "stale"
  BY <1>5 DEF PosAfter
<1>7. /\ conn'[sockFd].pos = PosAfter(p, c, all) /\ conn'[sockFd].peer = conn[sockFd].peer
      /\ conn'[sockFd].srv = IF all /\ conn[sockFd].srv = "new" /\ CompletesLogin(p, c)
                               THEN "asked" ELSE conn[sockFd].srv
  BY <1>1, <1>2 DEF Written, Conns, TypeOK, ConnTypeOK
<1>8. BeforeLogin => BeforeLogin'
  BY InsideKeepsBefore DEF SendStep, SendAll, SendPartial
<1>9. SUFFICES ASSUME ~BeforeLogin', PeerOf(sockFd)' = "up", conn'[sockFd].srv = "new"
               PROVE  Pending(conn[sockFd].pos)'
  BY <1>1 DEF LoginInv
<1>10. conn[sockFd].srv = "new" /\ conn[sockFd].peer = "up" /\ ~(all /\ CompletesLogin(p, c))
  BY <1>1, <1>7, <1>8, <1>9 DEF PeerOf
<1>11. PICK i \in 1..Len(sendQueue) : Completes(i, p)
  BY <1>1, <1>8, <1>9, <1>10 DEF LoginInv, Pending, PeerOf
<1>12. CASE i = 1
  <2>1. c.kind = "login" /\ (c.part = "whole" \/ p = "login")
    BY <1>2, <1>11, <1>12 DEF Completes
  <2>2. CompletesLogin(p, c)
    BY <1>5, <2>1 DEF CompletesLogin, InStep
  <2>3. ~all /\ conn'[sockFd].pos = "login"
    BY <1>6, <1>7, <1>10, <2>1, <2>2
  <2>4. Completes(i, conn[sockFd].pos)'
    BY <1>1, <1>4, <1>11, <2>3 DEF Completes
  <2> QED
    BY <1>1, <2>4 DEF Pending
<1>13. CASE i # 1
  <2>1. sendQueue[i].part = "whole"
    <3>1. i \in 2..Len(sendQueue)
      BY <1>13, LenProperties, SMT DEF TypeOK, ClientTypeOK
    <3> QED
      BY <3>1 DEF StreamInv, RestIsFirst
  <2>2. Completes(i, conn[sockFd].pos)'
    BY <1>1, <1>11, <1>13, <2>1 DEF Completes
  <2> QED
    BY <1>1, <2>2 DEF Pending
<1> QED
  BY <1>12, <1>13

LEMMA LoginPop ==
  ASSUME LoginInv, TypeOK, ControlInv, NEW t \in Threads, SendPop(t)
  PROVE  LoginInv'
<1>1. sendQueue \in Seq(Chunks) /\ sendQueue # <<>> /\ sendQueue' = Tail(sendQueue)
  BY DEF SendPop, ControlInv, QueueHeld, TypeOK, ClientTypeOK
<1>2. /\ Len(sendQueue) \in Nat /\ Len(sendQueue') = Len(sendQueue) - 1
      /\ \A i \in 1..Len(sendQueue') : sendQueue'[i] = sendQueue[i + 1]
  BY <1>1, HeadTailProperties, LenProperties
<1>3. AtPop /\ ~AtPop' /\ ~AtTrim'
  <2>1. \A u \in Threads : Quiet(pc'[u])
    BY Alone DEF SendPop, Goto, ControlInv, ControlTypeOK, InCritical, Quiet
  <2> QED
    BY <2>1 DEF SendPop, AtPop, AtTrim, Quiet
<1>4. sockFd' = sockFd /\ conn' = conn /\ (BeforeLogin => BeforeLogin')
  BY InsideKeepsBefore DEF SendPop, SendStep
<1>5. ASSUME NEW p, Pending(p) PROVE Pending(p)'
  <2>1. PICK i \in 1..Len(sendQueue) : Completes(i, p)
    BY <1>5 DEF Pending
  <2>2. i # 1
    BY <1>3, <2>1 DEF Completes
  <2>3. i - 1 \in 1..Len(sendQueue') /\ (i - 1) + 1 = i
    BY <1>2, <2>2, SMT
  <2>4. sendQueue'[i - 1] = sendQueue[i]
    BY <1>2, <2>3
  <2>5. Completes(i - 1, p)'
    BY <1>3, <2>1, <2>4 DEF Completes
  <2> QED
    BY <2>3, <2>5 DEF Pending
<1> QED
  BY <1>4, <1>5 DEF LoginInv, PeerOf

LEMMA LoginTrim ==
  ASSUME LoginInv, TypeOK, ControlInv, NEW t \in Threads, SendTrim(t)
  PROVE  LoginInv'
<1> DEFINE c == [sendQueue[1] EXCEPT !.part = "rest"]
<1>1. sendQueue \in Seq(Chunks) /\ sendQueue # <<>> /\ sendQueue' = [sendQueue EXCEPT ![1] = c]
  BY DEF SendTrim, ControlInv, QueueHeld, TypeOK, ClientTypeOK
<1>2. 1 \in 1..Len(sendQueue) /\ sendQueue[1] \in Chunks
  BY <1>1, EmptySeq, ElementOfSeq
<1>3. c \in Chunks /\ c.part = "rest" /\ c.kind = sendQueue[1].kind
  BY <1>2 DEF Chunks
<1>4. /\ sendQueue' \in Seq(Chunks) /\ Len(sendQueue') = Len(sendQueue)
      /\ \A i \in 1..Len(sendQueue) : sendQueue'[i] = IF i = 1 THEN c ELSE sendQueue[i]
  BY <1>1, <1>2, <1>3, ExceptSeq
<1>5. AtTrim /\ ~AtPop' /\ ~AtTrim'
  <2>1. \A u \in Threads : Quiet(pc'[u])
    BY Alone, QuietReturns
    DEF SendTrim, ReturnSend, Goto, ControlInv, ControlTypeOK, InCritical, Quiet, SendLabels
  <2> QED
    BY <2>1 DEF SendTrim, AtPop, AtTrim, Quiet
<1>6. sockFd' = sockFd /\ conn' = conn /\ (BeforeLogin => BeforeLogin')
  BY InsideKeepsBefore DEF SendTrim, SendStep
<1>7. ASSUME NEW p, Pending(p) PROVE Pending(p)'
  <2>1. PICK i \in 1..Len(sendQueue) : Completes(i, p)
    BY <1>7 DEF Pending
  <2>2. Completes(i, p)'
    BY <1>3, <1>4, <1>5, <2>1 DEF Completes
  <2> QED
    BY <1>4, <2>2 DEF Pending
<1> QED
  BY <1>6, <1>7 DEF LoginInv, PeerOf

LEMMA LoginNotify ==
  ASSUME LoginInv, CallbackInv, TypeOK, ControlInv, NEW t \in Threads,
         NotifyState(t) \/ CallbackStep(t)
  PROVE  LoginInv'
<1> USE DEF ControlInv, ControlTypeOK
<1>1. \A u \in Threads : pc'[u] = pc[u] \/ (Quiet(pc[u]) /\ Quiet(pc'[u]))
  BY QuietReturns
  DEF NotifyState, CallbackStep, OnConnected, OnDisconnected, OnConnecting, ReturnNotify, Goto,
      Quiet, NotifyLabels
<1>2. UNCHANGED <<sendQueue, sockFd, conn>>
  BY DEF NotifyState, CallbackStep, OnConnected, OnDisconnected, OnConnecting, clientVars
<1>3. BeforeLogin => BeforeLogin'
  <2>1. CASE t = "main"
    BY <2>1, OtherThread DEF BeforeLogin, Threads
  <2>2. CASE t = "io" /\ NotifyState(t)
    BY <2>2 DEF NotifyState, Goto, BeforeLogin, CallbackInv, NotifyLabels, Threads
  <2>3. CASE t = "io" /\ OnConnected(t)
    <3>1. pc' = [pc EXCEPT !["io"] = "send"]
      BY <2>3 DEF OnConnected, Goto
    <3>2. local' = [local EXCEPT !["io"] = [NoCall EXCEPT !.data = "login", !.sendRet = "loginSent"]]
      BY <2>3 DEF OnConnected
    <3> QED
      BY <3>1, <3>2 DEF NoCall, BeforeLogin, Threads
  <2>4. CASE t = "io" /\ (OnDisconnected(t) \/ OnConnecting(t))
    BY <2>4 DEF OnDisconnected, OnConnecting, BeforeLogin, CallbackInv, NotifyLabels
  <2> QED
    BY <2>1, <2>2, <2>3, <2>4 DEF CallbackStep, Threads
<1> QED
  BY <1>1, <1>2, <1>3, LoginFrame

LEMMA LoginIo ==
  ASSUME LoginInv, TypeOK, ControlInv, IoClientStep \/ IoNodeStep
  PROVE  LoginInv'
<1> USE DEF TypeOK, ClientTypeOK, ConnTypeOK, clientVars
<1>1. UNCHANGED sendQueue /\ ~BeforeLogin
  BY DEF BeforeLogin, NotifyLabels,
         IoClientStep, IoLoop, Socket, ConnectOk, ConnectLateError, ConnectReturns,
         ConnectFails, IoClose, IoUnset, ReconnectSleep, ClearRecvBuf, Receive,
         ReceiveNothing, ReceiveEnds, ParseStops, AfterReceive,
         IoNodeStep, LoginSent, HandleLoginOk, LoginTimes, HandleIgnored, HandleHeartbeat,
         HbAnswered, HandleHeartbeatResponse, HandleJsonBusiness, TakeFrame
<1>2. CASE UNCHANGED <<sockFd, conn>>
  BY <1>1, <1>2, IoQuiet, LoginFrame
<1>3. NoFd \notin Fds
  BY FdsAssumption, SMT DEF NoFd
<1>4. CASE Socket
  <2>1. CASE sockFd' = NoFd /\ UNCHANGED conn
    BY <1>1, <1>3, <2>1, IoQuiet, LoginFrame
  <2>2. ASSUME NEW f \in Fds, sockFd' = f, conn' = [conn EXCEPT ![f].peer = "new"]
        PROVE  LoginInv'
    <3>1. conn'[f].peer = "new" /\ \A g \in Fds \ {f} : conn'[g] = conn[g]
      BY <2>2 DEF Conns
    <3> QED
      BY <1>1, <2>2, <3>1, IoQuiet, LoginFrame DEF KeepsLogin
  <2> QED
    BY <1>4, <2>1, <2>2 DEF Socket
<1>5. ASSUME NEW peer, ConnectReturns(peer) PROVE LoginInv'
  <2>1. BeforeLogin'
    BY <1>5 DEF ConnectReturns, CallNotify, Goto, BeforeLogin, NotifyLabels, Threads, ControlInv,
                ControlTypeOK
  <2> QED
    BY <2>1 DEF LoginInv
<1>6. CASE IoClose
  BY <1>1, <1>6, CloseKeepsLogin, IoQuiet, LoginFrame DEF IoClose
<1>7. CASE IoUnset
  BY <1>1, <1>3, <1>7, IoQuiet, LoginFrame DEF IoUnset
<1>8. CASE Receive
  <2>1. sockFd \in Fds /\ sockFd' = sockFd /\ conn' = [conn EXCEPT ![sockFd].rx = <<>>]
    BY <1>8 DEF Receive, PeerOf
  <2>2. \A f \in Fds : KeepsLogin(conn[f], conn'[f])
    BY <2>1 DEF Conns, KeepsLogin
  <2> QED
    BY <1>1, <2>1, <2>2, IoQuiet, LoginFrame
<1>9. CASE IoNodeStep
  BY <1>2, <1>9
  DEF IoNodeStep, LoginSent, HandleLoginOk, LoginTimes, HandleIgnored, HandleHeartbeat,
      HbAnswered, HandleHeartbeatResponse, HandleJsonBusiness, TakeFrame
<1>10. CASE IoLoop \/ ConnectFails \/ ReconnectSleep \/ ClearRecvBuf \/ ReceiveNothing
            \/ ReceiveEnds \/ ParseStops \/ AfterReceive
  BY <1>2, <1>10 DEF IoLoop, ConnectFails, ReconnectSleep, ClearRecvBuf, ReceiveNothing,
                     ReceiveEnds, ParseStops, AfterReceive
<1> QED
  BY <1>4, <1>5, <1>6, <1>7, <1>8, <1>9, <1>10 DEF IoClientStep, ConnectOk, ConnectLateError

LEMMA LoginMain ==
  ASSUME LoginInv, TypeOK, ControlInv, StopInv, MainClientStep \/ MainNodeStep \/ Shutdown
  PROVE  LoginInv'
<1> USE DEF TypeOK, ClientTypeOK, clientVars
<1>1. UNCHANGED sendQueue
  BY DEF MainClientStep, StopRunning, JoinIo, StopClose, Start, MainNodeStep, Shutdown, OnUplink,
         SpinOnceReturns, TickState, TickLogin, TickSend, TickRecv
<1>2. /\ \A u \in Threads : pc'[u] = pc[u] \/ (Quiet(pc[u]) /\ Quiet(pc'[u]))
      /\ BeforeLogin => BeforeLogin'
  <2> USE DEF ControlInv, ControlTypeOK, Quiet, Goto, CallSend, CallNotify, BeforeLogin,
              NotifyLabels, Threads
  <2>1. CASE Start
    BY <2>1 DEF Start, StopInv
  <2>2. CASE StopRunning \/ JoinIo \/ StopClose(AfterStop)
    BY <2>2 DEF StopRunning, JoinIo, StopClose
  <2>3. CASE MainNodeStep \/ Shutdown
    BY <2>3 DEF MainNodeStep, Shutdown, OnUplink, SpinOnceReturns, TickState, TickLogin, TickSend,
                TickRecv
  <2> QED
    BY <2>1, <2>2, <2>3 DEF MainClientStep
<1>3. CASE StopClose(AfterStop)
  <2>1. sockFd' \notin Fds
    BY <1>3, FdsAssumption, SMT DEF StopClose, NoFd
  <2> QED
    BY <1>1, <1>2, <1>3, <2>1, CloseKeepsLogin, LoginFrame DEF StopClose
<1>4. CASE UNCHANGED <<sockFd, conn>>
  BY <1>1, <1>2, <1>4, LoginFrame
<1> QED
  BY <1>3, <1>4
  DEF MainClientStep, StopRunning, JoinIo, Start, MainNodeStep, Shutdown, OnUplink,
      SpinOnceReturns, TickState, TickLogin, TickSend, TickRecv

LEMMA LoginOther ==
  ASSUME LoginInv, TypeOK, Environment \/ TimeElapses \/ Terminated \/ UNCHANGED vars
  PROVE  LoginInv'
<1>1. UNCHANGED <<pc, local, sendQueue, sockFd>> /\ (BeforeLogin => BeforeLogin')
  BY OtherSteps DEF clientVars, BeforeLogin
<1>2. ASSUME NEW f \in Fds,
             \/ PeerFin(f) \/ PeerReset(f) \/ LineNoise(f)
             \/ ServerAcceptsLogin(f) \/ ServerRefusesLogin(f) \/ ServerSends(f)
      PROVE  LoginInv'
  <2>1. conn \in [Fds -> Conns]
    BY DEF TypeOK, ConnTypeOK
  <2>2. KeepsLogin(conn[f], conn'[f]) /\ \A g \in Fds \ {f} : conn'[g] = conn[g]
    <3>1. CASE PeerFin(f) \/ PeerReset(f)
      BY <2>1, <3>1 DEF PeerFin, PeerReset, Conns, KeepsLogin
    <3>2. ASSUME NEW fr, NEW srv, Deliver(f, fr, srv), conn[f].srv \in {"asked", "ok"}, srv # "new"
          PROVE  KeepsLogin(conn[f], conn'[f]) /\ \A g \in Fds \ {f} : conn'[g] = conn[g]
      BY <2>1, <3>2 DEF Deliver, Conns, KeepsLogin
    <3> QED
      BY <1>2, <3>1, <3>2 DEF LineNoise, ServerAcceptsLogin, ServerRefusesLogin, ServerSends
  <2> QED
    BY <1>1, <2>2, LoginFrame
<1>3. CASE UNCHANGED conn
  BY <1>1, <1>3, LoginFrame
<1> QED
  BY <1>2, <1>3 DEF Environment, TimeElapses, LoginTimeElapses, HbTimeoutElapses, Terminated, vars,
                    tcpVars

LEMMA LoginNext ==
  ASSUME LoginInv, CallbackInv, StreamInv, IInv, [Next]_vars
  PROVE  LoginInv'
<1> USE DEF IInv
<1>1. ASSUME NEW t \in Threads, SendStep(t) PROVE LoginInv'
  BY <1>1, LoginQuietSend, LoginLock, LoginWrite, LoginPop, LoginTrim DEF SendStep
<1>2. ASSUME NEW t \in Threads, ThreadStep(t) PROVE LoginInv'
  BY <1>1, <1>2, LoginNotify DEF ThreadStep
<1> QED
  BY <1>2, LoginIo, LoginMain, LoginOther DEF Next, IoStep, MainStep, Threads

(* Every connection gets a login request, or still has one before it in    *)
(* the queue, whatever failed or blocked and whatever was left over from   *)
(* the connections before it.                                              *)
THEOREM LoginReachesServer == Spec => []LoginNotLost
<1>1. Init => CallbackInv /\ LoginInv
  <2> SUFFICES ASSUME Init PROVE CallbackInv /\ LoginInv
    OBVIOUS
  <2>1. sockFd \notin Fds /\ pc["io"] = "loop"
    BY FdsAssumption, SMT DEF Init, TcpInit, NoFd, Threads
  <2> QED
    BY <2>1 DEF CallbackInv, LoginInv, PeerOf, NotifyLabels
<1>2. CallbackInv /\ LoginInv /\ StreamInv /\ IInv /\ [Next]_vars => (CallbackInv /\ LoginInv)'
  BY CallbackNext, LoginNext
<1>3. StreamInv /\ IInv /\ [Next]_vars => StreamInv'
  BY StreamNext
<1>4. LoginInv => LoginNotLost
  BY DEF LoginInv, LoginNotLost, BeforeLogin, NotifyLabels, Pending, Completes
<1> QED
  BY <1>1, <1>2, <1>3, <1>4, StreamInit, Invariance, PTL DEF Spec
=============================================================================
