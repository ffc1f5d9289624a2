------------------------ MODULE ProtocolParsingNode ------------------------
(***************************************************************************)
(* class ProtocolParsingNode (protocol_parsing_node.cpp): the login and    *)
(* heartbeat session with the cloud server, on top of TcpClient.           *)
(*                                                                         *)
(* Its callbacks run in whichever thread TcpClient calls them from: the    *)
(* state callback in both, the frame callback in "io"; spin() runs the     *)
(* topic callbacks and processTimers in "main".  Clocks are reduced to     *)
(* what the tests of processTimers see: a time stamp is "recent" until its *)
(* limit (10 s, 3 heartbeat intervals) elapses, then "old"; a stamp never  *)
(* taken is ros::Time(0), hence old.  The limits may elapse at any time;   *)
(* the model lets them only while their test is about to matter.  Whether  *)
(* a heartbeat is due (lastHbSent_) is left open: either may be so at any  *)
(* tick.                                                                   *)
(***************************************************************************)
EXTENDS TcpClient

VARIABLES
    loggedIn,    \* loggedIn_
    loginTime,   \* loginTime_, against the 10 s login timeout
    lastHbRecv,  \* lastHbRecv_, against HEARTBEAT_TIMEOUT_MULTIPLIER intervals
    down         \* ros::ok() is false: the node is being destroyed

nodeVars == <<loggedIn, loginTime, lastHbRecv, down>>
vars == <<tcpVars, nodeVars>>

Ages == {"recent", "old"}
-----------------------------------------------------------------------------
(* The state callback, onStateChanged.  On CONNECTED it sends the login    *)
(* request and goes on to notifyState's caller through "loginSent".        *)

OnConnected(t) ==
    /\ pc[t] = "cb" /\ local[t].newState = "CONNECTED"
    /\ Goto(t, "send")
    /\ local' = [local EXCEPT ![t] = [NoCall EXCEPT !.data = "login", !.sendRet = "loginSent"]]
    /\ UNCHANGED <<clientVars, conn, nodeVars>>

LoginSent ==
    /\ pc["io"] = "loginSent"
    /\ loginTime' = "recent"
    /\ Goto("io", "clear")
    /\ UNCHANGED <<clientVars, local, conn, loggedIn, lastHbRecv, down>>

OnDisconnected(t) ==
    /\ pc[t] = "cb" /\ local[t].newState = "DISCONNECTED"
    /\ loggedIn' = FALSE
    /\ ReturnNotify(t)
    /\ UNCHANGED <<clientVars, conn, loginTime, lastHbRecv, down>>

OnConnecting(t) ==
    /\ pc[t] = "cb" /\ local[t].newState = "CONNECTING"
    /\ ReturnNotify(t)
    /\ UNCHANGED <<clientVars, conn, nodeVars>>
-----------------------------------------------------------------------------
(* The frame callback, onFrameReceived, for the frame at the head of the   *)
(* receive buffer.                                                         *)

TakeFrame(fr) ==
    /\ pc["io"] = "parse" /\ recvBuf # <<>>
    /\ Head(recvBuf) = fr
    /\ recvBuf' = Tail(recvBuf)
    /\ UNCHANGED <<sockFd, state, running, sendQueue, sendMutex, conn, down>>

(* loggedIn_ is set before the interval and the time stamps are.           *)
HandleLoginOk ==
    /\ TakeFrame("loginOk")
    /\ loggedIn' = TRUE
    /\ Goto("io", "loginTimes")
    /\ UNCHANGED <<local, loginTime, lastHbRecv>>

LoginTimes ==
    /\ pc["io"] = "loginTimes"
    /\ lastHbRecv' = "recent"
    /\ Goto("io", "parse")
    /\ UNCHANGED <<clientVars, local, conn, loggedIn, loginTime, down>>

(* A refused login only logs, as do unknown packet types.                  *)
HandleIgnored ==
    /\ \E fr \in {"loginNo", "unknown"} : TakeFrame(fr)
    /\ UNCHANGED <<pc, local, loggedIn, loginTime, lastHbRecv>>

HandleHeartbeat ==
    /\ TakeFrame("heartbeat")
    /\ CallSend("io", "heartbeatResp", "hbAnswered")
    /\ UNCHANGED <<loggedIn, loginTime, lastHbRecv>>

HbAnswered ==
    /\ pc["io"] = "hbAnswered"
    /\ lastHbRecv' = "recent"
    /\ Goto("io", "parse")
    /\ UNCHANGED <<clientVars, local, conn, loggedIn, loginTime, down>>

HandleHeartbeatResponse ==
    /\ TakeFrame("heartbeatResp")
    /\ lastHbRecv' = "recent"
    /\ UNCHANGED <<pc, local, loggedIn, loginTime>>

(* A business command: published, then acknowledged whatever loggedIn_.    *)
HandleJsonBusiness ==
    /\ TakeFrame("command")
    /\ CallSend("io", "business", "parse")
    /\ UNCHANGED <<loggedIn, loginTime, lastHbRecv>>

IoNodeStep ==
    \/ LoginSent \/ HandleLoginOk \/ LoginTimes \/ HandleIgnored
    \/ HandleHeartbeat \/ HbAnswered \/ HandleHeartbeatResponse \/ HandleJsonBusiness

CallbackStep(t) == OnConnected(t) \/ OnDisconnected(t) \/ OnConnecting(t)
-----------------------------------------------------------------------------
(* spin(): while ros::ok(), topic callbacks, then processTimers.           *)

(* ros::ok() turned false: the destructor stops the client.                *)
Shutdown ==
    /\ pc["main"] = "ok"
    /\ down' = TRUE
    /\ Goto("main", "stop")
    /\ UNCHANGED <<clientVars, local, conn, loggedIn, loginTime, lastHbRecv>>

(* onRobotStatus, onFaultAlarm, onTaskState, onLocalPath, onSendResp       *)
OnUplink ==
    /\ pc["main"] \in {"ok", "spin"}
    /\ loggedIn /\ ShortQueue
    /\ CallSend("main", "business", "spin")
    /\ UNCHANGED <<clientVars, conn, nodeVars>>

(* processTimers, one step per value it reads from the other thread; the   *)
(* return from spinOnce is one step with the read of loggedIn_.            *)
SpinOnceReturns ==
    /\ pc["main"] \in {"ok", "spin"}
    /\ Goto("main", IF loggedIn THEN "tickSend" ELSE "tickState")
    /\ UNCHANGED <<clientVars, local, conn, nodeVars>>

(* Fault: the login timeout looks for the wrong state.                     *)
TickStateWrong ==
    /\ pc["main"] = "tickState"
    /\ Goto("main", IF state = "CONNECTING" THEN "tickLogin" ELSE "ok")
    /\ UNCHANGED <<clientVars, local, conn, nodeVars>>

TickState ==
    /\ pc["main"] = "tickState"
    /\ Goto("main", IF state = "CONNECTED" THEN "tickLogin" ELSE "ok")
    /\ UNCHANGED <<clientVars, local, conn, nodeVars>>

TickLogin ==
    /\ pc["main"] = "tickLogin"
    /\ Goto("main", IF loginTime = "old" THEN "stop" ELSE "ok")
    /\ UNCHANGED <<clientVars, local, conn, nodeVars>>

(* Fault: the heartbeat timeout is looked at only when none was due.       *)
TickSendElse ==
    /\ pc["main"] = "tickSend"
    /\ \/ ShortQueue /\ CallSend("main", "heartbeat", "ok")
       \/ Goto("main", "tickRecv") /\ UNCHANGED local
    /\ UNCHANGED <<clientVars, conn, nodeVars>>

TickSend ==
    /\ pc["main"] = "tickSend"
    /\ \/ ShortQueue /\ CallSend("main", "heartbeat", "tickRecv")
       \/ Goto("main", "tickRecv") /\ UNCHANGED local
    /\ UNCHANGED <<clientVars, conn, nodeVars>>

TickRecv ==
    /\ pc["main"] = "tickRecv"
    /\ IF lastHbRecv = "old"
         THEN loggedIn' = FALSE /\ Goto("main", "stop")
         ELSE Goto("main", "ok") /\ UNCHANGED loggedIn
    /\ UNCHANGED <<clientVars, local, conn, loginTime, lastHbRecv, down>>

AfterStop == IF down THEN "done" ELSE "start"

MainClientStep == StopRunning \/ JoinIo \/ StopClose(AfterStop) \/ Start

MainNodeStep ==
    \/ OnUplink \/ SpinOnceReturns
    \/ TickState \/ TickLogin \/ TickSend \/ TickRecv
-----------------------------------------------------------------------------
(* The server: it answers one login per connection, and only then sends    *)
(* heartbeats, answers and commands.  A damaged frame may precede the      *)
(* answer to the login, which is where it matters to this module.          *)

ServerAcceptsLogin(f) == conn[f].srv = "asked" /\ Deliver(f, "loginOk", "ok")
ServerRefusesLogin(f) == conn[f].srv = "asked" /\ Deliver(f, "loginNo", "no")
ServerSends(f) ==
    /\ conn[f].srv = "ok"
    /\ \E fr \in InFrames \ {"loginOk", "loginNo", "corrupt"} : Deliver(f, fr, "ok")
LineNoise(f) ==
    /\ conn[f].srv = "asked"
    /\ Deliver(f, "corrupt", "asked")

Environment ==
    /\ \E f \in Fds :
          \/ PeerFin(f) \/ PeerReset(f) \/ LineNoise(f)
          \/ ServerAcceptsLogin(f) \/ ServerRefusesLogin(f) \/ ServerSends(f)
    /\ UNCHANGED nodeVars

LoginTimeElapses ==
    /\ state = "CONNECTED" /\ ~loggedIn
    /\ loginTime = "recent" /\ loginTime' = "old"
    /\ UNCHANGED <<tcpVars, loggedIn, lastHbRecv, down>>
HbTimeoutElapses ==
    /\ loggedIn
    /\ lastHbRecv = "recent" /\ lastHbRecv' = "old"
    /\ UNCHANGED <<tcpVars, loggedIn, loginTime, down>>
TimeElapses == LoginTimeElapses \/ HbTimeoutElapses
-----------------------------------------------------------------------------
ThreadStep(t) ==
    \/ (SendStep(t) \/ NotifyState(t)) /\ UNCHANGED nodeVars
    \/ CallbackStep(t)

IoStep == ThreadStep("io") \/ (IoClientStep /\ UNCHANGED nodeVars) \/ IoNodeStep

MainStep == ThreadStep("main") \/ (MainClientStep /\ UNCHANGED nodeVars) \/ MainNodeStep

Init ==
    /\ TcpInit
    /\ loggedIn = FALSE
    /\ loginTime = "old" /\ lastHbRecv = "old"
    /\ down = FALSE

(* The process has ended; nothing is left to happen.                       *)
Terminated == pc["main"] = "done" /\ pc["io"] = "dead" /\ UNCHANGED vars

Next == IoStep \/ MainStep \/ Shutdown \/ Environment \/ TimeElapses \/ Terminated

Spec == Init /\ [][Next]_vars

(* Both threads are scheduled, time passes, and a spinOnce ends: it calls  *)
(* only the callbacks that were queued when it began.                      *)
FairSpec ==
    /\ Spec
    /\ WF_vars(IoStep) /\ WF_vars(MainStep)
    /\ SF_vars(SpinOnceReturns)
    /\ WF_vars(LoginTimeElapses) /\ WF_vars(HbTimeoutElapses)
-----------------------------------------------------------------------------
IoLabels == {"loop", "socket", "connect", "cclose", "cunset", "sleep", "clear", "recv",
             "rclose", "runset", "parse", "after", "dead",
             "loginSent", "loginTimes", "hbAnswered"}
MainLabels == {"ok", "spin", "tickState", "tickLogin", "tickSend", "tickRecv",
               "stop", "join", "stopClose", "start", "done"}
Labels == IoLabels \cup MainLabels \cup SendLabels \cup NotifyLabels

ClientTypeOK ==
    /\ sockFd \in Fds \cup {NoFd}
    /\ state \in States
    /\ running \in BOOLEAN
    /\ sendQueue \in Seq(Chunks)
    /\ recvBuf \in Seq(InFrames)
ControlTypeOK ==
    /\ sendMutex \in Threads \cup {NoThread}
    /\ pc \in [Threads -> Labels]
    /\ local \in [Threads -> [data : OutKinds \cup {"none"}, sendRet : Labels \cup {"none"},
                              newState : States \cup {"none"}, notifyRet : Labels \cup {"none"}]]
NodeTypeOK ==
    /\ loggedIn \in BOOLEAN
    /\ loginTime \in Ages /\ lastHbRecv \in Ages
    /\ down \in BOOLEAN
ConnTypeOK == conn \in [Fds -> Conns]

(* Every variable holds a value of its kind.                               *)
TypeOK == ClientTypeOK /\ ControlTypeOK /\ NodeTypeOK /\ ConnTypeOK

(* sendMutex_ is held by exactly the thread that is inside the locked part *)
(* of send(), the DISCONNECTED callback it makes from there included: no   *)
(* early return leaks it, and no callback under it locks it again.         *)
InCritical(t) ==
    \/ pc[t] \in {"write", "pop", "trim", "wclose", "wunset", "unlock"}
    \/ pc[t] \in NotifyLabels /\ local[t].notifyRet = "unlock"
MutexSafe == \A t \in Threads : Holder(t) <=> InCritical(t)

(* Whatever the two threads send, and however ::send splits it over        *)
(* reconnections, a frame once begun on a connection is completed before   *)
(* any other byte follows it there.                                        *)
FramesContiguous == \A f \in Fds : conn[f].pos # "torn"

(* A login that EAGAIN or a short write kept from the server is still      *)
(* queued: while a live connection is polled and the server has no login   *)
(* request, the queue holds one that this connection can still deliver.    *)
LoginNotLost ==
    pc["io"] \in {"recv", "after"} /\ PeerOf(sockFd) = "up" /\ conn[sockFd].srv = "new" =>
        \E i \in DOMAIN sendQueue :
            /\ sendQueue[i].kind = "login"
            /\ sendQueue[i].part = "whole" \/ conn[sockFd].pos = "login"

(* A login acceptance is handled only on the connection it came on, though *)
(* frames may stay in recvBuf_ when a connection ends.                     *)
LoginAnswerIsOurs ==
    pc["io"] = "parse" /\ recvBuf # <<>> /\ PeerOf(sockFd) = "up" =>
        (Head(recvBuf) = "loginOk" => conn[sockFd].srv = "ok")

(* Once stop() has returned, the io thread is gone, no lock is held and    *)
(* nothing opens or reports a connection any more.                         *)
StopQuiesces ==
    pc["main"] \in {"start", "done"} =>
        /\ pc["io"] = "dead"
        /\ sockFd = NoFd /\ state = "DISCONNECTED"
        /\ sendMutex = NoThread

(* stop() does not wait for the io thread for ever.                        *)
StopReturns == pc["main"] = "join" ~> pc["main"] # "join"

(* While state_ is CONNECTED without a login, the login timeout of          *)
(* processTimers is at work: a login that is unanswered, refused or stuck  *)
(* in the queue after EAGAIN or a short write is not waited for for ever.  *)
(* That is all the code gives: when a late DISCONNECTED has overwritten    *)
(* state_ (see LoggedInMeansAccepted), a live connection without a login   *)
(* is not looked at by processTimers.                                      *)
LoginWaitEnds ==
    (state = "CONNECTED" /\ ~loggedIn) ~> (state # "CONNECTED" \/ loggedIn \/ down)

(* A session whose server has fallen silent is given up by processTimers,  *)
(* also while heartbeats are still being sent.                             *)
SilenceNoticed ==
    (loggedIn /\ lastHbRecv = "old") ~> (~loggedIn \/ lastHbRecv = "recent" \/ down)
-----------------------------------------------------------------------------
(* Statements of the sources that the interleavings above refute.          *)

(* "login -> heartbeat -> business" (protocol_parsing_node.h): the first   *)
(* bytes a connection carries are those of a login request.                *)
FirstBytesAreLogin ==
    \A f \in Fds : conn[f].pos \in {"start", "login"} \/ conn[f].srv # "new"

(* The same order, seen from loggedIn_: with no thread inside a call and   *)
(* loggedIn_ true, the server of the live connection accepted a login.     *)
LoggedInMeansAccepted ==
    pc["main"] = "ok" /\ pc["io"] = "recv" /\ PeerOf(sockFd) = "up" =>
        (loggedIn => conn[sockFd].srv = "ok")

(* "10 s login timeout": a connection is dropped for want of an answer     *)
(* only when its own login request has been sent and its time stamp taken. *)
InConnectedCallback ==
    \/ pc["io"] = "cb" /\ local["io"].newState = "CONNECTED"
    \/ local["io"].sendRet = "loginSent"
    \/ pc["io"] = "loginSent"
LoginTimeoutIsReal ==
    [][pc["main"] = "tickLogin" /\ pc'["main"] = "stop" => ~InConnectedCallback]_vars
=============================================================================
