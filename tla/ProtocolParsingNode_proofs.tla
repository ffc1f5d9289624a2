--------------------- MODULE ProtocolParsingNode_proofs ---------------------
(***************************************************************************)
(* Theorems about the session of ProtocolParsingNode over TcpClient, for   *)
(* any number of descriptors, any server traffic and any bounds.           *)
(***************************************************************************)
EXTENDS ProtocolParsingNode, TLAPS, SequenceTheorems

Critical == {"write", "pop", "trim", "wclose", "wunset", "unlock"}

(* Where a send() and a notifyState() outside of send() return to.         *)
SendReturns(t) == IF t = "io" THEN {"loginSent", "hbAnswered", "parse"} ELSE {"spin", "tickRecv"}
NotifyReturns(t) == IF t = "io" THEN {"socket", "clear", "loop"} ELSE {"start", "done"}

(* The labels of a thread's own code, outside of both.                     *)
OwnCode(t) == IF t = "io" THEN IoLabels ELSE MainLabels

InSend(t) == local[t].data \in OutKinds /\ local[t].sendRet \in SendReturns(t)

(* The calls a thread is in the middle of.  A notifyState made by send()   *)
(* returns into it, and only tryConnect of "io" announces CONNECTED.       *)
CallOK(t) ==
    /\ pc[t] \in SendLabels => InSend(t)
    /\ pc[t] \in NotifyLabels =>
         /\ local[t].newState \in States
         /\ local[t].newState = "CONNECTED" => local[t].notifyRet = "clear"
         /\ \/ local[t].notifyRet = "unlock" /\ InSend(t)
            \/ local[t].notifyRet \in NotifyReturns(t)

(* Each thread is in its own code.                                         *)
OwnLabels ==
    /\ pc["io"] \in IoLabels \cup SendLabels \cup NotifyLabels
    /\ pc["main"] \in MainLabels \cup SendLabels \cup NotifyLabels

(* The chunk that was just written is still at the head of the queue.      *)
QueueHeld == \A t \in Threads : pc[t] \in {"pop", "trim"} => sendQueue # <<>>

ControlInv == /\ ControlTypeOK
              /\ OwnLabels
              /\ \A t \in Threads : CallOK(t)
              /\ MutexSafe
              /\ QueueHeld

(* stop() between the join of the io thread and its return.                *)
Reporting == pc["main"] \in NotifyLabels /\ local["main"].notifyRet \in {"start", "done"}
StopInv ==
    /\ pc["main"] \in {"stopClose", "start", "done"} \/ Reporting => pc["io"] = "dead"
    /\ Reporting => sockFd = NoFd /\ local["main"].newState = "DISCONNECTED"
    /\ Reporting /\ pc["main"] = "cb" => state = "DISCONNECTED"
    /\ pc["main"] \in {"start", "done"} => sockFd = NoFd /\ state = "DISCONNECTED"

IInv == TypeOK /\ ControlInv /\ StopInv
-----------------------------------------------------------------------------
(* The control part, one lemma for each group of actions.                  *)

LEMMA ControlInit == Init => ControlInv
<1> SUFFICES ASSUME Init PROVE ControlInv
  OBVIOUS
<1> USE DEF Init, TcpInit, Threads, NoCall, NoThread
<1>1. ControlTypeOK
  BY DEF ControlTypeOK, Labels, IoLabels, MainLabels
<1>2. OwnLabels
  BY DEF OwnLabels, IoLabels, MainLabels
<1>3. \A t \in Threads : CallOK(t) /\ pc[t] \notin Critical /\ pc[t] \notin NotifyLabels
  BY DEF CallOK, SendLabels, NotifyLabels, Critical
<1>4. MutexSafe
  BY <1>3 DEF MutexSafe, InCritical, Holder, Critical
<1>5. QueueHeld
  BY <1>3 DEF QueueHeld, Critical
<1> QED
  BY <1>1, <1>2, <1>3, <1>4, <1>5 DEF ControlInv

LEMMA ControlStutter ==
  ASSUME ControlInv, UNCHANGED <<pc, local, sendMutex, sendQueue>>
  PROVE  ControlInv'
  BY DEF ControlInv, ControlTypeOK, OwnLabels, CallOK, InSend, MutexSafe, InCritical, Holder,
         QueueHeld

(* What local holds of a thread.                                           *)
Calls == [data : OutKinds \cup {"none"}, sendRet : Labels \cup {"none"},
          newState : States \cup {"none"}, notifyRet : Labels \cup {"none"}]

(* send() returns to its caller and releases the lock it held.             *)
LEMMA ControlReturn ==
  ASSUME ControlInv, NEW t \in Threads, pc[t] \in {"write", "trim", "unlock"},
         ReturnSend(t), sendMutex' = NoThread
  PROVE  ControlInv'
<1>1. InSend(t) /\ InCritical(t)
  BY DEF ControlInv, CallOK, SendLabels, InCritical
<1>2. /\ pc \in [Threads -> Labels] /\ pc' = [pc EXCEPT ![t] = local[t].sendRet]
      /\ local' = [local EXCEPT ![t].data = "none", ![t].sendRet = "none"]
  BY DEF ControlInv, ControlTypeOK, ReturnSend, Goto
<1>3. local[t].sendRet \in SendReturns(t)
  BY <1>1 DEF InSend
<1>4. pc'[t] \in SendReturns(t)
  BY <1>2, <1>3
<1>5. \A u \in Threads \ {t} : pc'[u] = pc[u]
  BY <1>2
<1>6. \A u \in Threads \ {t} : local'[u] = local[u]
  BY <1>2 DEF ControlInv, ControlTypeOK
<1>7. ASSUME NEW u \in Threads \ {t} PROVE ~InCritical(u)
  BY <1>1 DEF ControlInv, MutexSafe, Holder
<1>8. /\ SendReturns(t) \subseteq OwnCode(t)
      /\ SendReturns(t) \cap (SendLabels \cup NotifyLabels \cup Critical) = {}
  BY DEF SendReturns, OwnCode, IoLabels, MainLabels, SendLabels, NotifyLabels, Critical
<1>9. ControlTypeOK'
  <2>1. pc'[t] \in Labels
    BY <1>4, <1>8 DEF OwnCode, Labels, IoLabels, MainLabels
  <2>2. pc' \in [Threads -> Labels]
    BY <1>2, <2>1
  <2>3. local' \in [Threads -> Calls]
    <3>1. local \in [Threads -> Calls]
      BY DEF ControlInv, ControlTypeOK, Calls
    <3>2. [local[t] EXCEPT !.data = "none", !.sendRet = "none"] \in Calls
      BY <3>1 DEF Calls
    <3>3. local' = [local EXCEPT ![t] = [local[t] EXCEPT !.data = "none", !.sendRet = "none"]]
      BY <1>2, <3>1
    <3> QED
      BY <3>1, <3>2, <3>3
  <2> QED
    BY <2>2, <2>3 DEF ControlTypeOK, Calls
<1>10. OwnLabels'
  <2>1. pc'[t] \in OwnCode(t)
    BY <1>4, <1>8
  <2> QED
    BY <1>5, <2>1 DEF ControlInv, OwnLabels, OwnCode, Threads
<1>11. ASSUME NEW u \in Threads PROVE CallOK(u)'
  <2>1. CASE u = t
    BY <1>4, <1>8, <2>1 DEF CallOK
  <2>2. CASE u # t
    BY <1>5, <1>6, <2>2 DEF ControlInv, CallOK, InSend
  <2> QED
    BY <2>1, <2>2
<1>12. ASSUME NEW u \in Threads PROVE ~InCritical(u)'
  <2>1. CASE u = t
    BY <1>4, <1>8, <2>1 DEF InCritical, Critical
  <2>2. CASE u # t
    BY <1>5, <1>6, <1>7, <2>2 DEF InCritical
  <2> QED
    BY <2>1, <2>2
<1>13. MutexSafe'
  BY <1>12 DEF MutexSafe, Holder, Threads, NoThread
<1>14. QueueHeld'
  BY <1>12 DEF QueueHeld, InCritical
<1> QED
  BY <1>9, <1>10, <1>11, <1>13, <1>14 DEF ControlInv

LEMMA ControlSend ==
  ASSUME ControlInv, NEW t \in Threads, SendStep(t)
  PROVE  ControlInv'
<1> USE DEF ControlInv, ControlTypeOK, OwnLabels, CallOK, InSend, MutexSafe, InCritical, Holder,
            QueueHeld, SendLabels, NotifyLabels, Threads, NoThread, clientVars,
            Labels, IoLabels, MainLabels, SendReturns, NotifyReturns, States
<1>1. CASE SendCheck(t)
  BY <1>1 DEF SendCheck, Goto, ReturnSend
<1>2. CASE SendLock(t)
  BY <1>2 DEF SendLock, Goto
<1>3. CASE SendAll(t)
  BY <1>3 DEF SendAll, Goto
<1>12. CASE SendPartial(t)
  BY <1>12 DEF SendPartial, Goto
<1>4. CASE SendWouldBlock(t)
  BY <1>4, ControlReturn DEF SendWouldBlock
<1>5. CASE SendError(t)
  BY <1>5 DEF SendError, Goto
<1>6. CASE SendDone(t)
  BY <1>6, ControlReturn DEF SendDone
<1>7. CASE SendPop(t)
  BY <1>7 DEF SendPop, Goto
<1>8. CASE SendTrim(t)
  BY <1>8, ControlReturn DEF SendTrim
<1>9. CASE SendClose(t)
  BY <1>9 DEF SendClose, Goto
<1>10. CASE SendUnset(t)
  <2>1. pc[t] = "wunset" /\ pc' = [pc EXCEPT ![t] = "notify"]
    BY <1>10 DEF SendUnset, CallNotify, Goto
  <2>2. local' = [local EXCEPT ![t].newState = "DISCONNECTED", ![t].notifyRet = "unlock"]
    BY <1>10 DEF SendUnset, CallNotify
  <2>3. UNCHANGED <<sendMutex, sendQueue>>
    BY <1>10 DEF SendUnset
  <2>4. ControlTypeOK'
    <3>1. pc' \in [Threads -> Labels]
      BY <2>1
    <3>2. local' \in [Threads -> Calls]
      BY <2>2 DEF Calls
    <3> QED
      BY <2>3, <3>1, <3>2 DEF Calls
  <2>5. OwnLabels'
    BY <2>1
  <2>6. \A u \in Threads : CallOK(u)'
    BY <2>1, <2>2
  <2>7. MutexSafe' /\ QueueHeld'
    BY <2>1, <2>2, <2>3
  <2> QED
    BY <2>4, <2>5, <2>6, <2>7
<1>11. CASE SendUnlock(t)
  BY <1>11, ControlReturn DEF SendUnlock
<1> QED
  BY <1>1, <1>2, <1>3, <1>4, <1>5, <1>6, <1>7, <1>8, <1>9, <1>10, <1>11, <1>12
  DEF SendStep

(* notifyState() returns: into send(), which holds the lock, or elsewhere. *)
LEMMA ControlNotifyReturn ==
  ASSUME ControlInv, NEW t \in Threads, pc[t] \in NotifyLabels, ReturnNotify(t),
         UNCHANGED <<sendMutex, sendQueue>>
  PROVE  ControlInv'
<1> DEFINE ret == local[t].notifyRet
<1>1. \/ ret = "unlock" /\ InSend(t) /\ InCritical(t)
      \/ ret \in NotifyReturns(t) /\ ~InCritical(t)
  <2>1. (ret = "unlock" /\ InSend(t)) \/ ret \in NotifyReturns(t)
    BY DEF ControlInv, CallOK
  <2>2. "unlock" \notin NotifyReturns(t)
    BY DEF NotifyReturns
  <2>3. CASE ret = "unlock"
    <3>1. ret \notin NotifyReturns(t)
      BY <2>2, <2>3
    <3>2. InCritical(t)
      BY <2>3 DEF InCritical
    <3>3. InSend(t)
      BY <2>1, <3>1
    <3> QED
      BY <2>3, <3>2, <3>3
  <2>4. CASE ret # "unlock"
    <3>1. ~InCritical(t)
      BY <2>4 DEF InCritical, NotifyLabels
    <3> QED
      BY <2>1, <2>4, <3>1
  <2> QED
    BY <2>3, <2>4
<1>2. /\ pc \in [Threads -> Labels] /\ pc' = [pc EXCEPT ![t] = ret]
      /\ local' = [local EXCEPT ![t].newState = "none", ![t].notifyRet = "none"]
      /\ local \in [Threads -> Calls]
  BY DEF ControlInv, ControlTypeOK, ReturnNotify, Goto, Calls
<1>3. pc'[t] = ret /\ \A u \in Threads \ {t} : pc'[u] = pc[u]
  BY <1>2
<1>4. local'[t] = [local[t] EXCEPT !.newState = "none", !.notifyRet = "none"]
      /\ \A u \in Threads \ {t} : local'[u] = local[u]
  BY <1>2
<1>5. local'[t] \in Calls /\ local'[t].data = local[t].data /\ local'[t].sendRet = local[t].sendRet
  <2>1. local[t] \in Calls
    BY <1>2
  <2> QED
    BY <1>4, <2>1 DEF Calls
<1>6. NotifyReturns(t) \subseteq OwnCode(t)
      /\ NotifyReturns(t) \cap (SendLabels \cup NotifyLabels \cup Critical) = {}
  BY DEF NotifyReturns, OwnCode, IoLabels, MainLabels, SendLabels, NotifyLabels, Critical
<1>7. ret \in OwnCode(t) \cup SendLabels /\ ret \notin NotifyLabels \cup {"pop", "trim"}
      /\ (ret \in SendLabels => InSend(t)) /\ (ret \in Critical <=> InCritical(t))
  BY <1>1, <1>6 DEF SendLabels, NotifyLabels, Critical
<1> HIDE DEF ret
<1>8. ControlTypeOK'
  <2>1. ret \in Labels
    BY <1>7 DEF OwnCode, Labels, IoLabels, MainLabels, SendLabels
  <2>2. pc' \in [Threads -> Labels]
    BY <1>2, <2>1
  <2>3. local' = [local EXCEPT ![t] = local'[t]]
    BY <1>2, <1>4
  <2>4. local' \in [Threads -> Calls]
    BY <1>2, <1>5, <2>3
  <2> QED
    BY <2>2, <2>4 DEF ControlInv, ControlTypeOK, Calls
<1>9. OwnLabels'
  BY <1>3, <1>7 DEF ControlInv, OwnLabels, OwnCode, Threads
<1>10. ASSUME NEW u \in Threads PROVE CallOK(u)'
  <2>1. CASE u = t
    BY <1>3, <1>5, <1>7, <2>1 DEF CallOK, InSend
  <2>2. CASE u # t
    BY <1>3, <1>4, <2>2 DEF ControlInv, CallOK, InSend
  <2> QED
    BY <2>1, <2>2
<1>11. ASSUME NEW u \in Threads PROVE InCritical(u)' <=> InCritical(u)
  <2>1. CASE u = t
    BY <1>3, <1>7, <2>1 DEF InCritical, Critical
  <2>2. CASE u # t
    BY <1>3, <1>4, <2>2 DEF InCritical
  <2> QED
    BY <2>1, <2>2
<1>12. MutexSafe'
  BY <1>11 DEF ControlInv, MutexSafe, Holder
<1>13. QueueHeld'
  BY <1>3, <1>7 DEF ControlInv, QueueHeld
<1> QED
  BY <1>8, <1>9, <1>10, <1>12, <1>13 DEF ControlInv

LEMMA ControlNotify ==
  ASSUME ControlInv, NEW t \in Threads, NotifyState(t) \/ CallbackStep(t)
  PROVE  ControlInv'
<1> USE DEF ControlInv, ControlTypeOK, OwnLabels, CallOK, InSend, MutexSafe, InCritical, Holder,
            QueueHeld, SendLabels, NotifyLabels, Threads, NoThread, clientVars,
            Labels, IoLabels, MainLabels, SendReturns, NotifyReturns, States
<1>1. CASE NotifyState(t)
  <2>1. CASE ReturnNotify(t)
    BY <1>1, <2>1, ControlNotifyReturn DEF NotifyState
  <2>2. CASE Goto(t, "cb") /\ UNCHANGED local
    BY <1>1, <2>2 DEF NotifyState, Goto
  <2> QED
    BY <1>1, <2>1, <2>2 DEF NotifyState
<1>2. CASE OnConnected(t)
  <2>1. t = "io"
    BY <1>2 DEF OnConnected
  <2>2. pc' = [pc EXCEPT !["io"] = "send"]
    BY <1>2, <2>1 DEF OnConnected, Goto
  <2>3. local' = [local EXCEPT !["io"] = [NoCall EXCEPT !.data = "login", !.sendRet = "loginSent"]]
    BY <1>2, <2>1 DEF OnConnected
  <2>4. UNCHANGED <<sendMutex, sendQueue>>
    BY <1>2 DEF OnConnected
  <2>5. local["io"].notifyRet # "unlock"
    BY <1>2, <2>1 DEF OnConnected
  <2>6. ~InCritical("io")
    BY <1>2, <2>1, <2>5 DEF OnConnected
  <2>7. ControlTypeOK'
    <3>1. pc' \in [Threads -> Labels]
      BY <2>2
    <3>2. local \in [Threads -> Calls]
      BY DEF Calls
    <3>3. [NoCall EXCEPT !.data = "login", !.sendRet = "loginSent"] \in Calls
      BY DEF Calls, NoCall, OutKinds
    <3>4. local' \in [Threads -> Calls]
      BY <2>3, <3>2, <3>3
    <3> QED
      BY <2>4, <3>1, <3>4 DEF Calls
  <2>8. \A u \in Threads : CallOK(u)'
    BY SMTT(40), <2>2, <2>3 DEF NoCall, OutKinds
  <2>9. MutexSafe'
    BY <2>2, <2>3, <2>4, <2>6
  <2>10. QueueHeld' /\ OwnLabels'
    BY <2>2, <2>3, <2>4
  <2> QED
    BY <2>7, <2>8, <2>9, <2>10
<1>3. CASE OnDisconnected(t)
  BY <1>3, ControlNotifyReturn DEF OnDisconnected
<1>4. CASE OnConnecting(t)
  BY <1>4, ControlNotifyReturn DEF OnConnecting
<1> QED
  BY <1>1, <1>2, <1>3, <1>4 DEF CallbackStep

(* A thread outside of calls goes to another such place.                   *)
LEMMA ControlMove ==
  ASSUME ControlInv, NEW t \in Threads, NEW l \in OwnCode(t),
         pc[t] \in OwnCode(t), Goto(t, l), UNCHANGED <<local, sendMutex, sendQueue>>
  PROVE  ControlInv'
  BY DEF ControlInv, ControlTypeOK, OwnLabels, CallOK, InSend, MutexSafe, InCritical, Holder,
         QueueHeld, SendLabels, NotifyLabels, Threads, Labels, IoLabels, MainLabels, OwnCode, Goto

(* A thread outside of calls calls send().                                 *)
LEMMA ControlCallSend ==
  ASSUME ControlInv, NEW t \in Threads, NEW kind \in OutKinds, NEW ret \in SendReturns(t),
         pc[t] \in OwnCode(t), CallSend(t, kind, ret), UNCHANGED <<sendMutex, sendQueue>>
  PROVE  ControlInv'
  BY DEF ControlInv, ControlTypeOK, OwnLabels, CallOK, InSend, MutexSafe, InCritical, Holder,
         QueueHeld, SendLabels, NotifyLabels, Threads, Labels, IoLabels, MainLabels, OwnCode,
         SendReturns, CallSend, Goto

(* A thread outside of calls calls notifyState.                            *)
LEMMA ControlCallNotify ==
  ASSUME ControlInv, NEW t \in Threads, NEW s \in States, NEW ret \in NotifyReturns(t),
         s = "CONNECTED" => ret = "clear",
         pc[t] \in OwnCode(t), CallNotify(t, s, ret), UNCHANGED <<sendMutex, sendQueue>>
  PROVE  ControlInv'
  BY DEF ControlInv, ControlTypeOK, OwnLabels, CallOK, InSend, MutexSafe, InCritical, Holder,
         QueueHeld, SendLabels, NotifyLabels, Threads, Labels, IoLabels, MainLabels, OwnCode,
         NotifyReturns, CallNotify, Goto

LEMMA ControlIo ==
  ASSUME ControlInv, IoClientStep \/ IoNodeStep
  PROVE  ControlInv'
<1> USE DEF OwnCode, IoLabels, Threads, clientVars
<1>1. CASE IoLoop
  <2>1. "CONNECTING" \in States /\ "socket" \in NotifyReturns("io")
    BY DEF States, NotifyReturns
  <2> QED
    BY <1>1, <2>1, ControlMove, ControlCallNotify DEF IoLoop
<1>2. CASE Socket
  BY <1>2, ControlMove DEF Socket
<1>3. CASE ConnectOk \/ ConnectLateError
  <2>1. "CONNECTED" \in States /\ "clear" \in NotifyReturns("io")
    BY DEF States, NotifyReturns
  <2> QED
    BY <1>3, <2>1, ControlCallNotify DEF ConnectOk, ConnectLateError, ConnectReturns
<1>4. CASE ConnectFails
  BY <1>4, ControlMove DEF ConnectFails
<1>5. CASE IoClose
  BY <1>5, ControlMove DEF IoClose
<1>6. CASE IoUnset
  BY <1>6, ControlMove DEF IoUnset
<1>7. CASE ReconnectSleep \/ ClearRecvBuf
  BY <1>7, ControlMove DEF ReconnectSleep, ClearRecvBuf
<1>8. CASE Receive \/ ReceiveNothing \/ ReceiveEnds
  BY <1>8, ControlMove DEF Receive, ReceiveNothing, ReceiveEnds
<1>9. CASE ParseStops
  BY <1>9, ControlMove DEF ParseStops
<1>10. CASE AfterReceive
  <2>1. "DISCONNECTED" \in States /\ "loop" \in NotifyReturns("io")
    BY DEF States, NotifyReturns
  <2> QED
    BY <1>10, <2>1, ControlMove, ControlCallNotify DEF AfterReceive
<1>11. CASE LoginSent \/ HandleLoginOk \/ LoginTimes \/ HbAnswered
  BY <1>11, ControlMove DEF LoginSent, HandleLoginOk, LoginTimes, HbAnswered, TakeFrame
<1>12. CASE HandleIgnored \/ HandleHeartbeatResponse
  BY <1>12, ControlStutter DEF HandleIgnored, HandleHeartbeatResponse, TakeFrame
<1>13. CASE HandleHeartbeat \/ HandleJsonBusiness
  <2>1. /\ "heartbeatResp" \in OutKinds /\ "business" \in OutKinds
        /\ "hbAnswered" \in SendReturns("io") /\ "parse" \in SendReturns("io")
    BY DEF OutKinds, SendReturns
  <2> QED
    BY <1>13, <2>1, ControlCallSend DEF HandleHeartbeat, HandleJsonBusiness, TakeFrame
<1> QED
  BY <1>1, <1>2, <1>3, <1>4, <1>5, <1>6, <1>7, <1>8, <1>9, <1>10, <1>11, <1>12, <1>13
  DEF IoClientStep, IoNodeStep

(* start() while the io thread, if there is one, is between two calls.     *)
LEMMA ControlStart ==
  ASSUME ControlInv, Start, pc["io"] \in IoLabels
  PROVE  ControlInv'
<1>1. CASE running
  BY <1>1, ControlMove DEF Start, Goto, OwnCode, MainLabels, Threads
<1>2. CASE ~running
  <2>1. /\ pc["main"] = "start" /\ UNCHANGED <<local, sendMutex, sendQueue>>
        /\ pc' = [pc EXCEPT !["main"] = "ok", !["io"] = "loop"]
    BY <1>2 DEF Start
  <2> QED
    BY <2>1
    DEF ControlInv, ControlTypeOK, OwnLabels, CallOK, InSend, MutexSafe, InCritical, Holder,
        QueueHeld, SendLabels, NotifyLabels, Threads, Labels, IoLabels, MainLabels
<1> QED
  BY <1>1, <1>2

LEMMA ControlMain ==
  ASSUME ControlInv, StopInv, MainClientStep \/ MainNodeStep \/ Shutdown
  PROVE  ControlInv'
<1> USE DEF OwnCode, MainLabels, Threads, clientVars
<1>1. CASE StopRunning \/ JoinIo
  BY <1>1, ControlMove DEF StopRunning, JoinIo
<1>2. CASE StopClose(AfterStop)
  <2>1. AfterStop \in NotifyReturns("main") /\ "DISCONNECTED" \in States
    BY DEF AfterStop, NotifyReturns, States
  <2> QED
    BY <1>2, <2>1, ControlCallNotify DEF StopClose
<1>3. CASE Start
  BY <1>3, ControlStart DEF Start, StopInv, IoLabels
<1>4. CASE OnUplink \/ TickSend
  <2>1. /\ "business" \in OutKinds /\ "heartbeat" \in OutKinds
        /\ "spin" \in SendReturns("main") /\ "tickRecv" \in SendReturns("main")
    BY DEF OutKinds, SendReturns
  <2> QED
    BY <1>4, <2>1, ControlCallSend, ControlMove DEF OnUplink, TickSend
<1>5. CASE SpinOnceReturns \/ TickState \/ TickLogin \/ TickRecv
  BY <1>5, ControlMove DEF SpinOnceReturns, TickState, TickLogin, TickRecv
<1>6. CASE Shutdown
  BY <1>6, ControlMove DEF Shutdown
<1> QED
  BY <1>1, <1>2, <1>3, <1>4, <1>5, <1>6 DEF MainClientStep, MainNodeStep

(* The environment and the clocks run no code.                             *)
LEMMA OtherSteps ==
  ASSUME Environment \/ TimeElapses \/ Terminated \/ UNCHANGED vars
  PROVE  UNCHANGED <<clientVars, pc, local, down>>
<1>1. CASE Environment
  BY <1>1 DEF Environment, PeerFin, PeerReset, LineNoise, ServerAcceptsLogin, ServerRefusesLogin,
              ServerSends, Deliver, nodeVars
<1>2. CASE TimeElapses
  BY <1>2 DEF TimeElapses, LoginTimeElapses, HbTimeoutElapses, tcpVars
<1>3. CASE Terminated \/ UNCHANGED vars
  BY <1>3 DEF Terminated, vars, tcpVars, nodeVars
<1> QED
  BY <1>1, <1>2, <1>3

LEMMA ControlNext ==
  ASSUME ControlInv, StopInv, [Next]_vars
  PROVE  ControlInv'
<1>1. CASE IoStep \/ MainStep
  BY <1>1, ControlSend, ControlNotify, ControlIo, ControlMain
  DEF IoStep, MainStep, ThreadStep, Threads
<1>2. CASE Shutdown
  BY <1>2, ControlMain
<1>3. CASE Environment \/ TimeElapses \/ Terminated \/ UNCHANGED vars
  BY <1>3, OtherSteps, ControlStutter DEF clientVars
<1> QED
  BY <1>1, <1>2, <1>3 DEF Next
-----------------------------------------------------------------------------
(* stop().                                                                 *)

(* A dead io thread does nothing, and a live one leaves the other alone.   *)
LEMMA IoMoves ==
  ASSUME ControlInv, IoStep
  PROVE  /\ pc["io"] # "dead"
         /\ pc'["main"] = pc["main"] /\ local'["main"] = local["main"]
<1> USE DEF ControlInv, ControlTypeOK, Threads, clientVars
<1>1. CASE SendStep("io")
  BY <1>1 DEF SendStep, SendCheck, SendLock, SendAll, SendPartial, SendWouldBlock, SendError,
              SendDone, SendPop, SendTrim, SendClose, SendUnset, SendUnlock,
              ReturnSend, CallNotify, Goto
<1>2. CASE NotifyState("io") \/ CallbackStep("io")
  BY <1>2 DEF NotifyState, CallbackStep, OnConnected, OnDisconnected, OnConnecting,
              ReturnNotify, Goto
<1>3. CASE IoClientStep
  BY <1>3 DEF IoClientStep, IoLoop, Socket, ConnectOk, ConnectLateError, ConnectReturns,
              ConnectFails, IoClose, IoUnset, ReconnectSleep, ClearRecvBuf, Receive,
              ReceiveNothing, ReceiveEnds, ParseStops, AfterReceive, CallNotify, Goto
<1>4. CASE IoNodeStep
  BY <1>4 DEF IoNodeStep, LoginSent, HandleLoginOk, LoginTimes, HandleIgnored, HandleHeartbeat,
              HbAnswered, HandleHeartbeatResponse, HandleJsonBusiness, TakeFrame, CallSend, Goto
<1> QED
  BY <1>1, <1>2, <1>3, <1>4 DEF IoStep, ThreadStep

LEMMA StopIo ==
  ASSUME ControlInv, StopInv, IoStep
  PROVE  StopInv'
  BY IoMoves DEF StopInv, Reporting, NotifyLabels

LEMMA StopMain ==
  ASSUME ControlInv, StopInv, MainStep \/ Shutdown
  PROVE  StopInv'
<1> USE DEF StopInv, Reporting, NotifyLabels, ControlInv, ControlTypeOK, Threads, clientVars
<1>1. CASE SendStep("main")
  <2>1. InSend("main")
    BY <1>1 DEF SendStep, SendCheck, SendLock, SendAll, SendPartial, SendWouldBlock, SendError,
                SendDone, SendPop, SendTrim, SendClose, SendUnset, SendUnlock, CallOK, SendLabels
  <2>2. CASE SendUnset("main")
    BY <2>2 DEF SendUnset, CallNotify, Goto
  <2>3. ASSUME ReturnSend("main") PROVE StopInv'
    BY <2>1, <2>3 DEF ReturnSend, Goto, InSend, SendReturns
  <2>4. ASSUME NEW l \in SendLabels, Goto("main", l) PROVE StopInv'
    BY <2>4 DEF Goto, SendLabels
  <2> QED
    BY <1>1, <2>2, <2>3, <2>4
    DEF SendStep, SendCheck, SendLock, SendAll, SendPartial, SendWouldBlock, SendError,
        SendDone, SendPop, SendTrim, SendClose, SendUnlock, SendLabels
<1>2. CASE NotifyState("main")
  BY <1>2 DEF NotifyState, ReturnNotify, Goto, CallOK, NotifyReturns
<1>3. CASE CallbackStep("main")
  <2>1. ~OnConnected("main")
    BY DEF OnConnected, CallOK, NotifyReturns
  <2> QED
    BY <1>3, <2>1 DEF CallbackStep, OnDisconnected, OnConnecting, ReturnNotify, Goto, CallOK,
                      NotifyReturns
<1>4. CASE StopRunning \/ JoinIo
  BY <1>4 DEF StopRunning, JoinIo, Goto
<1>5. CASE StopClose(AfterStop)
  BY <1>5 DEF StopClose, CallNotify, Goto
<1>6. CASE Start
  BY <1>6 DEF Start
<1>7. CASE MainNodeStep \/ Shutdown
  BY <1>7 DEF MainNodeStep, Shutdown, OnUplink, SpinOnceReturns, TickState, TickLogin, TickSend,
              TickRecv, CallSend, Goto
<1> QED
  BY <1>1, <1>2, <1>3, <1>4, <1>5, <1>6, <1>7 DEF MainStep, ThreadStep, MainClientStep

LEMMA StopNext ==
  ASSUME ControlInv, StopInv, [Next]_vars
  PROVE  StopInv'
<1>1. CASE Environment \/ TimeElapses \/ Terminated \/ UNCHANGED vars
  BY <1>1, OtherSteps DEF StopInv, Reporting, clientVars
<1> QED
  BY <1>1, StopIo, StopMain DEF Next
-----------------------------------------------------------------------------
(* The other types.                                                        *)

(* What was written leaves a connection's record a record.                 *)
LEMMA WrittenType ==
  ASSUME NEW cn \in Conns, NEW c \in Chunks, NEW all \in BOOLEAN
  PROVE  Written(cn, c, all) \in Conns
<1>1. PosAfter(cn.pos, c, all) \in Positions
  BY DEF PosAfter, InStep, Conns, Chunks, Positions, OutKinds
<1> QED
  BY <1>1 DEF Written, Conns

LEMMA ConnUpdate ==
  ASSUME ConnTypeOK, NEW f \in Fds, NEW c \in Conns, conn' = [conn EXCEPT ![f] = c]
  PROVE  ConnTypeOK'
  BY DEF ConnTypeOK

LEMMA NoFrames == <<>> \in Seq(InFrames)
  BY EmptySeq

LEMMA ClosedIsConn == ClosedConn \in Conns
  BY NoFrames DEF ClosedConn, Conns, Peers, Positions

LEMMA CloseType ==
  ASSUME ConnTypeOK, NEW f, CloseFd(f)
  PROVE  ConnTypeOK'
  BY ClosedIsConn, ConnUpdate DEF CloseFd, ConnTypeOK

(* send() keeps the types.                                                 *)
LEMMA DataSend ==
  ASSUME TypeOK, ControlInv, NEW t \in Threads, SendStep(t)
  PROVE  ClientTypeOK' /\ ConnTypeOK'
<1> USE DEF TypeOK, ClientTypeOK, clientVars
<1>1. CASE SendCheck(t) \/ SendDone(t) \/ SendWouldBlock(t) \/ SendError(t) \/ SendUnlock(t)
  BY <1>1 DEF SendCheck, SendDone, SendWouldBlock, SendError, SendUnlock, ConnTypeOK
<1>2. CASE SendLock(t)
  <2>1. [kind |-> local[t].data, part |-> "whole"] \in Chunks
    BY <1>2 DEF SendLock, ControlInv, CallOK, InSend, SendLabels, Chunks
  <2> QED
    BY <1>2, <2>1, AppendProperties DEF SendLock, ConnTypeOK
<1>3. CASE SendAll(t) \/ SendPartial(t)
  <2>1. sockFd \in Fds
    BY <1>3 DEF SendAll, SendPartial, PeerOf
  <2>2. Head(sendQueue) \in Chunks
    BY <1>3, HeadTailProperties DEF SendAll, SendPartial
  <2>3. conn[sockFd] \in Conns
    BY <2>1 DEF ConnTypeOK
  <2> QED
    BY <1>3, <2>1, <2>2, <2>3, WrittenType, ConnUpdate DEF SendAll, SendPartial
<1>4. CASE SendPop(t)
  BY <1>4, HeadTailProperties DEF SendPop, ControlInv, QueueHeld, ConnTypeOK
<1>5. CASE SendTrim(t)
  <2>1. sendQueue # <<>>
    BY <1>5 DEF SendTrim, ControlInv, QueueHeld
  <2>2. 1 \in 1..Len(sendQueue) /\ sendQueue[1] \in Chunks
    BY <2>1, EmptySeq, ElementOfSeq
  <2>3. sendQueue' = [sendQueue EXCEPT ![1] = [sendQueue[1] EXCEPT !.part = "rest"]]
    BY <1>5 DEF SendTrim
  <2>4. [sendQueue[1] EXCEPT !.part = "rest"] \in Chunks
    BY <2>2 DEF Chunks
  <2>5. sendQueue' \in Seq(Chunks)
    BY <2>2, <2>3, <2>4, ExceptSeq
  <2> QED
    BY <1>5, <2>5 DEF SendTrim, ConnTypeOK
<1>6. CASE SendClose(t)
  BY <1>6, CloseType DEF SendClose
<1>7. CASE SendUnset(t)
  BY <1>7 DEF SendUnset, ConnTypeOK
<1> QED
  BY <1>1, <1>2, <1>3, <1>4, <1>5, <1>6, <1>7 DEF SendStep

LEMMA DataNotify ==
  ASSUME TypeOK, ControlInv, NEW t \in Threads, NotifyState(t) \/ CallbackStep(t)
  PROVE  ClientTypeOK' /\ ConnTypeOK'
<1>1. CASE NotifyState(t)
  BY <1>1 DEF NotifyState, ControlInv, CallOK, NotifyLabels, TypeOK, ClientTypeOK, ConnTypeOK
<1>2. CASE CallbackStep(t)
  BY <1>2 DEF CallbackStep, OnConnected, OnDisconnected, OnConnecting, clientVars,
              TypeOK, ClientTypeOK, ConnTypeOK
<1> QED
  BY <1>1, <1>2

(* The io thread's own code keeps the types.                               *)
LEMMA DataIo ==
  ASSUME TypeOK, IoClientStep \/ IoNodeStep
  PROVE  ClientTypeOK' /\ ConnTypeOK'
<1> USE DEF TypeOK, ClientTypeOK, clientVars
<1>1. CASE IoLoop \/ ConnectFails \/ ReconnectSleep \/ ReceiveNothing \/ ReceiveEnds \/ AfterReceive
  BY <1>1 DEF IoLoop, ConnectFails, ReconnectSleep, ReceiveNothing, ReceiveEnds, AfterReceive,
              ConnTypeOK
<1>2. CASE Socket
  <2>1. CASE UNCHANGED conn
    BY <1>2, <2>1 DEF Socket, ConnTypeOK
  <2>2. ASSUME NEW f \in Fds, sockFd' = f, conn' = [conn EXCEPT ![f].peer = "new"]
        PROVE  ConnTypeOK' /\ sockFd' \in Fds
    <3>1. [conn[f] EXCEPT !.peer = "new"] \in Conns
      BY DEF ConnTypeOK, Conns, Peers
    <3> QED
      BY <2>2, <3>1, ConnUpdate
  <2> QED
    BY <1>2, <2>1, <2>2 DEF Socket
<1>3. ASSUME NEW peer \in Peers, ConnectReturns(peer) PROVE ClientTypeOK' /\ ConnTypeOK'
  <2>1. sockFd \in Fds
    BY <1>3 DEF ConnectReturns, PeerOf
  <2>2. [conn[sockFd] EXCEPT !.peer = peer] \in Conns
    BY <2>1 DEF ConnTypeOK, Conns
  <2> QED
    BY <1>3, <2>1, <2>2, ConnUpdate DEF ConnectReturns
<1>4. CASE ConnectOk \/ ConnectLateError
  BY <1>3, <1>4 DEF ConnectOk, ConnectLateError, Peers
<1>5. CASE IoClose
  BY <1>5, CloseType DEF IoClose
<1>6. CASE IoUnset \/ ClearRecvBuf
  BY <1>6, NoFrames DEF IoUnset, ClearRecvBuf, ConnTypeOK
<1>7. CASE Receive
  <2>1. sockFd \in Fds
    BY <1>7 DEF Receive, PeerOf
  <2>2. conn[sockFd].rx \in Seq(InFrames) /\ [conn[sockFd] EXCEPT !.rx = <<>>] \in Conns
    BY <2>1, NoFrames DEF ConnTypeOK, Conns
  <2>3. recvBuf' \in Seq(InFrames)
    BY <1>7, <2>2, ConcatProperties DEF Receive
  <2> QED
    BY <1>7, <2>1, <2>2, <2>3, ConnUpdate DEF Receive
<1>8. CASE ParseStops
  BY <1>8, HeadTailProperties DEF ParseStops, ConnTypeOK
<1>9. CASE LoginSent \/ LoginTimes \/ HbAnswered
  BY <1>9 DEF LoginSent, LoginTimes, HbAnswered, ConnTypeOK
<1>10. ASSUME NEW fr, TakeFrame(fr) PROVE ClientTypeOK' /\ ConnTypeOK'
  BY <1>10, HeadTailProperties DEF TakeFrame, ConnTypeOK
<1> QED
  BY <1>1, <1>2, <1>4, <1>5, <1>6, <1>7, <1>8, <1>9, <1>10
  DEF IoClientStep, IoNodeStep, HandleLoginOk, HandleIgnored, HandleHeartbeat,
      HandleHeartbeatResponse, HandleJsonBusiness

LEMMA DataMain ==
  ASSUME TypeOK, MainClientStep \/ MainNodeStep \/ Shutdown
  PROVE  ClientTypeOK' /\ ConnTypeOK'
<1> USE DEF TypeOK, ClientTypeOK, clientVars
<1>1. CASE StopClose(AfterStop)
  BY <1>1, CloseType DEF StopClose
<1>2. CASE StopRunning \/ JoinIo \/ Start
  BY <1>2 DEF StopRunning, JoinIo, Start, ConnTypeOK
<1>3. CASE MainNodeStep \/ Shutdown
  BY <1>3 DEF MainNodeStep, Shutdown, OnUplink, SpinOnceReturns, TickState, TickLogin, TickSend,
              TickRecv, ConnTypeOK
<1> QED
  BY <1>1, <1>2, <1>3 DEF MainClientStep

LEMMA DataOther ==
  ASSUME TypeOK, Environment \/ TimeElapses \/ Terminated \/ UNCHANGED vars
  PROVE  ClientTypeOK' /\ ConnTypeOK'
<1>1. ClientTypeOK'
  BY OtherSteps DEF TypeOK, ClientTypeOK, clientVars
<1>2. ASSUME NEW f \in Fds,
             \/ PeerFin(f) \/ PeerReset(f) \/ LineNoise(f)
             \/ ServerAcceptsLogin(f) \/ ServerRefusesLogin(f) \/ ServerSends(f)
      PROVE  ConnTypeOK'
  <2>1. conn[f] \in Conns
    BY DEF TypeOK, ConnTypeOK
  <2>2. CASE PeerFin(f)
    <3>1. [conn[f] EXCEPT !.peer = "fin"] \in Conns
      BY <2>1 DEF Conns, Peers
    <3> QED
      BY <2>2, <3>1, ConnUpdate DEF PeerFin, TypeOK
  <2>4. CASE PeerReset(f)
    <3>1. [conn[f] EXCEPT !.peer = "reset", !.rx = <<>>] \in Conns
      BY <2>1, NoFrames DEF Conns, Peers
    <3>2. conn' = [conn EXCEPT ![f] = [conn[f] EXCEPT !.peer = "reset", !.rx = <<>>]]
      BY <2>4 DEF PeerReset, TypeOK, ConnTypeOK
    <3> QED
      BY <3>1, <3>2, ConnUpdate DEF TypeOK
  <2>3. ASSUME NEW fr, NEW srv \in {"asked", "ok", "no"}, Deliver(f, fr, srv)
        PROVE  ConnTypeOK'
    <3>1. Append(conn[f].rx, fr) \in Seq(InFrames)
      BY <2>1, <2>3, AppendProperties DEF Deliver, Conns
    <3>2. [conn[f] EXCEPT !.rx = Append(conn[f].rx, fr), !.srv = srv] \in Conns
      BY <2>1, <3>1 DEF Conns
    <3>3. conn' = [conn EXCEPT ![f] = [conn[f] EXCEPT !.rx = Append(conn[f].rx, fr), !.srv = srv]]
      BY <2>3 DEF Deliver
    <3> QED
      BY <3>2, <3>3, ConnUpdate DEF TypeOK
  <2> QED
    BY <1>2, <2>2, <2>3, <2>4 DEF LineNoise, ServerAcceptsLogin, ServerRefusesLogin, ServerSends
<1>3. CASE Environment
  BY <1>1, <1>2, <1>3 DEF Environment
<1>4. CASE TimeElapses \/ Terminated \/ UNCHANGED vars
  BY <1>1, <1>4 DEF TimeElapses, LoginTimeElapses, HbTimeoutElapses, Terminated, vars, tcpVars,
                    TypeOK, ConnTypeOK
<1> QED
  BY <1>3, <1>4

LEMMA NodeTypes ==
  ASSUME TypeOK, [Next]_vars
  PROVE  NodeTypeOK'
<1> USE DEF TypeOK, NodeTypeOK, Ages, nodeVars
<1>1. ASSUME NEW t \in Threads, ThreadStep(t) PROVE NodeTypeOK'
  BY <1>1 DEF ThreadStep, SendStep, SendCheck, SendLock, SendAll, SendPartial, SendWouldBlock,
              SendError, SendDone, SendPop, SendTrim, SendClose, SendUnset, SendUnlock,
              NotifyState, CallbackStep, OnConnected, OnDisconnected, OnConnecting
<1>2. CASE IoClientStep /\ UNCHANGED nodeVars
  BY <1>2 DEF IoClientStep, IoLoop, Socket, ConnectOk, ConnectLateError, ConnectReturns,
              ConnectFails, IoClose, IoUnset, ReconnectSleep, ClearRecvBuf, Receive,
              ReceiveNothing, ReceiveEnds, ParseStops, AfterReceive
<1>3. CASE IoNodeStep
  BY <1>3 DEF IoNodeStep, LoginSent, HandleLoginOk, LoginTimes, HandleIgnored, HandleHeartbeat,
              HbAnswered, HandleHeartbeatResponse, HandleJsonBusiness, TakeFrame
<1>4. CASE MainClientStep /\ UNCHANGED nodeVars
  BY <1>4 DEF MainClientStep, StopRunning, JoinIo, StopClose, Start, ClientTypeOK
<1>5. CASE MainNodeStep \/ Shutdown
  BY <1>5 DEF MainNodeStep, Shutdown, OnUplink, SpinOnceReturns, TickState, TickLogin, TickSend,
              TickRecv
<1>6. CASE Environment \/ TimeElapses \/ Terminated \/ UNCHANGED vars
  BY <1>6, OtherSteps DEF Environment, TimeElapses, LoginTimeElapses, HbTimeoutElapses,
              Terminated, vars
<1> QED
  BY <1>1, <1>2, <1>3, <1>4, <1>5, <1>6 DEF Next, IoStep, MainStep, Threads
-----------------------------------------------------------------------------
(* The inductive invariant and what follows from it.                       *)

LEMMA InitInv == Init => IInv
<1> SUFFICES ASSUME Init PROVE IInv
  OBVIOUS
<1>1. ControlInv
  BY ControlInit
<1>2. ClientTypeOK
  BY NoFrames, EmptySeq DEF Init, TcpInit, ClientTypeOK, States
<1>3. ConnTypeOK
  BY ClosedIsConn DEF Init, TcpInit, ConnTypeOK
<1>4. NodeTypeOK
  BY DEF Init, TcpInit, NodeTypeOK, Ages
<1>5. StopInv
  BY DEF Init, TcpInit, StopInv, Reporting, NotifyLabels, Threads
<1> QED
  BY <1>1, <1>2, <1>3, <1>4, <1>5 DEF IInv, TypeOK, ControlInv

LEMMA NextInv ==
  ASSUME IInv, [Next]_vars
  PROVE  IInv'
<1> USE DEF IInv
<1>1. ControlInv' /\ StopInv'
  BY ControlNext, StopNext
<1>2. ClientTypeOK' /\ ConnTypeOK'
  <2>1. ASSUME NEW t \in Threads, ThreadStep(t) PROVE ClientTypeOK' /\ ConnTypeOK'
    BY <2>1, DataSend, DataNotify DEF ThreadStep
  <2> QED
    BY <2>1, DataIo, DataMain, DataOther DEF Next, IoStep, MainStep, Threads
<1>3. NodeTypeOK'
  BY NodeTypes
<1> QED
  BY <1>1, <1>2, <1>3 DEF TypeOK, ControlInv

LEMMA Invariance == Spec => []IInv
  BY InitInv, NextInv, PTL DEF Spec

(* All variables keep their types, and no call of send() or notifyState()  *)
(* returns to a place it was not made from.                                *)
THEOREM TypeCorrect == Spec => []TypeOK
<1>1. IInv => TypeOK
  BY DEF IInv
<1> QED
  BY <1>1, Invariance, PTL

(* sendMutex_ is held by exactly the thread inside the locked part of      *)
(* send(), so at most one thread is, on every path out of it.              *)
THEOREM MutualExclusion == Spec => []MutexSafe
<1>1. IInv => MutexSafe
  BY DEF IInv, ControlInv
<1> QED
  BY <1>1, Invariance, PTL

(* When stop() has returned the io thread is dead, the descriptor unset,   *)
(* the loss of the connection reported and the lock free.                  *)
THEOREM StopIsClean == Spec => []StopQuiesces
<1>1. IInv => StopQuiesces
  <2> SUFFICES ASSUME IInv, pc["main"] \in {"start", "done"}
               PROVE  /\ pc["io"] = "dead" /\ sockFd = NoFd /\ state = "DISCONNECTED"
                      /\ sendMutex = NoThread
    BY DEF StopQuiesces
  <2>1. pc["io"] = "dead" /\ sockFd = NoFd /\ state = "DISCONNECTED"
    BY DEF IInv, StopInv
  <2>2. ~InCritical("io") /\ ~InCritical("main")
    BY <2>1 DEF InCritical, NotifyLabels
  <2>3. sendMutex # "io" /\ sendMutex # "main"
    BY <2>2 DEF IInv, ControlInv, MutexSafe, Holder, Threads
  <2> QED
    BY <2>1, <2>3 DEF IInv, ControlInv, ControlTypeOK, Threads
<1> QED
  BY <1>1, Invariance, PTL
-----------------------------------------------------------------------------
(* Who waits for whom: for sendMutex_ in send(), for the io thread's end   *)
(* in stop().                                                              *)
Waits(t, u) ==
    \/ pc[t] = "lock" /\ sendMutex = u
    \/ t = "main" /\ u = "io" /\ pc["main"] = "join" /\ pc["io"] # "dead"

NoCircularWait ==
    \A t, u \in Threads : Waits(t, u) => t # u /\ ~Waits(u, t)

(* A thread in its critical section waits for nothing.                     *)
LEMMA HolderGoesOn ==
  ASSUME MutexSafe, NEW t \in Threads, NEW u, Waits(t, u)
  PROVE  sendMutex # t
<1>1. pc[t] \in {"lock", "join"}
  BY DEF Waits
<1>2. ~InCritical(t)
  BY <1>1 DEF InCritical, NotifyLabels
<1> QED
  BY <1>2 DEF MutexSafe, Holder

(* The two threads never wait for each other, nor one for itself: send()   *)
(* called again from the callback it makes under sendMutex_, or stop()     *)
(* joining with the lock held, would be such a wait.                       *)
THEOREM NobodyWaitsInACircle == Spec => []NoCircularWait
<1>1. IInv => NoCircularWait
  <2> SUFFICES ASSUME MutexSafe, NEW t \in Threads, NEW u \in Threads, Waits(t, u)
               PROVE  t # u /\ ~Waits(u, t)
    BY DEF NoCircularWait, IInv, ControlInv
  <2>1. sendMutex # t
    BY HolderGoesOn
  <2>2. CASE pc[t] = "lock" /\ sendMutex = u
    <3>1. ~Waits(u, t)
      BY <2>2, HolderGoesOn
    <3> QED
      BY <2>1, <2>2, <3>1
  <2>3. CASE t = "main" /\ u = "io"
    BY <2>1, <2>3 DEF Waits
  <2> QED
    BY <2>2, <2>3 DEF Waits
<1> QED
  BY <1>1, Invariance, PTL
-----------------------------------------------------------------------------
(* A login acceptance and the connection it came on.                       *)

(* Frames among which no login acceptance is.                              *)
NoAcceptance == Seq(InFrames \ {"loginOk"})

(* The io thread has a new connection, and recvBuf_ may still hold frames  *)
(* of the one before: from ConnectOk to ClearRecvBuf, through the call of  *)
(* the state callback and the login that it sends.                         *)
BeforeClear ==
    \/ pc["io"] \in {"loginSent", "clear"}
    \/ pc["io"] \in SendLabels \cup NotifyLabels /\ local["io"].sendRet = "loginSent"
    \/ pc["io"] \in NotifyLabels /\ local["io"].notifyRet = "clear"

Accounted(cn) == cn.srv = "ok" \/ cn.rx \in NoAcceptance

AnswerInv ==
    /\ \A f \in Fds : Accounted(conn[f])
    /\ ~BeforeClear /\ PeerOf(sockFd) = "up" =>
          conn[sockFd].srv = "ok" \/ recvBuf \in NoAcceptance

(* What a step that reads nothing may do to a connection: no acceptance    *)
(* comes unaccounted for, and an accepted one is not forgotten while up.   *)
KeepsAnswer(cn, next) ==
    /\ Accounted(next)
    /\ next.peer = "up" => cn.peer = "up" /\ (cn.srv = "ok" => next.srv = "ok")

LEMMA AnswerFrame ==
  ASSUME AnswerInv, UNCHANGED recvBuf, BeforeClear => BeforeClear',
         sockFd' \in Fds => sockFd' = sockFd \/ conn'[sockFd'].peer # "up",
         \A f \in Fds : conn'[f] = conn[f] \/ KeepsAnswer(conn[f], conn'[f])
  PROVE  AnswerInv'
<1>1. \A f \in Fds : KeepsAnswer(conn[f], conn'[f])
  BY DEF AnswerInv, KeepsAnswer
<1>2. ASSUME ~BeforeClear', PeerOf(sockFd)' = "up"
      PROVE  conn'[sockFd'].srv = "ok" \/ recvBuf' \in NoAcceptance
  <2>1. sockFd' \in Fds /\ conn'[sockFd'].peer = "up"
    BY <1>2 DEF PeerOf
  <2>2. sockFd' = sockFd
    BY <2>1
  <2> QED
    BY <1>1, <1>2, <2>1, <2>2 DEF AnswerInv, KeepsAnswer, PeerOf
<1> QED
  BY <1>1, <1>2 DEF AnswerInv, KeepsAnswer

LEMMA CloseKeepsAnswer ==
  ASSUME ConnTypeOK, NEW g, CloseFd(g)
  PROVE  \A f \in Fds : conn'[f] = conn[f] \/ KeepsAnswer(conn[f], conn'[f])
<1>1. <<>> \in NoAcceptance
  BY EmptySeq DEF NoAcceptance
<1> QED
  BY <1>1 DEF CloseFd, ConnTypeOK, ClosedConn, KeepsAnswer, Accounted

(* A call moves the thread that makes it.                                  *)
LEMMA OtherThread ==
  ASSUME ControlTypeOK, NEW t \in Threads, SendStep(t) \/ NotifyState(t) \/ CallbackStep(t)
  PROVE  \A u \in Threads \ {t} : pc'[u] = pc[u] /\ local'[u] = local[u]
  BY DEF SendStep, SendCheck, SendLock, SendAll, SendPartial, SendWouldBlock,
         SendError, SendDone, SendPop, SendTrim, SendClose, SendUnset, SendUnlock,
         NotifyState, CallbackStep, OnConnected, OnDisconnected, OnConnecting,
         Goto, ReturnSend, CallNotify, ReturnNotify, ControlTypeOK

(* A call that the state callback made returns to before ClearRecvBuf.     *)
LEMMA BeforeClearStays ==
  ASSUME ControlInv, BeforeClear, NEW t \in Threads, ThreadStep(t)
  PROVE  BeforeClear'
<1> USE DEF ControlInv, ControlTypeOK, OwnLabels, CallOK, BeforeClear, SendLabels, NotifyLabels,
            Threads, SendReturns, NotifyReturns, InSend
<1>1. CASE t = "main"
  BY <1>1, OtherThread DEF ThreadStep
<1>2. CASE t = "io" /\ SendStep(t)
  <2>1. CASE SendCheck(t) \/ SendWouldBlock(t) \/ SendDone(t) \/ SendTrim(t) \/ SendUnlock(t)
    <3>1. ReturnSend("io") \/ (Goto("io", "lock") /\ UNCHANGED local)
      BY <1>2, <2>1 DEF SendCheck, SendWouldBlock, SendDone, SendTrim, SendUnlock
    <3>2. pc["io"] \in SendLabels
      BY <1>2, <2>1 DEF SendCheck, SendWouldBlock, SendDone, SendTrim, SendUnlock
    <3> QED
      BY <3>1, <3>2 DEF ReturnSend, Goto
  <2>2. CASE SendLock(t) \/ SendAll(t) \/ SendPartial(t) \/ SendError(t) \/ SendPop(t) \/ SendClose(t)
    BY <1>2, <2>2 DEF SendLock, SendAll, SendPartial, SendError, SendPop, SendClose, Goto
  <2>3. CASE SendUnset(t)
    BY <1>2, <2>3 DEF SendUnset, CallNotify, Goto
  <2> QED
    BY <1>2, <2>1, <2>2, <2>3 DEF SendStep
<1>3. CASE t = "io" /\ NotifyState(t)
  BY <1>3 DEF NotifyState, Goto, ReturnNotify
<1>4. CASE t = "io" /\ OnConnected(t)
  <2>1. pc' = [pc EXCEPT !["io"] = "send"]
    BY <1>4 DEF OnConnected, Goto
  <2>2. local' = [local EXCEPT !["io"] = [NoCall EXCEPT !.data = "login", !.sendRet = "loginSent"]]
    BY <1>4 DEF OnConnected
  <2> QED
    BY <2>1, <2>2 DEF NoCall
<1>5. CASE t = "io" /\ (OnDisconnected(t) \/ OnConnecting(t))
  BY <1>5 DEF OnDisconnected, OnConnecting, Goto, ReturnNotify
<1> QED
  BY <1>1, <1>2, <1>3, <1>4, <1>5 DEF ThreadStep, CallbackStep

LEMMA AnswerThread ==
  ASSUME AnswerInv, TypeOK, ControlInv, NEW t \in Threads, ThreadStep(t)
  PROVE  AnswerInv'
<1> USE DEF clientVars, TypeOK
<1>1. UNCHANGED recvBuf /\ sockFd' \in {sockFd, NoFd}
  BY DEF ThreadStep, SendStep, SendCheck, SendLock, SendAll, SendPartial, SendWouldBlock,
         SendError, SendDone, SendPop, SendTrim, SendClose, SendUnset, SendUnlock,
         NotifyState, CallbackStep, OnConnected, OnDisconnected, OnConnecting
<1>2. NoFd \notin Fds
  BY FdsAssumption, SMT DEF NoFd
<1>3. \A f \in Fds : conn'[f] = conn[f] \/ KeepsAnswer(conn[f], conn'[f])
  <2>1. CASE SendAll(t) \/ SendPartial(t)
    <3>1. PICK all \in BOOLEAN :
            conn' = [conn EXCEPT ![sockFd] = Written(conn[sockFd], Head(sendQueue), all)]
      BY <2>1 DEF SendAll, SendPartial
    <3>2. ASSUME NEW f \in Fds PROVE conn'[f] = conn[f] \/ KeepsAnswer(conn[f], conn'[f])
      <4>1. conn[f] \in Conns /\ Accounted(conn[f])
        BY DEF ConnTypeOK, AnswerInv
      <4>2. conn'[f] = IF f = sockFd THEN Written(conn[f], Head(sendQueue), all) ELSE conn[f]
        BY <3>1 DEF ConnTypeOK
      <4> QED
        BY <4>1, <4>2 DEF Written, KeepsAnswer, Accounted, Conns
    <3> QED
      BY <3>2
  <2>2. CASE SendClose(t)
    BY <2>2, CloseKeepsAnswer DEF SendClose
  <2>3. CASE UNCHANGED conn
    BY <2>3
  <2> QED
    BY <2>1, <2>2, <2>3
    DEF ThreadStep, SendStep, SendCheck, SendLock, SendWouldBlock, SendError, SendDone, SendPop,
        SendTrim, SendUnset, SendUnlock, NotifyState, CallbackStep, OnConnected, OnDisconnected,
        OnConnecting
<1> QED
  BY <1>1, <1>2, <1>3, AnswerFrame, BeforeClearStays

LEMMA AnswerIo ==
  ASSUME AnswerInv, TypeOK, ControlInv, IoClientStep \/ IoNodeStep
  PROVE  AnswerInv'
<1> USE DEF clientVars, TypeOK, ControlInv, ControlTypeOK, Goto, Threads
<1>1. NoFd \notin Fds
  BY FdsAssumption, SMT DEF NoFd
<1>2. CASE IoLoop \/ ConnectFails \/ ReconnectSleep \/ ReceiveNothing \/ ReceiveEnds
           \/ AfterReceive \/ LoginSent \/ LoginTimes \/ HbAnswered
  <2>1. UNCHANGED <<recvBuf, sockFd, conn>>
    BY <1>2 DEF IoLoop, ConnectFails, ReconnectSleep, ReceiveNothing, ReceiveEnds, AfterReceive,
                LoginSent, LoginTimes, HbAnswered
  <2>2. BeforeClear => BeforeClear'
    BY <1>2 DEF IoLoop, ConnectFails, ReconnectSleep, ReceiveNothing, ReceiveEnds, AfterReceive,
                LoginSent, LoginTimes, HbAnswered, BeforeClear, SendLabels, NotifyLabels
  <2> QED
    BY <2>1, <2>2, AnswerFrame
<1>3. CASE Socket
  <2>1. UNCHANGED recvBuf /\ (BeforeClear => BeforeClear')
    BY <1>3 DEF Socket, BeforeClear, SendLabels, NotifyLabels
  <2>2. /\ sockFd' \in Fds => conn'[sockFd'].peer # "up"
        /\ \A f \in Fds : conn'[f] = conn[f] \/ KeepsAnswer(conn[f], conn'[f])
    <3>1. CASE sockFd' = NoFd /\ UNCHANGED conn
      BY <1>1, <3>1
    <3>2. ASSUME NEW f \in Fds, sockFd' = f, conn' = [conn EXCEPT ![f].peer = "new"]
          PROVE  /\ sockFd' \in Fds => conn'[sockFd'].peer # "up"
                 /\ \A g \in Fds : conn'[g] = conn[g] \/ KeepsAnswer(conn[g], conn'[g])
      <4>1. conn[f] \in Conns /\ conn'[f].peer = "new" /\ \A g \in Fds \ {f} : conn'[g] = conn[g]
        BY <3>2 DEF ConnTypeOK, Conns
      <4>2. conn'[f].srv = conn[f].srv /\ conn'[f].rx = conn[f].rx
        BY <3>2 DEF ConnTypeOK, Conns
      <4> QED
        BY <3>2, <4>1, <4>2 DEF KeepsAnswer, AnswerInv, Accounted
    <3> QED
      BY <1>3, <3>1, <3>2 DEF Socket
  <2> QED
    BY <2>1, <2>2, AnswerFrame
<1>4. ASSUME NEW peer, ConnectReturns(peer) PROVE AnswerInv'
  <2>1. BeforeClear'
    BY <1>4 DEF ConnectReturns, CallNotify, BeforeClear, NotifyLabels
  <2>2. \A f \in Fds : conn'[f].srv = conn[f].srv /\ conn'[f].rx = conn[f].rx
    BY <1>4 DEF ConnectReturns, ConnTypeOK, Conns
  <2> QED
    BY <2>1, <2>2 DEF AnswerInv, Accounted
<1>5. CASE IoClose
  <2>1. UNCHANGED <<recvBuf, sockFd>> /\ (BeforeClear => BeforeClear')
    BY <1>5 DEF IoClose, BeforeClear, SendLabels, NotifyLabels
  <2> QED
    BY <1>5, <2>1, CloseKeepsAnswer, AnswerFrame DEF IoClose
<1>6. CASE IoUnset
  BY <1>1, <1>6, AnswerFrame DEF IoUnset, BeforeClear, SendLabels, NotifyLabels
<1>7. CASE ClearRecvBuf
  <2>1. recvBuf' \in NoAcceptance
    BY <1>7, EmptySeq DEF ClearRecvBuf, NoAcceptance
  <2> QED
    BY <1>7, <2>1 DEF ClearRecvBuf, AnswerInv
<1>8. CASE Receive
  <2>1. /\ sockFd \in Fds /\ sockFd' = sockFd /\ ~BeforeClear
        /\ recvBuf' = recvBuf \o conn[sockFd].rx
        /\ conn' = [conn EXCEPT ![sockFd].rx = <<>>]
    BY <1>8 DEF Receive, PeerOf, BeforeClear, SendLabels, NotifyLabels
  <2>2. <<>> \in NoAcceptance
    BY EmptySeq DEF NoAcceptance
  <2>3. \A f \in Fds : Accounted(conn'[f])
    BY <2>1, <2>2 DEF AnswerInv, Accounted, ConnTypeOK, Conns
  <2>4. conn'[sockFd].peer = conn[sockFd].peer /\ conn'[sockFd].srv = conn[sockFd].srv
    BY <2>1 DEF ConnTypeOK, Conns
  <2>5. recvBuf \in NoAcceptance /\ conn[sockFd].rx \in NoAcceptance => recvBuf' \in NoAcceptance
    BY <2>1, ConcatProperties DEF NoAcceptance
  <2> QED
    BY <2>1, <2>3, <2>4, <2>5 DEF AnswerInv, Accounted, PeerOf
<1>9. CASE ParseStops \/ HandleLoginOk \/ HandleIgnored \/ HandleHeartbeat
           \/ HandleHeartbeatResponse \/ HandleJsonBusiness
  <2>1. UNCHANGED <<sockFd, conn>> /\ ~BeforeClear
    BY <1>9 DEF ParseStops, HandleLoginOk, HandleIgnored, HandleHeartbeat,
                HandleHeartbeatResponse, HandleJsonBusiness, TakeFrame, BeforeClear, SendLabels,
                NotifyLabels
  <2>2. recvBuf' = recvBuf \/ (recvBuf # <<>> /\ recvBuf' = Tail(recvBuf))
    BY <1>9 DEF ParseStops, HandleLoginOk, HandleIgnored, HandleHeartbeat,
                HandleHeartbeatResponse, HandleJsonBusiness, TakeFrame
  <2>3. recvBuf \in NoAcceptance => recvBuf' \in NoAcceptance
    BY <2>2, HeadTailProperties, SMTT(40) DEF NoAcceptance
  <2> QED
    BY <2>1, <2>3 DEF AnswerInv, PeerOf
<1> QED
  BY <1>2, <1>3, <1>4, <1>5, <1>6, <1>7, <1>8, <1>9
  DEF IoClientStep, IoNodeStep, ConnectOk, ConnectLateError

LEMMA AnswerMain ==
  ASSUME AnswerInv, TypeOK, ControlInv, StopInv, MainClientStep \/ MainNodeStep \/ Shutdown
  PROVE  AnswerInv'
<1> USE DEF clientVars, TypeOK, ControlInv, ControlTypeOK, Goto, Threads, CallSend, CallNotify
<1>1. UNCHANGED recvBuf
  BY DEF MainClientStep, StopRunning, JoinIo, StopClose, Start, MainNodeStep, Shutdown, OnUplink,
         SpinOnceReturns, TickState, TickLogin, TickSend, TickRecv
<1>2. NoFd \notin Fds
  BY FdsAssumption, SMT DEF NoFd
<1>3. BeforeClear => BeforeClear'
  <2>1. CASE Start
    BY <2>1 DEF Start, StopInv, BeforeClear, SendLabels, NotifyLabels
  <2>2. CASE StopRunning \/ JoinIo \/ StopClose(AfterStop)
    BY <2>2 DEF StopRunning, JoinIo, StopClose, BeforeClear
  <2>3. CASE MainNodeStep \/ Shutdown
    BY <2>3 DEF MainNodeStep, Shutdown, OnUplink, SpinOnceReturns, TickState, TickLogin, TickSend,
                TickRecv, BeforeClear
  <2> QED
    BY <2>1, <2>2, <2>3 DEF MainClientStep
<1>4. CASE StopClose(AfterStop)
  BY <1>1, <1>2, <1>3, <1>4, CloseKeepsAnswer, AnswerFrame DEF StopClose
<1>5. CASE UNCHANGED <<sockFd, conn>>
  BY <1>1, <1>3, <1>5, AnswerFrame
<1> QED
  BY <1>4, <1>5
  DEF MainClientStep, StopRunning, JoinIo, Start, MainNodeStep, Shutdown, OnUplink,
      SpinOnceReturns, TickState, TickLogin, TickSend, TickRecv

LEMMA AnswerOther ==
  ASSUME AnswerInv, TypeOK, Environment \/ TimeElapses \/ Terminated \/ UNCHANGED vars
  PROVE  AnswerInv'
<1>1. UNCHANGED <<pc, local, recvBuf, sockFd>> /\ (BeforeClear => BeforeClear')
  BY OtherSteps DEF clientVars, BeforeClear
<1>2. ASSUME NEW f \in Fds,
             \/ PeerFin(f) \/ PeerReset(f) \/ LineNoise(f)
             \/ ServerAcceptsLogin(f) \/ ServerRefusesLogin(f) \/ ServerSends(f)
      PROVE  AnswerInv'
  <2>1. conn[f] \in Conns /\ conn \in [Fds -> Conns] /\ Accounted(conn[f])
    BY DEF TypeOK, ConnTypeOK, AnswerInv
  <2>2. \A g \in Fds \ {f} : conn'[g] = conn[g]
    <3>1. CASE PeerFin(f) \/ PeerReset(f)
      BY <2>1, <3>1 DEF PeerFin, PeerReset
    <3>2. ASSUME NEW fr, NEW srv, Deliver(f, fr, srv) PROVE \A g \in Fds \ {f} : conn'[g] = conn[g]
      BY <2>1, <3>2 DEF Deliver
    <3> QED
      BY <1>2, <3>1, <3>2 DEF LineNoise, ServerAcceptsLogin, ServerRefusesLogin, ServerSends
  <2>3. CASE PeerFin(f) \/ PeerReset(f)
    <3>1. <<>> \in NoAcceptance
      BY EmptySeq DEF NoAcceptance
    <3>2. KeepsAnswer(conn[f], conn'[f])
      BY <2>1, <2>3, <3>1 DEF PeerFin, PeerReset, KeepsAnswer, Accounted, Conns
    <3> QED
      BY <1>1, <2>2, <3>2, AnswerFrame
  <2>4. ASSUME NEW fr, NEW srv, Deliver(f, fr, srv), conn[f].srv = "ok" => srv = "ok",
               srv = "ok" \/ fr # "loginOk"
        PROVE  AnswerInv'
    <3>1. /\ conn'[f].srv = srv /\ conn'[f].peer = conn[f].peer /\ conn[f].peer = "up"
          /\ conn'[f].rx = Append(conn[f].rx, fr) /\ fr \in InFrames
      BY <2>1, <2>4 DEF Deliver, Conns
    <3>2. fr # "loginOk" /\ conn[f].rx \in NoAcceptance => conn'[f].rx \in NoAcceptance
      BY <3>1, AppendProperties DEF NoAcceptance
    <3>3. KeepsAnswer(conn[f], conn'[f])
      BY <2>1, <2>4, <3>1, <3>2 DEF KeepsAnswer, Accounted
    <3> QED
      BY <1>1, <2>2, <3>3, AnswerFrame
  <2> QED
    BY <1>2, <2>3, <2>4 DEF LineNoise, ServerAcceptsLogin, ServerRefusesLogin, ServerSends
<1>3. CASE UNCHANGED conn
  BY <1>1, <1>3, AnswerFrame
<1> QED
  BY <1>2, <1>3 DEF Environment, TimeElapses, LoginTimeElapses, HbTimeoutElapses, Terminated, vars,
                    tcpVars

LEMMA AnswerNext ==
  ASSUME AnswerInv, IInv, [Next]_vars
  PROVE  AnswerInv'
<1> USE DEF IInv
<1>1. ASSUME NEW t \in Threads, ThreadStep(t) PROVE AnswerInv'
  BY <1>1, AnswerThread
<1> QED
  BY <1>1, AnswerIo, AnswerMain, AnswerOther DEF Next, IoStep, MainStep, Threads

(* However frames are left over in recvBuf_ when a connection ends, and    *)
(* whatever the main thread does to the descriptor meanwhile: a login      *)
(* acceptance is handled only on the connection it came on.                *)
THEOREM AcceptanceIsOurs == Spec => []LoginAnswerIsOurs
<1>1. Init => AnswerInv
  <2>1. <<>> \in NoAcceptance
    BY EmptySeq DEF NoAcceptance
  <2> QED
    BY <2>1 DEF Init, TcpInit, ClosedConn, AnswerInv, Accounted
<1>2. AnswerInv /\ IInv => LoginAnswerIsOurs
  <2> SUFFICES ASSUME AnswerInv, IInv, pc["io"] = "parse", recvBuf # <<>>, PeerOf(sockFd) = "up",
                      Head(recvBuf) = "loginOk"
               PROVE  conn[sockFd].srv = "ok"
    BY DEF LoginAnswerIsOurs
  <2>1. recvBuf \notin NoAcceptance
    BY HeadTailProperties DEF NoAcceptance
  <2> QED
    BY <2>1 DEF AnswerInv, BeforeClear, SendLabels, NotifyLabels
<1>3. AnswerInv /\ IInv /\ [Next]_vars => AnswerInv'
  BY AnswerNext
<1> QED
  BY <1>1, <1>2, <1>3, Invariance, PTL DEF Spec
=============================================================================
