----------------------- MODULE BusinessRouting_proofs -----------------------
(***************************************************************************)
(* Theorems about the nodes together, for all worlds, commands, paths and  *)
(* queue sizes.  The CAN bridge and the path bridge behave in the whole as *)
(* their own specifications say, so that what is proved of them alone      *)
(* holds there too.                                                        *)
(***************************************************************************)
EXTENDS BusinessRouting, CanBridgeNode_proofs, SequenceTheorems

(* The path bridge alone, for all paths and every threshold.               *)

(* A path is within the threshold of itself.                               *)
LEMMA NotMovedFromItself ==
  ASSUME NEW p \in Paths, p # <<>>
  PROVE  ~Moved(p, p)
<1>1. /\ p \in Seq(Int \X Int) /\ Len(p) \in Nat \ {0} /\ Threshold \in Int
      /\ \A i \in 1..Len(p) : p[i] \in Int \X Int
  BY PathAssumption, SMT
<1>2. \A i \in KeyPoints(Len(p)) : i \in 1..Len(p)
  BY <1>1, SMT DEF KeyPoints
<1>3. ASSUME NEW i \in 1..Len(p) PROVE ~(SqDist(p[i], p[i]) > Threshold * Threshold)
  <2>1. p[i][1] \in Int /\ p[i][2] \in Int
    BY <1>1
  <2>2. SqDist(p[i], p[i]) = 0
    BY <2>1, SMT DEF SqDist
  <2>3. Threshold * Threshold >= 0
    BY <1>1, SMT
  <2>4. Threshold * Threshold \in Int
    BY <1>1, SMT
  <2> QED
    BY <2>2, <2>3, <2>4, SMT
<1> QED
  BY <1>2, <1>3 DEF Moved

(* The path compared with is the one passed on, and both are there once a  *)
(* path was heard.                                                         *)
PathInv == NoDrift /\ lastPath = pathOut /\ (pathHeard # <<>> => pathOut # <<>>)

LEMMA PathInvStep == PathInv /\ [PathNext]_pathVars => PathInv'
<1> SUFFICES ASSUME PathInv, [PathNext]_pathVars PROVE PathInv'
  OBVIOUS
<1>1. ASSUME NEW path \in Paths, OnPath(path) PROVE PathInv'
  <2>1. CASE IsPathChanged(path)
    BY <1>1, <2>1, NotMovedFromItself DEF OnPath, PathInv, NoDrift
  <2>2. CASE ~IsPathChanged(path)
    BY <1>1, <2>2 DEF OnPath, PathInv, NoDrift, IsPathChanged
  <2> QED
    BY <2>1, <2>2
<1>2. CASE UNCHANGED pathVars
  BY <1>2 DEF pathVars, PathInv, NoDrift
<1> QED
  BY <1>1, <1>2 DEF PathNext

(* The path bridge never falls behind the planner: what it passed on last  *)
(* is as long as the path it heard and within the threshold of it.         *)
THEOREM PathsDoNotDrift == PathSpec => []NoDrift
<1>1. PathInit => PathInv
  BY DEF PathInit, PathInv, NoDrift
<1>2. PathInv => NoDrift
  BY DEF PathInv
<1> QED
  BY <1>1, <1>2, PathInvStep, PTL DEF PathSpec
-----------------------------------------------------------------------------
(* The newest message of a queue.                                          *)
Newest(q) == q[Len(q)]

(* Taking the first message leaves the newest, unless it was the only one. *)
LEMMA TakeFirst ==
  ASSUME NEW S, NEW q \in Seq(S), q # <<>>
  PROVE  /\ Head(q) \in S /\ Tail(q) \in Seq(S) /\ Len(Tail(q)) = Len(q) - 1
         /\ Tail(q) = <<>> => Newest(q) = Head(q)
         /\ Tail(q) # <<>> => Newest(Tail(q)) = Newest(q)
<1>1. Len(q) \in Nat \ {0}
  BY EmptySeq, LenProperties
<1>2. Head(q) \in S /\ Tail(q) \in Seq(S) /\ Len(Tail(q)) = Len(q) - 1
      /\ \A i \in 1..Len(Tail(q)) : Tail(q)[i] = q[i + 1]
  BY HeadTailProperties
<1>3. CASE Tail(q) = <<>>
  <2>0. Len(q) - 1 = 0
    BY <1>2, <1>3, EmptySeq, Zenon
  <2>1. Len(q) = 1
    BY <1>1, <2>0, SMT
  <2> QED
    BY <1>2, <1>3, <2>1 DEF Newest
<1>4. CASE Tail(q) # <<>>
  <2>1. Len(Tail(q)) # 0
    BY <1>2, <1>4, EmptySeq
  <2>2. Len(Tail(q)) \in 1..Len(Tail(q)) /\ Len(Tail(q)) + 1 = Len(q)
    BY <1>1, <1>2, <2>1, SMT
  <2>3. Tail(q)[Len(Tail(q))] = q[Len(Tail(q)) + 1]
    BY <1>2, <2>2
  <2> QED
    BY <1>2, <1>4, <2>2, <2>3 DEF Newest
<1> QED
  BY <1>3, <1>4

(* A full queue makes room, and the message put in is the newest.          *)
LEMMA PutLast ==
  ASSUME NEW S, NEW q \in Seq(S), NEW m \in S, Len(q) <= QueueSize
  PROVE  LET r == Append(IF Len(q) < QueueSize THEN q ELSE Tail(q), m)
         IN  r \in Seq(S) /\ Len(r) <= QueueSize /\ r # <<>> /\ Newest(r) = m
<1> DEFINE p == IF Len(q) < QueueSize THEN q ELSE Tail(q)
<1>0. QueueSize \in Nat \ {0} /\ Len(q) \in Nat
  BY RoutingAssumption, LenProperties
<1>1. p \in Seq(S) /\ Len(p) < QueueSize /\ Len(p) \in Nat
  <2>1. CASE Len(q) < QueueSize
    BY <1>0, <2>1
  <2>2. CASE ~(Len(q) < QueueSize)
    <3>1. q # <<>>
      BY <1>0, <2>2, EmptySeq, SMT
    <3> QED
      BY <1>0, <2>2, <3>1, TakeFirst, LenProperties, SMT
  <2> QED
    BY <2>1, <2>2
<1> HIDE DEF p
<1>2. /\ Append(p, m) \in Seq(S) /\ Len(Append(p, m)) = Len(p) + 1
      /\ Append(p, m)[Len(p) + 1] = m
  BY <1>1, AppendProperties
<1>3. Len(Append(p, m)) <= QueueSize /\ Len(Append(p, m)) # 0
  BY <1>0, <1>1, <1>2, SMT
<1>4. Append(p, m) # <<>>
  BY <1>3, EmptySeq
<1> QED
  BY <1>2, <1>3, <1>4 DEF Newest, p
-----------------------------------------------------------------------------
(* Queues.                                                                 *)

(* Publishing on a topic changes its queue only, and keeps the types.      *)
LEMMA EnqueueStep ==
  ASSUME QueuesOK, NEW t \in Topics, NEW m \in Messages(t), Enqueue(t, m)
  PROVE  /\ QueuesOK'
         /\ topics'[t] # <<>> /\ Newest(topics'[t]) = m
         /\ \A u \in Topics : u # t => topics'[u] = topics[u]
<1> DEFINE r == Append(IF Len(topics[t]) < QueueSize THEN topics[t] ELSE Tail(topics[t]), m)
<1>1. r \in Seq(Messages(t)) /\ Len(r) <= QueueSize /\ r # <<>> /\ Newest(r) = m
  BY PutLast DEF QueuesOK
<1>2. topics' = [topics EXCEPT ![t] = r]
  BY DEF Enqueue
<1> HIDE DEF r
<1>3. topics'[t] = r /\ \A u \in Topics : u # t => topics'[u] = topics[u]
  BY <1>2 DEF QueuesOK
<1>4. topics' = [u \in Topics |-> topics'[u]]
  BY <1>2 DEF QueuesOK
<1>5. \A u \in Topics : topics'[u] \in Seq(Messages(u)) /\ Len(topics'[u]) <= QueueSize
  BY <1>1, <1>3 DEF QueuesOK
<1>6. QueuesOK'
  BY <1>4, <1>5 DEF QueuesOK, Messages
<1> QED
  BY <1>1, <1>3, <1>6 DEF Enqueue

(* Taking from a topic likewise.                                           *)
LEMMA DequeueStep ==
  ASSUME QueuesOK, NEW t \in Topics, Dequeue(t)
  PROVE  /\ QueuesOK'
         /\ topics[t] # <<>> /\ Head(topics[t]) \in Messages(t)
         /\ topics'[t] = <<>> => Newest(topics[t]) = Head(topics[t])
         /\ topics'[t] # <<>> => Newest(topics'[t]) = Newest(topics[t])
         /\ \A u \in Topics : u # t => topics'[u] = topics[u]
<1>1. topics[t] \in Seq(Messages(t)) /\ topics[t] # <<>> /\ Len(topics[t]) <= QueueSize
  BY DEF QueuesOK, Dequeue
<1>2. topics' = [topics EXCEPT ![t] = Tail(@)]
  BY DEF Dequeue
<1>3. topics'[t] = Tail(topics[t]) /\ \A u \in Topics : u # t => topics'[u] = topics[u]
  BY <1>2 DEF QueuesOK
<1>4. /\ Head(topics[t]) \in Messages(t)
      /\ Tail(topics[t]) \in Seq(Messages(t)) /\ Len(Tail(topics[t])) = Len(topics[t]) - 1
      /\ Tail(topics[t]) = <<>> => Newest(topics[t]) = Head(topics[t])
      /\ Tail(topics[t]) # <<>> => Newest(Tail(topics[t])) = Newest(topics[t])
  BY <1>1, TakeFirst
<1>5. Len(Tail(topics[t])) <= QueueSize
  BY <1>1, <1>4, LenProperties, RoutingAssumption, SMT
<1>6. topics' = [u \in Topics |-> topics'[u]]
  BY <1>2 DEF QueuesOK
<1>7. QueuesOK'
  BY <1>3, <1>4, <1>5, <1>6 DEF QueuesOK, Messages
<1> QED
  BY <1>1, <1>3, <1>4, <1>7 DEF Dequeue
-----------------------------------------------------------------------------
(* The bridges inside.                                                     *)

(* Every callback of the CAN bridge gets a message that its own            *)
(* specification allows, so that a step of the whole is a step of it.      *)
LEMMA CanView ==
  ASSUME QueuesOK, [SystemNext]_systemVars
  PROVE  [Next]_vars
<1>1. CASE DeliverCtrlCmd
  <2> DEFINE m == Head(topics.ctrl_cmd)
  <2>1. m \in CtrlMessages
    BY <1>1, DequeueStep DEF DeliverCtrlCmd, Messages, Topics, DownTopics, Bodies
  <2>2. /\ m.ctrlCmd = LightCode => m.ctrlValue \in Lights
        /\ m.ctrlCmd = WalkCode => m.ctrlValue \in 0..4
        /\ (m.ctrlValue # 0) \in BOOLEAN
    BY <2>1 DEF CtrlMessages
  <2>3. OnCtrlCmd \/ UNCHANGED vars
    BY <1>1, <2>2 DEF DeliverCtrlCmd, OnCtrlCmd
  <2> QED
    BY <2>3 DEF Next, TopicStep
<1>2. CASE DeliverTaskCmd
  <2>1. Head(topics.task_cmd) \in TaskIds \cup {NoId}
    BY <1>2, DequeueStep DEF DeliverTaskCmd, Messages, Topics, DownTopics, Bodies
  <2> QED
    BY <1>2, <2>1 DEF DeliverTaskCmd, Next, TopicStep
<1>3. CASE DeliverTaskCtrl
  BY <1>3 DEF DeliverTaskCtrl, Next, TopicStep
<1>4. CASE CanStep
  BY <1>4 DEF CanStep, Next, TopicStep
<1>5. CASE IoStep \/ NodeCallback
  BY <1>5 DEF IoStep, ReceiveCommand, PublishCommand, AnswerCommand, NodeCallback, OnFaultAlarm,
              OnLocalPath
<1>6. CASE \/ \E path \in Planned[world] : PathStep(path)
           \/ \E path \in LocalPaths[world] : LocalPathArrives(path)
           \/ LogsIn \/ LinkFails \/ SessionEnds
  BY <1>6 DEF PathStep, LocalPathArrives, LogsIn, LinkFails, SessionEnds, SessionChange
<1>7. CASE UNCHANGED systemVars
  BY <1>7 DEF systemVars
<1> QED
  BY <1>1, <1>2, <1>3, <1>4, <1>5, <1>6, <1>7 DEF SystemNext, CanCallback

(* Only a path of the planner changes the path bridge.                     *)
LEMMA PathView ==
  ASSUME TypeOK, [SystemNext]_systemVars
  PROVE  \/ \E path \in Paths : PathStep(path)
         \/ UNCHANGED pathVars
<1>1. Planned[world] \subseteq Paths
  BY RoutingAssumption DEF TypeOK, FrameTypeOK
<1>2. CASE IoStep \/ NodeCallback \/ CanCallback
  BY <1>2 DEF IoStep, ReceiveCommand, PublishCommand, AnswerCommand, NodeCallback, OnFaultAlarm,
              OnLocalPath, CanCallback, DeliverCtrlCmd, DeliverTaskCmd, DeliverTaskCtrl
<1>3. CASE CanStep \/ LogsIn \/ LinkFails \/ SessionEnds
  BY <1>3 DEF CanStep, Uplink, LogsIn, LinkFails, SessionEnds, SessionChange
<1>4. CASE UNCHANGED systemVars
  BY <1>4 DEF systemVars
<1>5. CASE \E path \in LocalPaths[world] : LocalPathArrives(path)
  BY <1>5 DEF LocalPathArrives
<1> QED
  BY <1>1, <1>2, <1>3, <1>4, <1>5 DEF SystemNext
-----------------------------------------------------------------------------
(* Types.                                                                  *)

LEMMA ToIntType == \A n \in Int : ToInt(n) \in Int
  BY RoutingAssumption, SMT DEF ToInt

LEMMA TaskIdType == TaskIds \subseteq Int
  BY CommandsAssumption

(* The number in a command is an integer.                                  *)
LEMMA CommandTaskType ==
  ASSUME NEW c, IsCommand(c), c.topic = "task_cmd"
  PROVE  c.body \in Int
<1>1. c.body \in TaskIds \cup {NoId}
  BY DEF IsCommand, Bodies
<1>2. TaskIds \cup {NoId} \subseteq Int
  BY TaskIdType, SMT DEF NoId
<1> QED
  BY <1>1, <1>2, Zenon

LEMMA SystemInitTypes == SystemInit => TypeOK /\ SystemTypeOK
<1> SUFFICES ASSUME SystemInit PROVE TypeOK /\ SystemTypeOK
  OBVIOUS
<1>1. TypeOK
  BY InitTypes DEF SystemInit
<1>2. QueuesOK
  <2>1. topics = [t \in Topics |-> <<>>]
    BY DEF SystemInit
  <2>2. \A t \in Topics : <<>> \in Seq(Messages(t)) /\ Len(<<>>) <= QueueSize
    BY EmptySeq, RoutingAssumption, SMT
  <2> QED
    BY <2>1, <2>2 DEF QueuesOK
<1>3. NoReport \in Reports
  BY DEF NoReport, Reports
<1> QED
  <2>1. server \in [fault : Reports, path : Paths \cup {<<>>}, taskId : Int]
    BY <1>3 DEF SystemInit
  <2>2. HandlingOK
    BY DEF SystemInit, HandlingOK
  <2> QED
    BY <1>1, <1>2, <2>1, <2>2 DEF SystemInit, SystemTypeOK

(* What the bridges publish.                                               *)
LEMMA PublishTypes ==
  ASSUME SystemTypeOK, NEW t \in UpTopics, NEW m \in Messages(t), Publish(t, m)
  PROVE  QueuesOK' /\ told' \subseteq UpTopics
<1>1. t \in Topics
  BY DEF Topics
<1> QED
  BY <1>1, EnqueueStep DEF Publish, SystemTypeOK

LEMMA QuietTypes ==
  /\ QueuesOK /\ UNCHANGED topics => QueuesOK'
  /\ HandlingOK /\ UNCHANGED handling => HandlingOK'
<1>1. QueuesOK /\ UNCHANGED topics => QueuesOK'
  BY DEF QueuesOK, Messages
<1>2. HandlingOK /\ UNCHANGED handling => HandlingOK'
  BY DEF HandlingOK, IsCommand, Idle
<1> QED
  BY <1>1, <1>2

LEMMA IoTypes == SystemTypeOK /\ TypeOK /\ IoStep => SystemTypeOK'
<1> SUFFICES ASSUME SystemTypeOK, TypeOK, IoStep PROVE SystemTypeOK'
  OBVIOUS
<1>1. ASSUME NEW c \in Commands[world], ReceiveCommand(c) PROVE SystemTypeOK'
  <2>1. IsCommand(c)
    BY RoutingAssumption DEF TypeOK, FrameTypeOK
  <2>2. nodeTaskId' \in Int
    BY <1>1, <2>1, CommandTaskType, ToIntType DEF ReceiveCommand, SystemTypeOK
  <2>3. handling'.step = "publish" /\ handling'.command = c
    BY <1>1 DEF ReceiveCommand
  <2> QED
    BY <1>1, <2>1, <2>2, <2>3, QuietTypes
    DEF ReceiveCommand, sessionVars, SystemTypeOK, HandlingOK
<1>2. CASE PublishCommand
  <2>0. handling # Idle
    BY <1>2 DEF PublishCommand, Idle
  <2>1. IsCommand(handling.command)
    BY <2>0 DEF SystemTypeOK, HandlingOK
  <2> DEFINE c == handling.command
  <2>2. c.topic \in Topics /\ c.body \in Messages(c.topic)
    BY <2>1 DEF IsCommand, Topics, DownTopics, Messages
  <2>3. QueuesOK'
    BY <1>2, <2>2, EnqueueStep DEF PublishCommand, SystemTypeOK
  <2>4. stopAsked' \in BOOLEAN
    BY <1>2 DEF PublishCommand, StopStands, SystemTypeOK
  <2>5. handling'.step = "answer" /\ handling'.command = handling.command
    BY <1>2, <2>0 DEF PublishCommand, SystemTypeOK, HandlingOK
  <2> QED
    BY <1>2, <2>1, <2>3, <2>4, <2>5 DEF PublishCommand, sessionVars, SystemTypeOK, HandlingOK
<1>3. CASE AnswerCommand
  BY <1>3, QuietTypes DEF AnswerCommand, sessionVars, SystemTypeOK, HandlingOK
<1> QED
  BY <1>1, <1>2, <1>3 DEF IoStep

LEMMA SystemNextTypes ==
  ASSUME SystemTypeOK, TypeOK, [SystemNext]_systemVars
  PROVE  SystemTypeOK' /\ TypeOK'
<1>1. TypeOK'
  BY CanView, NextTypes DEF SystemTypeOK
<1> SUFFICES SystemTypeOK'
  BY <1>1
<1> USE DEF downVars, sessionVars
<1>2. CASE CanCallback
  <2>1. ASSUME NEW t \in DownTopics, Dequeue(t), UNCHANGED <<downVars, sessionVars, told>>
        PROVE  SystemTypeOK'
    BY <2>1, DequeueStep, QuietTypes DEF Topics, SystemTypeOK
  <2> QED
    BY <1>2, <2>1 DEF CanCallback, DeliverCtrlCmd, DeliverTaskCmd, DeliverTaskCtrl, DownTopics
<1>3. CASE NodeCallback
  <2>1. CASE OnFaultAlarm
    <3>1. Head(topics.robot_fault) \in Reports /\ QueuesOK'
      BY <2>1, DequeueStep DEF OnFaultAlarm, SystemTypeOK, Topics, UpTopics, Messages
    <3> QED
      BY <2>1, <3>1, QuietTypes DEF OnFaultAlarm, SystemTypeOK
  <2>2. CASE OnLocalPath
    <3>1. Head(topics.local_path) \in Paths /\ QueuesOK'
      BY <2>2, DequeueStep DEF OnLocalPath, SystemTypeOK, Topics, UpTopics, Messages
    <3> QED
      BY <2>2, <3>1, QuietTypes DEF OnLocalPath, SystemTypeOK
  <2> QED
    BY <1>3, <2>1, <2>2 DEF NodeCallback
<1>4. CASE CanStep
  <2>1. faultOut'.report \in Messages("robot_fault")
    BY <1>1 DEF TypeOK, FaultTypeOK, Messages
  <2>2. QueuesOK' /\ told' \subseteq UpTopics
    BY <1>4, <2>1, PublishTypes, QuietTypes
    DEF CanStep, Uplink, UpTopics, SystemTypeOK
  <2> QED
    BY <1>4, <2>2, QuietTypes DEF CanStep, Uplink, SystemTypeOK
<1>5. ASSUME NEW path \in Paths, PathStep(path) PROVE SystemTypeOK'
  BY <1>5, QuietTypes DEF PathStep, SystemTypeOK
<1>9. ASSUME NEW path \in Paths, LocalPathArrives(path) PROVE SystemTypeOK'
  <2>1. path \in Messages("local_path")
    BY DEF Messages
  <2>2. QueuesOK' /\ told' \subseteq UpTopics
    BY <1>9, <2>1, PublishTypes DEF LocalPathArrives, UpTopics
  <2> QED
    BY <1>9, <2>2, QuietTypes DEF LocalPathArrives, SystemTypeOK
<1>6. CASE LogsIn \/ LinkFails \/ SessionEnds
  BY <1>6, QuietTypes DEF LogsIn, LinkFails, SessionEnds, SessionChange, SystemTypeOK
<1>7. CASE UNCHANGED systemVars
  BY <1>7, QuietTypes DEF systemVars, SystemTypeOK
<1>8. Planned[world] \subseteq Paths /\ LocalPaths[world] \subseteq Paths
  BY RoutingAssumption DEF TypeOK, FrameTypeOK
<1> QED
  BY <1>1, <1>2, <1>3, <1>4, <1>5, <1>6, <1>7, <1>8, <1>9, IoTypes DEF SystemNext

(* The types of the whole.                                                 *)
THEOREM SystemTypes == SystemSpec => [](SystemTypeOK /\ TypeOK)
  BY SystemInitTypes, SystemNextTypes, PTL DEF SystemSpec

(* The CAN bridge behaves in the whole as CanBridgeNode says: the queues   *)
(* and the dispatch bring it no message its specification leaves out.      *)
THEOREM CanBridgeInside == SystemSpec => Spec
<1>1. SystemInit => Init
  BY DEF SystemInit
<1>2. SystemTypeOK /\ [SystemNext]_systemVars => [Next]_vars
  BY CanView DEF SystemTypeOK
<1> QED
  BY <1>1, <1>2, SystemTypes, PTL DEF SystemSpec, Spec

(* The path bridge likewise.                                               *)
THEOREM PathBridgeInside == SystemSpec => PathSpec
<1>1. SystemInit => PathInit
  BY DEF SystemInit
<1>2. TypeOK /\ [SystemNext]_systemVars => [PathNext]_pathVars
  BY PathView DEF PathStep, PathNext
<1> QED
  BY <1>1, <1>2, SystemTypes, PTL DEF SystemSpec, PathSpec
-----------------------------------------------------------------------------
(* Faults, from the VCU's frames to the server.                            *)

(* The last report is known, or it is the newest on its way.               *)
FaultChain ==
    "robot_fault" \in told =>
        /\ loggedIn /\ linkUp
        /\ topics.robot_fault = <<>> => server.fault = faultOut.report
        /\ topics.robot_fault # <<>> => Newest(topics.robot_fault) = faultOut.report

(* A report goes out with a change of the toggle only.                     *)
LEMMA ReportWithToggle ==
  ASSUME TypeOK, [Next]_vars, faultOut'.toggle = faultOut.toggle
  PROVE  faultOut' = faultOut
<1>1. ASSUME NEW v, PublishFaultAlarm(v) PROVE faultOut' = faultOut
  BY <1>1 DEF PublishFaultAlarm, TypeOK, FaultTypeOK
<1>2. CASE FrameStep
  BY <1>1, <1>2
  DEF FrameStep, OnVcuFlags, OnBmsFault, OnMotorFaults, OnStatusFrame, VcuFallsSilent, faultVars
<1>3. CASE TopicStep
  BY <1>3
  DEF TopicStep, OnTaskCmd, OnTaskPause, OnTaskResume, OnTaskCancel, TaskCtrl, OnCmdVelHighfreq,
      OnCtrlCmd, CtrlLight, CtrlEmergency, CtrlDriveEnable, CtrlStopWork, CtrlWalk, CtrlGotoTarget,
      faultVars
<1>4. CASE TimerStep
  BY <1>1, <1>4
  DEF TimerStep, FaultTimer, TaskStateTimer, StatusTimer, CheckVcuTimeout, SendControlFrame,
      SendMotionFrame, faultVars
<1>5. CASE UNCHANGED vars
  BY <1>5 DEF vars, faultVars
<1> QED
  BY <1>2, <1>3, <1>4, <1>5 DEF Next

(* The commands to the CAN bridge report no fault.                         *)
LEMMA CallbackKeepsFault ==
  ASSUME CanCallback
  PROVE  faultOut' = faultOut
  BY DEF CanCallback, DeliverCtrlCmd, DeliverTaskCmd, DeliverTaskCtrl, OnTaskCmd, OnTaskPause,
         OnTaskResume, OnTaskCancel, TaskCtrl, CtrlLight, CtrlEmergency, CtrlDriveEnable,
         CtrlStopWork, CtrlWalk, CtrlGotoTarget, vars, faultVars

LEMMA FaultChainStep ==
  ASSUME FaultChain, SystemTypeOK, TypeOK, [SystemNext]_systemVars
  PROVE  FaultChain'
<1>0. QueuesOK /\ "robot_fault" \in Topics /\ (\A t \in DownTopics : t \in Topics /\ t # "robot_fault")
      /\ "local_path" \in Topics
  BY DEF SystemTypeOK, Topics, UpTopics, DownTopics
<1>1. ASSUME topics'.robot_fault = topics.robot_fault, faultOut' = faultOut,
             UNCHANGED <<loggedIn, linkUp, server>>,
             "robot_fault" \in told' => "robot_fault" \in told
      PROVE  FaultChain'
  BY <1>1 DEF FaultChain
<1>2. CASE CanCallback
  <2>1. ASSUME NEW t \in DownTopics, Dequeue(t) PROVE topics'.robot_fault = topics.robot_fault
    BY <1>0, <2>1, DequeueStep
  <2>2. topics'.robot_fault = topics.robot_fault /\ UNCHANGED <<loggedIn, linkUp, server, told>>
    BY <1>2, <2>1
    DEF CanCallback, DeliverCtrlCmd, DeliverTaskCmd, DeliverTaskCtrl, sessionVars, DownTopics
  <2> QED
    BY <1>1, <1>2, <2>2, CallbackKeepsFault
<1>3. CASE OnFaultAlarm
  <2>1. UNCHANGED <<loggedIn, linkUp, told>> /\ faultOut' = faultOut /\ Dequeue("robot_fault")
    BY <1>3 DEF OnFaultAlarm, vars, faultVars
  <2>2. /\ topics'.robot_fault = <<>> => Newest(topics.robot_fault) = Head(topics.robot_fault)
        /\ topics'.robot_fault # <<>> => Newest(topics'.robot_fault) = Newest(topics.robot_fault)
        /\ topics.robot_fault # <<>>
    BY <1>0, <2>1, DequeueStep
  <2>3. loggedIn /\ linkUp => server'.fault = Head(topics.robot_fault)
    BY <1>3 DEF OnFaultAlarm, SystemTypeOK
  <2> QED
    BY <2>1, <2>2, <2>3 DEF FaultChain
<1>4. CASE OnLocalPath
  <2>1. UNCHANGED <<loggedIn, linkUp, told>> /\ faultOut' = faultOut /\ Dequeue("local_path")
    BY <1>4 DEF OnLocalPath, vars, faultVars
  <2>2. topics'.robot_fault = topics.robot_fault
    BY <1>0, <2>1, DequeueStep
  <2>3. server'.fault = server.fault
    BY <1>4 DEF OnLocalPath, SystemTypeOK
  <2> QED
    BY <2>1, <2>2, <2>3 DEF FaultChain
<1>5. CASE CanStep
  <2>1. UNCHANGED <<loggedIn, linkUp, server>>
    BY <1>5 DEF CanStep, Uplink, sessionVars
  <2>2. CASE faultOut'.toggle # faultOut.toggle
    <3>1. Publish("robot_fault", faultOut'.report)
      BY <1>5, <2>2 DEF CanStep, Uplink
    <3>2. faultOut'.report \in Messages("robot_fault")
      BY CanView, NextTypes DEF TypeOK, FaultTypeOK, Messages, SystemTypeOK
    <3>3. topics'.robot_fault # <<>> /\ Newest(topics'.robot_fault) = faultOut'.report
      BY <1>0, <3>1, <3>2, EnqueueStep DEF Publish
    <3>4. "robot_fault" \in told' => loggedIn /\ linkUp
      BY <3>1 DEF Publish
    <3> QED
      BY <2>1, <3>3, <3>4 DEF FaultChain
  <2>3. CASE faultOut'.toggle = faultOut.toggle
    <3>1. UNCHANGED <<topics, told>>
      BY <1>5, <2>3 DEF CanStep, Uplink
    <3>2. faultOut' = faultOut
      BY <2>3, CanView, ReportWithToggle DEF SystemTypeOK
    <3> QED
      BY <1>1, <2>1, <3>1, <3>2
  <2> QED
    BY <2>2, <2>3
<1>6. ASSUME NEW path \in Paths, PathStep(path) PROVE FaultChain'
  <2>1. UNCHANGED <<topics, loggedIn, linkUp, server>> /\ faultOut' = faultOut
    BY <1>6 DEF PathStep, sessionVars, vars, faultVars
  <2> QED
    BY <1>1, <1>6, <2>1 DEF PathStep
<1>12. ASSUME NEW path \in Paths, LocalPathArrives(path) PROVE FaultChain'
  <2>1. UNCHANGED <<loggedIn, linkUp, server>> /\ faultOut' = faultOut
    BY <1>12 DEF LocalPathArrives, sessionVars, vars, faultVars
  <2>2. Publish("local_path", path) /\ path \in Messages("local_path")
    BY <1>12 DEF LocalPathArrives, Messages
  <2>3. topics'.robot_fault = topics.robot_fault
    BY <1>0, <2>2, EnqueueStep DEF Publish
  <2> QED
    BY <1>1, <2>1, <2>2, <2>3 DEF Publish
<1>7. CASE PublishCommand
  <2>0. handling # Idle
    BY <1>7 DEF PublishCommand, Idle
  <2>1. IsCommand(handling.command)
    BY <2>0 DEF SystemTypeOK, HandlingOK
  <2>2. handling.command.topic \in DownTopics
        /\ handling.command.body \in Messages(handling.command.topic)
    BY <2>1 DEF IsCommand, DownTopics, Messages
  <2>3. topics'.robot_fault = topics.robot_fault
    BY <1>0, <1>7, <2>2, EnqueueStep DEF PublishCommand
  <2> QED
    BY <1>1, <1>7, <2>3 DEF PublishCommand, sessionVars, vars, faultVars
<1>8. CASE (\E c \in Commands[world] : ReceiveCommand(c)) \/ AnswerCommand
  BY <1>1, <1>8 DEF ReceiveCommand, AnswerCommand, sessionVars, vars, faultVars
<1>9. CASE LogsIn \/ LinkFails \/ SessionEnds
  BY <1>9 DEF LogsIn, LinkFails, SessionEnds, SessionChange, FaultChain
<1>10. CASE UNCHANGED systemVars
  BY <1>1, <1>10 DEF systemVars, sessionVars, vars, faultVars
<1>11. Planned[world] \subseteq Paths /\ LocalPaths[world] \subseteq Paths
  BY RoutingAssumption DEF TypeOK, FrameTypeOK
<1> QED
  BY <1>2, <1>3, <1>4, <1>5, <1>6, <1>7, <1>8, <1>9, <1>10, <1>11,
     <1>12
  DEF SystemNext, IoStep, NodeCallback

(* In a session that lasts, the server knows the faults that the CAN       *)
(* bridge last found, whatever the frames, the timers and the sizes of the *)
(* queues are.  This needs the CAN bridge's own FaultsKnown.               *)
THEOREM FaultsArrive == SystemSpec => []FaultsReachServer
<1>1. SystemInit => FaultChain
  BY DEF SystemInit, FaultChain
<1>2. FaultChain /\ SystemTypeOK /\ TypeOK /\ [SystemNext]_systemVars => FaultChain'
  BY FaultChainStep
<1>3. FaultChain /\ ServerKnowsFaults => FaultsReachServer
  BY DEF FaultChain, ServerKnowsFaults, FaultsReachServer
<1> QED
  BY <1>1, <1>2, <1>3, SystemTypes, CanBridgeInside, FaultsKnown, PTL DEF SystemSpec
-----------------------------------------------------------------------------
(* Task numbers.                                                           *)

(* The node's number is that of the newest task on its way, or of the task *)
(* the CAN bridge has; from ReceiveCommand to PublishCommand it is ahead.  *)
TaskChain ==
    IF handling.step = "publish" /\ handling.command.topic = "task_cmd"
      THEN nodeTaskId = ToInt(handling.command.body)
      ELSE /\ topics.task_cmd # <<>> => nodeTaskId = ToInt(Newest(topics.task_cmd))
           /\ topics.task_cmd = <<>> => nodeTaskId \in {0, ToInt(currentTaskId)}

LEMMA ToIntOfNone == ToInt(NoId) = 0
  BY RoutingAssumption, SMT DEF ToInt, NoId

(* Only a task command brings the CAN bridge a number.                     *)
LEMMA NumberKept ==
  ASSUME CanStep \/ DeliverCtrlCmd \/ DeliverTaskCtrl
  PROVE  currentTaskId' = currentTaskId
<1> USE DEF vars, taskVars
<1>1. CASE CanStep
  <2>1. CASE FrameStep
    BY <2>1 DEF FrameStep, OnVcuFlags, OnBmsFault, OnMotorFaults, OnStatusFrame, VcuFallsSilent
  <2>2. CASE FaultTimer \/ TaskStateTimer \/ StatusTimer \/ CheckVcuTimeout
    BY <2>2 DEF FaultTimer, TaskStateTimer, StatusTimer, CheckVcuTimeout
  <2>3. CASE SendControlFrame \/ SendMotionFrame
    BY <2>3 DEF SendControlFrame, SendMotionFrame
  <2>4. ASSUME NEW twist \in Twists, OnCmdVelHighfreq(twist[1], twist[2])
        PROVE  currentTaskId' = currentTaskId
    BY <2>4 DEF OnCmdVelHighfreq
  <2> QED
    BY <1>1, <2>1, <2>2, <2>3, <2>4 DEF CanStep, TimerStep
<1>2. CASE DeliverCtrlCmd
  BY <1>2 DEF DeliverCtrlCmd, CtrlLight, CtrlEmergency, CtrlDriveEnable, CtrlStopWork, CtrlWalk,
              CtrlGotoTarget
<1>3. CASE DeliverTaskCtrl
  BY <1>3 DEF DeliverTaskCtrl, OnTaskPause, OnTaskResume, OnTaskCancel, TaskCtrl
<1> QED
  BY <1>1, <1>2, <1>3

LEMMA TaskChainStep ==
  ASSUME TaskChain, SystemTypeOK, TypeOK, [SystemNext]_systemVars
  PROVE  TaskChain'
<1>0. QueuesOK /\ "task_cmd" \in Topics /\ (\A t \in Topics : t \in DownTopics \/ t \in UpTopics)
      /\ "ctrl_cmd" \in Topics /\ "task_ctrl" \in Topics /\ UpTopics \subseteq Topics
      /\ "task_cmd" \notin UpTopics
  BY DEF SystemTypeOK, Topics, UpTopics, DownTopics
<1>1. ASSUME topics'.task_cmd = topics.task_cmd,
             UNCHANGED <<handling, nodeTaskId, currentTaskId>>
      PROVE  TaskChain'
  BY <1>1 DEF TaskChain, ToInt, Newest
<1>2. CASE DeliverCtrlCmd \/ DeliverTaskCtrl
  <2>1. topics'.task_cmd = topics.task_cmd
    BY <1>0, <1>2, DequeueStep DEF DeliverCtrlCmd, DeliverTaskCtrl
  <2> QED
    BY <1>1, <1>2, <2>1, NumberKept DEF DeliverCtrlCmd, DeliverTaskCtrl, downVars
<1>3. CASE DeliverTaskCmd
  <2> DEFINE id == Head(topics.task_cmd)
  <2>1. UNCHANGED <<handling, nodeTaskId>> /\ Dequeue("task_cmd")
    BY <1>3 DEF DeliverTaskCmd, downVars
  <2>2. /\ topics'.task_cmd = <<>> => Newest(topics.task_cmd) = id
        /\ topics'.task_cmd # <<>> => Newest(topics'.task_cmd) = Newest(topics.task_cmd)
        /\ topics.task_cmd # <<>>
    BY <1>0, <2>1, DequeueStep
  <2>3. currentTaskId' = IF id = NoId THEN currentTaskId ELSE id
    BY <1>3 DEF DeliverTaskCmd, OnTaskCmd
  <2>4. ToInt(id) \in {0, ToInt(currentTaskId')}
    BY <2>3, ToIntOfNone
  <2> HIDE DEF id
  <2> QED
    BY <2>1, <2>2, <2>4 DEF TaskChain
<1>4. CASE NodeCallback
  <2>1. topics'.task_cmd = topics.task_cmd
    BY <1>0, <1>4, DequeueStep DEF NodeCallback, OnFaultAlarm, OnLocalPath, UpTopics
  <2> QED
    BY <1>1, <1>4, <2>1 DEF NodeCallback, OnFaultAlarm, OnLocalPath, downVars, vars, taskVars
<1>5. CASE CanStep
  <2>1. ASSUME Publish("robot_fault", faultOut'.report) PROVE topics'.task_cmd = topics.task_cmd
    <3>1. faultOut'.report \in Messages("robot_fault")
      BY CanView, NextTypes DEF TypeOK, FaultTypeOK, Messages, SystemTypeOK
    <3> QED
      BY <1>0, <2>1, <3>1, EnqueueStep DEF Publish, UpTopics
  <2> QED
    BY <1>1, <1>5, <2>1, NumberKept DEF CanStep, Uplink, downVars
<1>6. ASSUME NEW path \in Paths, PathStep(path) PROVE TaskChain'
  BY <1>1, <1>6 DEF PathStep, downVars, vars, taskVars
<1>13. ASSUME NEW path \in Paths, LocalPathArrives(path) PROVE TaskChain'
  <2>1. Publish("local_path", path)
    BY <1>13 DEF LocalPathArrives
  <2>2. topics'.task_cmd = topics.task_cmd
    BY <1>0, <2>1, EnqueueStep DEF Publish, UpTopics, Messages
  <2> QED
    BY <1>1, <1>13, <2>2 DEF LocalPathArrives, downVars, vars, taskVars
<1>7. ASSUME NEW c \in Commands[world], ReceiveCommand(c) PROVE TaskChain'
  <2>1. /\ handling = Idle /\ handling'.step = "publish" /\ handling'.command = c
        /\ UNCHANGED <<topics, currentTaskId>>
    BY <1>7 DEF ReceiveCommand, vars, taskVars
  <2>2. handling.step # "publish"
    BY <2>1 DEF Idle
  <2>3. CASE c.topic = "task_cmd"
    BY <1>7, <2>1, <2>3 DEF ReceiveCommand, TaskChain
  <2>4. CASE c.topic # "task_cmd"
    BY <1>7, <2>1, <2>2, <2>4 DEF ReceiveCommand, TaskChain
  <2> QED
    BY <2>3, <2>4
<1>8. CASE PublishCommand
  <2> DEFINE c == handling.command
  <2>1. /\ c.topic \in Topics /\ c.body \in Messages(c.topic)
        /\ handling.step = "publish" /\ handling'.step = "answer"
        /\ Enqueue(c.topic, c.body) /\ UNCHANGED <<nodeTaskId, currentTaskId>>
    BY <1>8 DEF PublishCommand, Idle, SystemTypeOK, HandlingOK, IsCommand, Topics, DownTopics,
                Messages, vars, taskVars
  <2>2. CASE c.topic = "task_cmd"
    <3>1. topics'.task_cmd # <<>> /\ Newest(topics'.task_cmd) = c.body
      BY <1>0, <2>1, <2>2, EnqueueStep
    <3> QED
      BY <2>1, <2>2, <3>1 DEF TaskChain
  <2>3. CASE c.topic # "task_cmd"
    <3>1. topics'.task_cmd = topics.task_cmd
      BY <1>0, <2>1, <2>3, EnqueueStep
    <3> QED
      BY <2>1, <2>3, <3>1 DEF TaskChain
  <2> QED
    BY <2>2, <2>3
<1>9. CASE AnswerCommand
  BY <1>9 DEF AnswerCommand, Idle, TaskChain, vars, taskVars
<1>10. CASE LogsIn \/ LinkFails \/ SessionEnds
  BY <1>1, <1>10 DEF LogsIn, LinkFails, SessionEnds, SessionChange, downVars, vars, taskVars
<1>11. CASE UNCHANGED systemVars
  BY <1>1, <1>11 DEF systemVars, downVars, vars, taskVars
<1>12. Planned[world] \subseteq Paths /\ LocalPaths[world] \subseteq Paths
  BY RoutingAssumption DEF TypeOK, FrameTypeOK
<1> QED
  BY <1>2, <1>3, <1>4, <1>5, <1>6, <1>7, <1>8, <1>9, <1>10, <1>11,
     <1>12, <1>13
  DEF SystemNext, IoStep, CanCallback

(* The node and the CAN bridge mean the same task once none is on its way, *)
(* whatever fell out of the queue between them.                            *)
THEOREM TasksAgree == SystemSpec => []TaskNumbersAgree
<1>1. SystemInit => TaskChain
  <2> SUFFICES ASSUME SystemInit PROVE TaskChain
    OBVIOUS
  <2>1. handling.step # "publish" /\ nodeTaskId = 0 /\ topics.task_cmd = <<>>
    BY DEF SystemInit, Idle, Topics, DownTopics
  <2> QED
    BY <2>1 DEF TaskChain
<1>2. TaskChain /\ SystemTypeOK /\ TypeOK /\ [SystemNext]_systemVars => TaskChain'
  BY TaskChainStep
<1>3. TaskChain => TaskNumbersAgree
  BY DEF TaskChain, TaskNumbersAgree
<1> QED
  BY <1>1, <1>2, <1>3, SystemTypes, PTL DEF SystemSpec
=============================================================================
