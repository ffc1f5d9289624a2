-------------------------- MODULE BusinessRouting --------------------------
(***************************************************************************)
(* The nodes together: commands of the cloud server go through the         *)
(* business part of ProtocolParsingNode and topics to the CAN bridge, and  *)
(* what the CAN bridge and the path bridge publish goes the other way.     *)
(*                                                                         *)
(* The session is reduced to what these handlers see of it: loggedIn_, and *)
(* whether the server gets what is sent.  Between two nodes a topic is a   *)
(* queue of its own; nothing orders one topic after another.  The topics   *)
(* robot_status and task_state, repeated every second, have no queue here. *)
(* The path bridge publishes on output_path, to which nobody subscribes:   *)
(* ~output_path is advertised and no launch file maps it to local_path.    *)
(***************************************************************************)
EXTENDS CanBridgeNode, PathBridge

CONSTANTS
    QueueSize,   \* of subscribe() and advertise() (10 in the program)
    IntModulus,  \* 2^32: JsonHelper reads a taskId as int
    Commands,    \* what the server may send in each world
    Planned,     \* what the path bridge may hear in each world
    LocalPaths   \* what may come on local_path, from outside the package

(* Codes of robotCtrl; the others are published and ignored.               *)
LightCode == 1
EmergencyCode == 2
DriveEnableCode == 3
StopWorkCode == 4
WalkCode == 5
GotoTargetCode == 6

NoId == 0                                \* a taskCreate without a taskId
CtrlMessages ==
    {m \in [ctrlCmd : 0..7, ctrlValue : Int] :
        /\ m.ctrlCmd = LightCode => m.ctrlValue \in Lights
        /\ m.ctrlCmd = WalkCode => m.ctrlValue \in 0..4}
Bodies == [ctrl_cmd |-> CtrlMessages, task_cmd |-> TaskIds \cup {NoId}, task_ctrl |-> 0..4]
DownTopics == {"ctrl_cmd", "task_cmd", "task_ctrl"}
UpTopics == {"robot_fault", "local_path"}
Topics == DownTopics \cup UpTopics
IsCommand(c) ==
    /\ c = [topic |-> c.topic, body |-> c.body]
    /\ c.topic \in DownTopics /\ c.body \in Bodies[c.topic]

ASSUME RoutingAssumption ==
    /\ QueueSize \in Nat \ {0} /\ IntModulus \in Nat \ {0}
    /\ \A w \in Worlds : \A c \in Commands[w] : IsCommand(c)
    /\ Planned \in [Worlds -> SUBSET Paths]
    /\ LocalPaths \in [Worlds -> SUBSET Paths]
    /\ \A w \in Worlds : {"task", "ctrl", "walk"} \subseteq Traffic[w]

VARIABLES
    topics,      \* the messages on their way, for each topic
    handling,    \* the command in handleJsonBusiness, and the step of it
    nodeTaskId,  \* currentTaskId_ of ProtocolParsingNode
    loggedIn,    \* loggedIn_
    linkUp,      \* the server has accepted the session and gets what is sent
    server,      \* the last fault report and the last path it got
    told,        \* history: topics whose last message is of this session
    stopAsked    \* history: the last emergency command published was a stop,
                 \* and it did not fall out of the queue

downVars == <<handling, nodeTaskId, stopAsked>>
sessionVars == <<loggedIn, linkUp, server>>
systemVars == <<vars, pathVars, topics, downVars, sessionVars, told>>

Idle == [step |-> "idle"]
-----------------------------------------------------------------------------
(* A full queue of ROS loses its oldest message.                           *)

(* Fault: the newest is lost.                                              *)
EnqueueOrDrop(topic, m) ==
    topics' = [topics EXCEPT ![topic] = IF Len(@) < QueueSize THEN Append(@, m) ELSE @]
(* Fault: one message more than the queue may hold.                        *)
EnqueueOneMore(topic, m) ==
    topics' = [topics EXCEPT ![topic] = Append(IF Len(@) <= QueueSize THEN @ ELSE Tail(@), m)]
Enqueue(topic, m) ==
    topics' = [topics EXCEPT ![topic] = Append(IF Len(@) < QueueSize THEN @ ELSE Tail(@), m)]

Dequeue(topic) ==
    /\ topics[topic] # <<>>
    /\ topics' = [topics EXCEPT ![topic] = Tail(@)]
-----------------------------------------------------------------------------
(* handleJsonBusiness, run by the io thread.                               *)

(* body.value("taskId", 0): an int, zero if there is none.                 *)
ToInt(n) == LET k == n % IntModulus IN IF 2 * k < IntModulus THEN k ELSE k - IntModulus

ReceiveCommand(c) ==
    /\ linkUp /\ handling = Idle
    /\ handling' = [step |-> "publish", command |-> c]
    /\ nodeTaskId' = IF c.topic = "task_cmd" THEN ToInt(c.body) ELSE nodeTaskId
    /\ UNCHANGED <<stopAsked, vars, pathVars, topics, sessionVars, told>>

IsEmergency(m) == m.ctrlCmd = EmergencyCode

(* The next message on ctrl_cmd pushes out the newest emergency command.   *)
PushesOutEmergency ==
    LET q == topics.ctrl_cmd IN
    /\ Len(q) = QueueSize /\ IsEmergency(Head(q))
    /\ \A i \in 2..Len(q) : ~IsEmergency(q[i])

StopStands(m) ==
    IF IsEmergency(m) THEN m.ctrlValue # 0 ELSE stopAsked /\ ~PushesOutEmergency

PublishCommand ==
    /\ handling.step = "publish"
    /\ LET c == handling.command IN
          /\ Enqueue(c.topic, c.body)
          /\ stopAsked' = IF c.topic = "ctrl_cmd" THEN StopStands(c.body) ELSE stopAsked
    /\ handling' = [handling EXCEPT !.step = "answer"]
    /\ UNCHANGED <<nodeTaskId, vars, pathVars, sessionVars, told>>

(* The answer goes into the send queue, whatever becomes of the command.   *)
AnswerCommand ==
    /\ handling.step = "answer"
    /\ handling' = Idle
    /\ UNCHANGED <<nodeTaskId, stopAsked, vars, pathVars, topics, sessionVars, told>>
-----------------------------------------------------------------------------
(* The topic callbacks of the CAN bridge.                                  *)

DeliverCtrlCmd ==
    /\ Dequeue("ctrl_cmd")
    /\ LET m == Head(topics.ctrl_cmd) IN
          \/ m.ctrlCmd = LightCode /\ CtrlLight(m.ctrlValue)
          \/ m.ctrlCmd = EmergencyCode /\ CtrlEmergency(m.ctrlValue # 0)
          \/ m.ctrlCmd = DriveEnableCode /\ CtrlDriveEnable(m.ctrlValue # 0)
          \/ m.ctrlCmd = StopWorkCode /\ CtrlStopWork
          \/ m.ctrlCmd = WalkCode /\ CtrlWalk(m.ctrlValue)
          \/ m.ctrlCmd = GotoTargetCode /\ CtrlGotoTarget
          \/ m.ctrlCmd \in {0, 7} /\ UNCHANGED vars
    /\ UNCHANGED <<downVars, pathVars, sessionVars, told>>

(* Without a taskId the CAN bridge keeps the number it has.                *)
DeliverTaskCmd ==
    /\ Dequeue("task_cmd")
    /\ LET id == Head(topics.task_cmd) IN OnTaskCmd(IF id = NoId THEN currentTaskId ELSE id)
    /\ UNCHANGED <<downVars, pathVars, sessionVars, told>>

DeliverTaskCtrl ==
    /\ Dequeue("task_ctrl")
    /\ LET code == Head(topics.task_ctrl) IN
          \/ code = 1 /\ OnTaskPause
          \/ code = 2 /\ OnTaskResume
          \/ code = 3 /\ OnTaskCancel
          \/ code \in {0, 4} /\ UNCHANGED vars
    /\ UNCHANGED <<downVars, pathVars, sessionVars, told>>
-----------------------------------------------------------------------------
(* What the bridges publish, and the callbacks of the node.                *)

(* A report that is published outside a session may come too early for it. *)
Publish(topic, m) ==
    /\ Enqueue(topic, m)
    /\ told' = IF loggedIn /\ linkUp THEN told \cup {topic} ELSE told \ {topic}

(* Fault: the report is filled in before the new faults are in the cache.  *)
UplinkEarly ==
    /\ IF faultOut'.toggle # faultOut.toggle
         THEN Publish("robot_fault", faultOut.report) ELSE UNCHANGED <<topics, told>>
    /\ UNCHANGED <<downVars, pathVars, sessionVars>>
Uplink ==
    /\ IF faultOut'.toggle # faultOut.toggle
         THEN Publish("robot_fault", faultOut'.report) ELSE UNCHANGED <<topics, told>>
    /\ UNCHANGED <<downVars, pathVars, sessionVars>>

CanStep ==
    /\ FrameStep \/ TimerStep \/ \E twist \in Twists : OnCmdVelHighfreq(twist[1], twist[2])
    /\ Uplink

(* What the path bridge passes on has no subscriber and is in no queue.    *)
PathStep(path) ==
    /\ OnPath(path)
    /\ UNCHANGED <<topics, told, downVars, vars, sessionVars>>

(* Some other node publishes on the topic that ProtocolParsingNode hears.  *)
LocalPathArrives(path) ==
    /\ Publish("local_path", path)
    /\ UNCHANGED <<pathVars, downVars, vars, sessionVars>>

(* The server gets what is sent in a session.                              *)
OnFaultAlarm ==
    /\ Dequeue("robot_fault")
    /\ server' = IF loggedIn /\ linkUp
                   THEN [server EXCEPT !.fault = Head(topics.robot_fault)] ELSE server
    /\ UNCHANGED <<loggedIn, linkUp, told, downVars, vars, pathVars>>

OnLocalPath ==
    /\ Dequeue("local_path")
    /\ server' = IF loggedIn /\ linkUp
                   THEN [server EXCEPT !.path = Head(topics.local_path), !.taskId = nodeTaskId]
                   ELSE server
    /\ UNCHANGED <<loggedIn, linkUp, told, downVars, vars, pathVars>>
-----------------------------------------------------------------------------
(* The session.                                                            *)

SessionChange == told' = {} /\ UNCHANGED <<server, topics, downVars, vars, pathVars>>

LogsIn == ~linkUp /\ loggedIn' = TRUE /\ linkUp' = TRUE /\ SessionChange
LinkFails == linkUp /\ linkUp' = FALSE /\ UNCHANGED loggedIn /\ SessionChange
(* DISCONNECTED, or a heartbeat time-out on a connection that still works. *)
SessionEnds == loggedIn /\ loggedIn' = FALSE /\ linkUp' = FALSE /\ SessionChange
-----------------------------------------------------------------------------
SystemInit ==
    /\ Init /\ PathInit
    /\ topics = [t \in Topics |-> <<>>]
    /\ told = {}
    /\ handling = Idle /\ nodeTaskId = 0 /\ stopAsked = FALSE
    /\ loggedIn = FALSE /\ linkUp = FALSE
    /\ server = [fault |-> NoReport, path |-> <<>>, taskId |-> 0]

IoStep == (\E c \in Commands[world] : ReceiveCommand(c)) \/ PublishCommand \/ AnswerCommand
CanCallback == DeliverCtrlCmd \/ DeliverTaskCmd \/ DeliverTaskCtrl
NodeCallback == OnFaultAlarm \/ OnLocalPath

SystemNext ==
    \/ IoStep \/ CanCallback \/ CanStep \/ NodeCallback
    \/ \E path \in Planned[world] : PathStep(path)
    \/ \E path \in LocalPaths[world] : LocalPathArrives(path)
    \/ LogsIn \/ LinkFails \/ SessionEnds

SystemSpec == SystemInit /\ [][SystemNext]_systemVars

(* The io thread finishes a command it has begun, the nodes spin, and the  *)
(* timers of the CAN bridge run.                                           *)
SystemFairness ==
    /\ WF_systemVars(PublishCommand) /\ WF_systemVars(AnswerCommand)
    /\ WF_systemVars(DeliverCtrlCmd) /\ WF_systemVars(DeliverTaskCmd)
    /\ WF_systemVars(DeliverTaskCtrl)
    /\ WF_systemVars(OnFaultAlarm) /\ WF_systemVars(OnLocalPath)
    /\ WF_systemVars(SendControlFrame /\ Uplink)
SystemFairSpec == SystemSpec /\ SystemFairness
-----------------------------------------------------------------------------
Messages(t) ==
    IF t = "robot_fault" THEN Reports ELSE IF t = "local_path" THEN Paths ELSE Bodies[t]
QueuesOK ==
    /\ topics = [t \in Topics |-> topics[t]]
    /\ \A t \in Topics : topics[t] \in Seq(Messages(t)) /\ Len(topics[t]) <= QueueSize

HandlingOK ==
    handling # Idle => handling.step \in {"publish", "answer"} /\ IsCommand(handling.command)

(* The queues stay within their size, and every variable within its type.  *)
SystemTypeOK ==
    /\ QueuesOK /\ told \subseteq UpTopics
    /\ HandlingOK
    /\ nodeTaskId \in Int
    /\ loggedIn \in BOOLEAN /\ linkUp \in BOOLEAN /\ stopAsked \in BOOLEAN
    /\ server \in [fault : Reports, path : Paths \cup {<<>>}, taskId : Int]

(* While the session in which the last fault report was published lasts    *)
(* and the report is no longer on its way, the server knows the faults the *)
(* CAN bridge found when it last looked and found some.                    *)
FaultsReachServer ==
    "robot_fault" \in told /\ topics.robot_fault = <<>> /\ sampled # NoReport
        => server.fault = sampled

(* When no task is on its way, the node that tags the paths and the CAN    *)
(* bridge that reports the state mean the same task, as far as an int can  *)
(* hold its number, also if the queue in between has overflowed.  The      *)
(* exception is a task without a number: of it the node alone makes zero.  *)
TaskNumbersAgree ==
    handling.step # "publish" /\ topics.task_cmd = <<>> /\ nodeTaskId # 0
        => nodeTaskId = ToInt(currentTaskId)

(* An emergency command falls out of the full queue.                       *)
EmergencyLost ==
    /\ PublishCommand
    /\ handling.command.topic = "ctrl_cmd"
    /\ Len(topics.ctrl_cmd) = QueueSize /\ IsEmergency(Head(topics.ctrl_cmd))

(* An emergency stop that the node has published gets onto the bus, unless *)
(* it is revoked or newer commands push it out of the queue.  When a newer *)
(* stop pushes it out, the newer one takes its place; that can go on only  *)
(* as long as the queue overflows again and again.                         *)
StopReachesBus ==
    \/ stopAsked ~> (EmergencyBit \in ctrlOut \/ ~stopAsked)
    \/ []<><<EmergencyLost>>_systemVars
=============================================================================
