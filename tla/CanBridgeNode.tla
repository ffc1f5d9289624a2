--------------------------- MODULE CanBridgeNode ---------------------------
(***************************************************************************)
(* class CanBridgeNode (can_bridge_node.cpp): decoded VCU frames are       *)
(* cached, timers report faults and the task state from the cache, topics  *)
(* change the command registers, and timers send these to the VCU.         *)
(*                                                                         *)
(* One thread runs everything (spin: callbacks, then received frames), so  *)
(* each handler is one action and they come in any order.  A frame is kept *)
(* as what the handlers read of it; a fault list, which the code builds in *)
(* the order of the codes, as a set.                                       *)
(***************************************************************************)
EXTENDS CanCodec, FiniteSets

(* The environment sends inputs of a world, chosen at the start: together  *)
(* the worlds hold the interleavings that matter, each of them small.      *)
CONSTANTS
    Worlds,
    Traffic,     \* the kinds of input of each world
    VcuFrames,   \* flag frames the VCU sends in it, as sets of bits
    BmsFrames,   \* BMS frames
    MotorFrames, \* motor fault frames
    TaskIds,     \* task numbers the server uses
    Twists,      \* speeds <<linear, angular>> on /cmd_vel_highfreq, in milli-units
    WalkSpeeds,  \* <<walk_linear_speed, walk_angular_speed>>, in milli-units
    Lights,      \* numbers of light commands: any int
    HbModulus    \* of the heartbeat in frame 0x201 (256 in the program)

Kinds == {"task", "twist", "walk", "ctrl", "status", "silence"}
Battery == [fresh : BOOLEAN, chargeState : 0..2, gunConnected : BOOLEAN,
            errorCode : 0..ByteMax, errorLevel : 0..ByteMax]
Motors == [left : SUBSET MotorBits, right : SUBSET MotorBits]

ASSUME WorldsAssumption ==
    /\ Traffic \in [Worlds -> SUBSET Kinds]
    /\ VcuFrames \in [Worlds -> SUBSET SUBSET VcuBits]
    /\ BmsFrames \in [Worlds -> SUBSET {b \in Battery : b.fresh}]
    /\ MotorFrames \in [Worlds -> SUBSET Motors]
ASSUME CommandsAssumption ==
    /\ TaskIds \subseteq Nat \ {0}
    /\ Twists \subseteq Int \X Int
    /\ WalkSpeeds \in (0..Int16Max) \X (0..Int16Max)
    /\ Lights \subseteq Int
    /\ HbModulus \in Nat \ {0}

VARIABLES
    world,         \* the world of this behaviour
    vcu,           \* vcuFlags_: fresh, and its bits
    bms,           \* bmsFault_
    motor,         \* motorFaults_: no bits until fresh
    fresh,         \* the status frames decoded at least once
    silent,        \* the timed ones of them that are older than their time-out
    vcuOnline,     \* vcuOnline_
    statusOut,     \* a robot status was published
    lastFaults,    \* lastFaults_
    lastAlarms,    \* lastAlarms_
    currentTaskId, \* currentTaskId_
    taskActive,    \* taskActive_
    taskFinished,  \* taskFinished_
    ctrlCmd,       \* currentCtrlCmd_: lightCtrl, emergencyStop, driveEnable
    motionCmd,     \* currentMotionCmd_: linearSpeed, angularSpeed, heartbeat
    faultOut,      \* the last fault report published, and a toggle per report
    taskOut,       \* the last task state published
    motionOut,     \* the speed words and the heartbeat of the last 0x201 frame
    ctrlOut,       \* byte 0 of the last 0x200 frame
    sampled,       \* history: what the last publishFaultAlarm found
    intent         \* history: the speeds the last movement command asked for

frameVars == <<world, vcu, bms, motor, fresh, silent, vcuOnline, statusOut>>
faultVars == <<lastFaults, lastAlarms, faultOut, sampled>>
taskVars == <<currentTaskId, taskActive, taskFinished, taskOut>>
driveVars == <<ctrlCmd, motionCmd, motionOut, ctrlOut, intent>>
vars == <<frameVars, faultVars, taskVars, driveVars>>

TaskStates == {"CANNOT_EXECUTE", "IDLE", "NAVIGATING", "CHARGING", "UNPLUGGING",
               "EMERGENCY_STOP", "REMOTE_TAKEOVER", "FINISHED"}
StatusFrames == {"bmsBasic", "bmsCell", "bmsTemp", "motion", "motorSpeed"}
TimedFrames == {"bmsBasic", "motion"}
Flags == [fresh : BOOLEAN, bits : SUBSET VcuBits]
Reports == [faults : SUBSET Nat, alarms : SUBSET ((0..ByteMax) \X (0..ByteMax))]
NoReport == [faults |-> {}, alarms |-> {}]
Speeds == [linearSpeed : Int16Min..Int16Max, angularSpeed : Int16Min..Int16Max,
           heartbeat : 0..(HbModulus - 1)]
Controls == [lightCtrl : 0..ByteMax, emergencyStop : BOOLEAN, driveEnable : BOOLEAN]
-----------------------------------------------------------------------------
(* publishFaultAlarm, run by its timer and by a changed flag frame: v is   *)
(* vcuFlags_ at that moment.                                               *)

Collected(v) ==
    [faults |-> FaultCodes(IF v.fresh THEN v.bits ELSE {}, motor),
     alarms |-> IF bms.fresh /\ IsAlarm(bms.errorCode)
                  THEN {<<bms.errorCode, bms.errorLevel>>} ELSE {}]

(* Fault: the cache is not cleared once the faults are gone.               *)
PublishFaultAlarmKeeping(v) ==
    LET now == Collected(v) IN
    /\ sampled' = now
    /\ IF now = NoReport \/ now = [faults |-> lastFaults, alarms |-> lastAlarms]
         THEN UNCHANGED <<lastFaults, lastAlarms, faultOut>>
         ELSE /\ lastFaults' = now.faults
              /\ lastAlarms' = now.alarms
              /\ faultOut' = [report |-> now, toggle |-> ~faultOut.toggle]
(* Fault: an unchanged part is taken for an unchanged whole.               *)
PublishFaultAlarmEither(v) ==
    LET now == Collected(v) IN
    /\ sampled' = now
    /\ IF now # NoReport /\ (now.faults = lastFaults \/ now.alarms = lastAlarms)
         THEN UNCHANGED <<lastFaults, lastAlarms, faultOut>>
         ELSE /\ lastFaults' = now.faults
              /\ lastAlarms' = now.alarms
              /\ faultOut' = IF now = NoReport THEN faultOut
                             ELSE [report |-> now, toggle |-> ~faultOut.toggle]
PublishFaultAlarm(v) ==
    LET now == Collected(v) IN
    /\ sampled' = now
    /\ lastFaults' = now.faults
    /\ lastAlarms' = now.alarms
    /\ faultOut' = IF now = NoReport \/ now = [faults |-> lastFaults, alarms |-> lastAlarms]
                     THEN faultOut
                     ELSE [report |-> now, toggle |-> ~faultOut.toggle]

(* Fault: the timer does nothing until a flag frame has arrived.           *)
FaultTimerWaits ==
    /\ vcu.fresh
    /\ PublishFaultAlarm(vcu)
    /\ UNCHANGED <<frameVars, taskVars, driveVars>>
FaultTimer ==
    /\ PublishFaultAlarm(vcu)
    /\ UNCHANGED <<frameVars, taskVars, driveVars>>
-----------------------------------------------------------------------------
(* onCanFrame                                                              *)

(* 0x18FF5521: any change of a bit, also of one no handler reads, reports  *)
(* the faults at once.                                                     *)
OnVcuFlags(bits) ==
    /\ vcu' = [fresh |-> TRUE, bits |-> bits]
    /\ IF vcu.fresh /\ bits # vcu.bits THEN PublishFaultAlarm(vcu') ELSE UNCHANGED faultVars
    /\ UNCHANGED <<world, bms, motor, fresh, silent, vcuOnline, statusOut, taskVars, driveVars>>

(* 0x18FF5621                                                              *)
OnBmsFault(b) ==
    /\ bms' = b
    /\ UNCHANGED <<world, vcu, motor, fresh, silent, vcuOnline, statusOut, faultVars, taskVars,
                   driveVars>>

(* 0x18FF5721                                                              *)
OnMotorFaults(m) ==
    /\ motor' = m
    /\ UNCHANGED <<world, vcu, bms, fresh, silent, vcuOnline, statusOut, faultVars, taskVars,
                   driveVars>>

(* 0x18FF5021 to 5321 and 5821: their numbers only go into the status.     *)
OnStatusFrame(kind) ==
    /\ "status" \in Traffic[world]
    /\ fresh' = fresh \cup {kind}
    /\ silent' = silent \ {kind}
    /\ UNCHANGED <<world, vcu, bms, motor, vcuOnline, statusOut, faultVars, taskVars, driveVars>>

(* The VCU stops sending a frame that has a time-out.                      *)
VcuFallsSilent(kind) ==
    /\ "silence" \in Traffic[world]
    /\ silent' = silent \cup {kind}
    /\ UNCHANGED <<world, vcu, bms, motor, fresh, vcuOnline, statusOut, faultVars, taskVars,
                   driveVars>>

(* checkVcuTimeout                                                         *)
CheckVcuTimeout ==
    /\ vcuOnline' = (silent = {})
    /\ UNCHANGED <<world, vcu, bms, motor, fresh, silent, statusOut, faultVars, taskVars,
                   driveVars>>

(* Fault: a VCU that is silent is not reported.                            *)
StatusTimerOnline ==
    /\ fresh = StatusFrames /\ vcu.fresh /\ vcuOnline
    /\ statusOut' = TRUE
    /\ UNCHANGED <<world, vcu, bms, motor, fresh, silent, vcuOnline, faultVars, taskVars, driveVars>>
(* publishRobotStatus, once a frame of every kind has come.                *)
StatusTimer ==
    /\ fresh = StatusFrames /\ vcu.fresh
    /\ statusOut' = TRUE
    /\ UNCHANGED <<world, vcu, bms, motor, fresh, silent, vcuOnline, faultVars, taskVars, driveVars>>
-----------------------------------------------------------------------------
(* publishTaskState: the first condition that holds.                       *)

EmergencyActive == vcu.fresh /\ VehStopSwt \in vcu.bits
TakeoverActive == vcu.fresh /\ HandleCtrlEn \in vcu.bits

(* Fault: an unknown VCU goes before a finished task.                      *)
TaskStateOfflineFirst ==
    CASE EmergencyActive -> "EMERGENCY_STOP"
      [] TakeoverActive /\ ~EmergencyActive -> "REMOTE_TAKEOVER"
      [] OTHER -> IF bms.fresh /\ bms.chargeState = 1 THEN "CHARGING"
                  ELSE IF bms.fresh /\ bms.gunConnected /\ bms.chargeState = 0 THEN "UNPLUGGING"
                  ELSE IF taskActive /\ ~taskFinished THEN "NAVIGATING"
                  ELSE IF ~vcu.fresh THEN "CANNOT_EXECUTE"
                  ELSE IF taskFinished THEN "FINISHED" ELSE "IDLE"
TaskState ==
    CASE EmergencyActive -> "EMERGENCY_STOP"
      [] TakeoverActive /\ ~EmergencyActive -> "REMOTE_TAKEOVER"
      [] OTHER -> IF bms.fresh /\ bms.chargeState = 1 THEN "CHARGING"
                  ELSE IF bms.fresh /\ bms.gunConnected /\ bms.chargeState = 0 THEN "UNPLUGGING"
                  ELSE IF taskActive /\ ~taskFinished THEN "NAVIGATING"
                  ELSE IF taskFinished THEN "FINISHED"
                  ELSE IF ~vcu.fresh THEN "CANNOT_EXECUTE" ELSE "IDLE"

CarriesTaskId == {"NAVIGATING", "CHARGING", "UNPLUGGING", "EMERGENCY_STOP", "FINISHED"}

TaskStateTimer ==
    /\ taskOut' = [state |-> TaskState,
                   taskId |-> IF TaskState \in CarriesTaskId THEN currentTaskId ELSE 0]
    /\ UNCHANGED <<frameVars, faultVars, currentTaskId, taskActive, taskFinished, driveVars>>
-----------------------------------------------------------------------------
(* onTaskCmd and onTaskCtrl.  The number in a taskCtrl is not looked at.   *)

SetTask(active, finished) == taskActive' = active /\ taskFinished' = finished

(* A command without a taskId leaves the number as it was.                 *)
OnTaskCmd(id) ==
    /\ "task" \in Traffic[world]
    /\ currentTaskId' = id
    /\ SetTask(TRUE, FALSE)
    /\ UNCHANGED <<taskOut, frameVars, faultVars, driveVars>>

TaskCtrl(active, finished) ==
    /\ "task" \in Traffic[world]
    /\ SetTask(active, finished)
    /\ UNCHANGED <<currentTaskId, taskOut, frameVars, faultVars, driveVars>>
OnTaskPause == TaskCtrl(FALSE, FALSE)
OnTaskResume == TaskCtrl(TRUE, FALSE)
OnTaskCancel == TaskCtrl(FALSE, TRUE)
-----------------------------------------------------------------------------
(* onCmdVelHighfreq and onCtrlCmd                                          *)

OnCmdVelHighfreq(linear, angular) ==
    /\ "twist" \in Traffic[world]
    /\ motionCmd' = [motionCmd EXCEPT !.linearSpeed = ToRaw(linear),
                                      !.angularSpeed = ToRaw(angular)]
    /\ ctrlCmd' = [ctrlCmd EXCEPT !.driveEnable = TRUE]
    /\ intent' = <<ToRaw(linear), ToRaw(angular)>>
    /\ UNCHANGED <<motionOut, ctrlOut, frameVars, faultVars, taskVars>>

(* static_cast<uint8_t> of the number as a double.  Outside a byte that is *)
(* undefined: x86 converts to int and cuts, ARM makes 0 of less than 0.    *)
LightBytes(n) == {n % (ByteMax + 1)} \cup (IF n < 0 THEN {0} ELSE {})

CtrlLight(n) ==
    /\ "ctrl" \in Traffic[world]
    /\ \E byte \in LightBytes(n) : ctrlCmd' = [ctrlCmd EXCEPT !.lightCtrl = byte]
    /\ UNCHANGED <<motionCmd, motionOut, ctrlOut, intent, frameVars, faultVars, taskVars>>

CtrlEmergency(on) ==
    /\ "ctrl" \in Traffic[world]
    /\ ctrlCmd' = [ctrlCmd EXCEPT !.emergencyStop = on]
    /\ UNCHANGED <<motionCmd, motionOut, ctrlOut, intent, frameVars, faultVars, taskVars>>

CtrlDriveEnable(on) ==
    /\ "ctrl" \in Traffic[world]
    /\ ctrlCmd' = [ctrlCmd EXCEPT !.driveEnable = on]
    /\ UNCHANGED <<motionCmd, motionOut, ctrlOut, intent, frameVars, faultVars, taskVars>>

CtrlStopWork ==
    /\ "ctrl" \in Traffic[world]
    /\ ctrlCmd' = [ctrlCmd EXCEPT !.driveEnable = FALSE]
    /\ SetTask(FALSE, FALSE)
    /\ UNCHANGED <<motionCmd, motionOut, ctrlOut, intent, currentTaskId, taskOut,
                   frameVars, faultVars>>

(* What a direction asks for; any number outside 0..3 stops the robot.     *)
Toward(dir, linear, angular) ==
    CASE dir = 0 -> <<linear, 0>>
      [] dir = 1 -> <<-linear, 0>>
      [] dir = 2 -> <<0, angular>>
      [] dir = 3 -> <<0, -angular>>
      [] OTHER -> <<0, 0>>

(* Fault: the other axis keeps its speed.                                  *)
WalkKeeping(linear, angular) ==
    motionCmd' = [motionCmd EXCEPT !.linearSpeed = IF linear = 0 THEN @ ELSE linear,
                                   !.angularSpeed = IF angular = 0 THEN @ ELSE angular]
(* Fault: the whole command is reset, with its heartbeat.                  *)
WalkAnew(linear, angular) ==
    motionCmd' = [linearSpeed |-> linear, angularSpeed |-> angular, heartbeat |-> 0]

(* Both speeds are set, and the heartbeat goes on.                         *)
Walk(linear, angular) ==
    motionCmd' = [motionCmd EXCEPT !.linearSpeed = linear, !.angularSpeed = angular]

CtrlWalk(dir) ==
    /\ "walk" \in Traffic[world]
    /\ CASE dir = 0 -> Walk(WalkSpeeds[1], 0)
         [] dir = 1 -> Walk(-WalkSpeeds[1], 0)
         [] dir = 2 -> Walk(0, WalkSpeeds[2])
         [] dir = 3 -> Walk(0, -WalkSpeeds[2])
         [] OTHER -> Walk(0, 0)
    /\ intent' = Toward(dir, WalkSpeeds[1], WalkSpeeds[2])
    /\ UNCHANGED <<ctrlCmd, motionOut, ctrlOut, frameVars, faultVars, taskVars>>

CtrlGotoTarget ==
    /\ "walk" \in Traffic[world]
    /\ Walk(0, 0)
    /\ intent' = <<0, 0>>
    /\ UNCHANGED <<ctrlCmd, motionOut, ctrlOut, frameVars, faultVars, taskVars>>

OnCtrlCmd ==
    \/ \E n \in Lights : CtrlLight(n)
    \/ \E on \in BOOLEAN : CtrlEmergency(on)
    \/ \E on \in BOOLEAN : CtrlDriveEnable(on)
    \/ CtrlStopWork
    \/ \E dir \in 0..4 : CtrlWalk(dir)
    \/ CtrlGotoTarget
-----------------------------------------------------------------------------
(* The timers that send: 0x200 every 100 ms, 0x201 every 10 ms.            *)

(* Fault: the copy under the lock is left out after a first frame.         *)
SendControlFrameOnce ==
    /\ ctrlOut' = IF ctrlOut = {} THEN EncodeControl(ctrlCmd) ELSE ctrlOut
    /\ UNCHANGED <<ctrlCmd, motionCmd, motionOut, intent, frameVars, faultVars, taskVars>>
SendControlFrame ==
    /\ ctrlOut' = EncodeControl(ctrlCmd)
    /\ UNCHANGED <<ctrlCmd, motionCmd, motionOut, intent, frameVars, faultVars, taskVars>>

SendMotionFrame ==
    LET heartbeat == (motionCmd.heartbeat + 1) % HbModulus IN
    /\ motionCmd' = [motionCmd EXCEPT !.heartbeat = heartbeat]
    /\ motionOut' = <<EncodeSpeed(motionCmd.linearSpeed), EncodeSpeed(motionCmd.angularSpeed),
                      heartbeat>>
    /\ UNCHANGED <<ctrlCmd, ctrlOut, intent, frameVars, faultVars, taskVars>>
-----------------------------------------------------------------------------
Init ==
    /\ world \in Worlds
    /\ vcu = [fresh |-> FALSE, bits |-> {}]
    /\ bms = [fresh |-> FALSE, chargeState |-> 0, gunConnected |-> FALSE,
              errorCode |-> ByteMax, errorLevel |-> 0]
    /\ motor = [left |-> {}, right |-> {}]
    /\ fresh = {} /\ silent = {} /\ vcuOnline = FALSE /\ statusOut = FALSE
    /\ lastFaults = {} /\ lastAlarms = {}
    /\ currentTaskId = 0 /\ taskActive = FALSE /\ taskFinished = FALSE
    /\ ctrlCmd = [lightCtrl |-> 0, emergencyStop |-> FALSE, driveEnable |-> TRUE]
    /\ motionCmd = [linearSpeed |-> 0, angularSpeed |-> 0, heartbeat |-> 0]
    /\ faultOut = [report |-> NoReport, toggle |-> FALSE]
    /\ taskOut = [state |-> "none", taskId |-> 0]
    /\ motionOut = <<>>
    /\ ctrlOut = {}
    /\ sampled = NoReport
    /\ intent = <<0, 0>>

FrameStep ==
    \/ \E bits \in VcuFrames[world] : OnVcuFlags(bits)
    \/ \E b \in BmsFrames[world] : OnBmsFault(b)
    \/ \E m \in MotorFrames[world] : OnMotorFaults(m)
    \/ \E kind \in StatusFrames : OnStatusFrame(kind)
    \/ \E kind \in TimedFrames : VcuFallsSilent(kind)

TopicStep ==
    \/ \E id \in TaskIds \cup {currentTaskId} : OnTaskCmd(id)
    \/ OnTaskPause \/ OnTaskResume \/ OnTaskCancel
    \/ \E twist \in Twists : OnCmdVelHighfreq(twist[1], twist[2])
    \/ OnCtrlCmd

TimerStep ==
    \/ FaultTimer \/ TaskStateTimer \/ StatusTimer \/ CheckVcuTimeout
    \/ SendControlFrame \/ SendMotionFrame

Next == FrameStep \/ TopicStep \/ TimerStep

Spec == Init /\ [][Next]_vars

(* The ros::Timers run while the node spins.                               *)
TimerFairness ==
    /\ WF_vars(FaultTimer) /\ WF_vars(TaskStateTimer)
    /\ WF_vars(StatusTimer) /\ WF_vars(CheckVcuTimeout)
    /\ WF_vars(SendControlFrame) /\ WF_vars(SendMotionFrame)

FairSpec == Spec /\ TimerFairness
-----------------------------------------------------------------------------
FrameTypeOK ==
    /\ world \in Worlds
    /\ vcu \in Flags /\ bms \in Battery /\ motor \in Motors
    /\ fresh \subseteq StatusFrames /\ silent \subseteq TimedFrames
    /\ vcuOnline \in BOOLEAN /\ statusOut \in BOOLEAN
FaultTypeOK ==
    /\ [faults |-> lastFaults, alarms |-> lastAlarms] \in Reports
    /\ faultOut \in [report : Reports, toggle : BOOLEAN]
    /\ sampled \in Reports
TaskTypeOK ==
    /\ currentTaskId \in TaskIds \cup {0}
    /\ taskActive \in BOOLEAN /\ taskFinished \in BOOLEAN
    /\ taskOut \in [state : TaskStates \cup {"none"}, taskId : TaskIds \cup {0}]
DriveTypeOK ==
    /\ ctrlCmd \in Controls /\ ctrlOut \subseteq 0..7
    /\ motionCmd \in Speeds
    /\ motionOut \in {<<>>} \cup (0..WordMax) \X (0..WordMax) \X (0..(HbModulus - 1))
    /\ intent \in (Int16Min..Int16Max) \X (Int16Min..Int16Max)

(* Every variable has its type.                                            *)
TypeOK == FrameTypeOK /\ FaultTypeOK /\ TaskTypeOK /\ DriveTypeOK

(* A fault report is published exactly when a look at the faults finds     *)
(* some and not those of the look before, whether the timer or a changed   *)
(* flag made publishFaultAlarm look: nothing is repeated, nothing is       *)
(* missed, and faults that went and came back are reported again.          *)
ReportsExactlyChanges ==
    [][faultOut'.toggle # faultOut.toggle <=> sampled' # sampled /\ sampled' # NoReport]_vars

(* While the last look found faults, the last report holds exactly these.  *)
ServerKnowsFaults == sampled # NoReport => faultOut.report = sampled

(* A fault or an alarm that stays in the received frames is reported, also *)
(* if it came in a frame that does not make publishFaultAlarm run.         *)
SentCodes ==
    UNION {FaultCodes(bits, m) : bits \in UNION {VcuFrames[w] : w \in Worlds},
                                 m \in UNION {MotorFrames[w] : w \in Worlds}}
SentAlarms ==
    {<<b.errorCode, b.errorLevel>> :
        b \in {f \in UNION {BmsFrames[w] : w \in Worlds} : IsAlarm(f.errorCode)}}
FaultEventuallyReported ==
    /\ \A c \in SentCodes : c \in Collected(vcu).faults ~>
            (c \in faultOut.report.faults \/ c \notin Collected(vcu).faults)
    /\ \A a \in SentAlarms : a \in Collected(vcu).alarms ~>
            (a \in faultOut.report.alarms \/ a \notin Collected(vcu).alarms)

(* The robot's status is published once every frame that it is made of has *)
(* come, in whatever order.                                                *)
StatusFlows == (fresh = StatusFrames /\ vcu.fresh) ~> statusOut

(* A finished task is reported as finished, unless it is replaced or a     *)
(* state of the vehicle goes before it; that no flag frame has come yet is *)
(* no reason to hide it.                                                   *)
GoesBeforeTask ==
    \/ EmergencyActive \/ TakeoverActive
    \/ bms.fresh /\ (bms.chargeState = 1 \/ (bms.gunConnected /\ bms.chargeState = 0))
FinishedReported ==
    taskFinished ~> (taskOut.state = "FINISHED" \/ ~taskFinished \/ GoesBeforeTask)

(* On each axis the VCU reads from a 0x201 frame the speed of the last     *)
(* movement command, whichever topic it came on, if that is at most 27767  *)
(* milli-units: the walk axis that is not asked for stands still.  Above,  *)
(* offset and speed do not fit into 16 bits, and the word that goes out    *)
(* reads as a fast speed the other way: 27768 as -37768.                   *)
SentIsAsked ==
    [][motionOut' # motionOut =>
          \A k \in 1..2 : intent[k] <= Int16Max - SpeedOffsetRaw =>
                              DecodeSpeed(motionOut'[k]) = intent[k]]_vars

(* From frame to frame the heartbeat that the VCU watches goes on by one,  *)
(* whatever commands come in between.                                      *)
HeartbeatCounts ==
    [][motionOut' # motionOut /\ motionOut # <<>> =>
          motionOut'[3] = (motionOut[3] + 1) % HbModulus]_vars

(* A 0x200 frame stops or enables the robot as the commands said, and      *)
(* moves no gun or arm: a light command with a number that is too large    *)
(* does not reach the bits beside its own.                                 *)
ControlBitsAsked ==
    [][ctrlOut' # ctrlOut =>
          ctrlOut' \ LightBits = (IF ctrlCmd.emergencyStop THEN {EmergencyBit} ELSE {})
                                    \cup (IF ctrlCmd.driveEnable THEN {DriveBit} ELSE {})]_vars

(* An emergency stop of the server gets onto the bus unless it is revoked. *)
EmergencyStopSent ==
    ctrlCmd.emergencyStop ~> (EmergencyBit \in ctrlOut \/ ~ctrlCmd.emergencyStop)
-----------------------------------------------------------------------------
(* A statement of the sources that the handlers above refute.              *)

(* Rule 1 of publishTaskState: while a timed frame of the VCU is overdue   *)
(* and vcuOnline_ is false, the robot is not reported as idle.             *)
OfflineMeansCannotExecute ==
    [][taskOut' # taskOut /\ silent # {} /\ ~vcuOnline => taskOut'.state # "IDLE"]_vars
=============================================================================
