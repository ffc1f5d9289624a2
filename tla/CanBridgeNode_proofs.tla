------------------------ MODULE CanBridgeNode_proofs ------------------------
(***************************************************************************)
(* Theorems about CanBridgeNode, for all frames of the VCU, task numbers,  *)
(* speeds and lights, in any number of worlds.                             *)
(***************************************************************************)
EXTENDS CanBridgeNode, TLAPS

(* The limits of a 16-bit signed number are numbers.                       *)
LEMMA Int16Limits == Int16Min \in Int /\ Int16Max \in Int /\ Int16Min <= -Int16Max /\ 0 <= Int16Max
  BY SMT DEF Int16Min, Int16Max

(* toRaw saturates any number to 16 bits.                                  *)
LEMMA RawRange ==
  ASSUME NEW v \in Int
  PROVE  ToRaw(v) \in Int16Min..Int16Max
  BY Int16Limits, SMT DEF ToRaw

(* encodeMotionCmd puts 16 bits on the bus.                                *)
LEMMA WordRange ==
  ASSUME NEW v \in Int
  PROVE  EncodeSpeed(v) \in 0..WordMax
<1>1. EncodeSpeed(v) \in Int /\ 0 <= EncodeSpeed(v) /\ EncodeSpeed(v) <= WordMax
  BY SMTT(30) DEF EncodeSpeed, SpeedOffsetRaw, WordMax
<1>2. WordMax \in Int
  BY SMT DEF WordMax
<1> QED
  BY <1>1, <1>2, SMT

(* Offset and width lose nothing of a speed up to 27767 milli-units.       *)
LEMMA SpeedRoundTrip ==
  ASSUME NEW v \in Int, Int16Min <= v, v <= Int16Max - SpeedOffsetRaw
  PROVE  DecodeSpeed(EncodeSpeed(v)) = v
<1> DEFINE w == (v + 5000) % 65536
<1>1. CASE v + 5000 >= 0
  <2>1. w = v + 5000
    BY <1>1, SMT DEF Int16Min, Int16Max, SpeedOffsetRaw
  <2> QED
    BY <2>1, <1>1, SMT
    DEF DecodeSpeed, EncodeSpeed, Signed16, SpeedOffsetRaw, WordMax, Int16Min, Int16Max
<1>2. CASE v + 5000 < 0
  <2>1. w = v + 70536
    BY <1>2, SMT DEF Int16Min, Int16Max, SpeedOffsetRaw
  <2> QED
    BY <2>1, <1>2, SMT
    DEF DecodeSpeed, EncodeSpeed, Signed16, SpeedOffsetRaw, WordMax, Int16Min, Int16Max
<1> QED
  BY <1>1, <1>2, SMT
-----------------------------------------------------------------------------
(* Types.                                                                  *)

(* Codes are numbers.                                                      *)
LEMMA CodesType ==
  ASSUME NEW bits \in SUBSET VcuBits, NEW motors \in Motors
  PROVE  FaultCodes(bits, motors) \in SUBSET Nat
<1>1. \A b \in MotorBits : MotorCode(LeftBase, b) \in Nat /\ MotorCode(RightBase, b) \in Nat
  BY SMT DEF MotorBits, MotorCode, LeftBase, RightBase
<1>2. \A b \in VcuBits : b \in FaultBits => VcuCode(b) \in Nat
  BY SMT DEF VcuBits, FaultBits, VcuCode
<1> QED
  BY <1>1, <1>2 DEF FaultCodes, Motors

(* What collectFaults returns is a report.                                 *)
LEMMA CollectedType ==
  ASSUME FrameTypeOK, NEW v \in Flags
  PROVE  Collected(v) \in Reports
<1>1. (IF v.fresh THEN v.bits ELSE {}) \in SUBSET VcuBits /\ motor \in Motors
  BY DEF Flags, FrameTypeOK
<1>2. Collected(v).faults \in SUBSET Nat
  BY <1>1, CodesType DEF Collected
<1>3. Collected(v).alarms \in SUBSET ((0..ByteMax) \X (0..ByteMax))
  BY DEF Collected, FrameTypeOK, Battery
<1> QED
  BY <1>2, <1>3 DEF Collected, Reports

(* publishFaultAlarm keeps the types of its own variables.                 *)
LEMMA LookKeepsTypes ==
  ASSUME TypeOK, NEW v \in Flags, PublishFaultAlarm(v)
  PROVE  FaultTypeOK'
<1>1. Collected(v) \in Reports
  BY CollectedType DEF TypeOK
<1> QED
  BY <1>1 DEF TypeOK, FaultTypeOK, PublishFaultAlarm, Reports

LEMMA InitTypes == Init => TypeOK
<1> SUFFICES ASSUME Init PROVE TypeOK
  OBVIOUS
<1>1. FrameTypeOK
  <2>1. vcu \in Flags
    BY DEF Init, Flags
  <2>2. bms \in Battery
    BY SMT DEF Init, Battery, ByteMax
  <2> QED
    BY <2>1, <2>2 DEF Init, FrameTypeOK, Motors
<1>2. FaultTypeOK
  BY DEF Init, FaultTypeOK, Reports, NoReport
<1>3. TaskTypeOK
  BY DEF Init, TaskTypeOK
<1>4. DriveTypeOK
  <2>1. 0 \in 0..(HbModulus - 1) /\ 0 \in 0..ByteMax /\ 0 \in Int16Min..Int16Max
    BY CommandsAssumption, Int16Limits, SMT DEF ByteMax
  <2> QED
    BY <2>1 DEF Init, DriveTypeOK, Controls, Speeds
<1> QED
  BY <1>1, <1>2, <1>3, <1>4 DEF TypeOK

(* A step of the frame handlers keeps the types.                           *)
LEMMA FrameStepTypes == TypeOK /\ FrameStep => TypeOK'
<1> SUFFICES ASSUME TypeOK, FrameStep PROVE TypeOK'
  OBVIOUS
<1> USE DEF TypeOK, taskVars, driveVars, frameVars, faultVars
<1>1. ASSUME NEW bits \in SUBSET VcuBits, OnVcuFlags(bits) PROVE TypeOK'
  <2>1. vcu' \in Flags
    BY <1>1 DEF OnVcuFlags, Flags
  <2>2. FaultTypeOK'
    BY <1>1, <2>1, LookKeepsTypes DEF OnVcuFlags, FaultTypeOK
  <2> QED
    BY <1>1, <2>1, <2>2 DEF OnVcuFlags, FrameTypeOK, TaskTypeOK, DriveTypeOK
<1>2. ASSUME NEW b \in Battery, OnBmsFault(b) PROVE TypeOK'
  BY <1>2 DEF OnBmsFault, FrameTypeOK, FaultTypeOK, TaskTypeOK, DriveTypeOK
<1>3. ASSUME NEW m \in Motors, OnMotorFaults(m) PROVE TypeOK'
  BY <1>3 DEF OnMotorFaults, FrameTypeOK, FaultTypeOK, TaskTypeOK, DriveTypeOK
<1>4. ASSUME NEW kind \in StatusFrames, OnStatusFrame(kind) PROVE TypeOK'
  BY <1>4 DEF OnStatusFrame, FrameTypeOK, FaultTypeOK, TaskTypeOK, DriveTypeOK
<1>5. ASSUME NEW kind \in TimedFrames, VcuFallsSilent(kind) PROVE TypeOK'
  BY <1>5 DEF VcuFallsSilent, FrameTypeOK, FaultTypeOK, TaskTypeOK, DriveTypeOK
<1>6. /\ VcuFrames[world] \in SUBSET SUBSET VcuBits
      /\ BmsFrames[world] \in SUBSET Battery
      /\ MotorFrames[world] \in SUBSET Motors
  BY WorldsAssumption DEF FrameTypeOK
<1> QED
  BY <1>1, <1>2, <1>3, <1>4, <1>5, <1>6 DEF FrameStep

(* The registers a movement command leaves are 16-bit numbers.             *)
LEMMA TwistTypes ==
  ASSUME TypeOK, NEW twist \in Twists, OnCmdVelHighfreq(twist[1], twist[2])
  PROVE  TypeOK'
<1>1. twist[1] \in Int /\ twist[2] \in Int
  BY CommandsAssumption
<1>2. ToRaw(twist[1]) \in Int16Min..Int16Max /\ ToRaw(twist[2]) \in Int16Min..Int16Max
  BY <1>1, RawRange
<1> QED
  BY <1>2 DEF OnCmdVelHighfreq, TypeOK, FrameTypeOK, FaultTypeOK, TaskTypeOK, DriveTypeOK,
              Speeds, Controls, frameVars, faultVars, taskVars

LEMMA WalkRange ==
  /\ WalkSpeeds[1] \in Int16Min..Int16Max /\ -WalkSpeeds[1] \in Int16Min..Int16Max
  /\ WalkSpeeds[2] \in Int16Min..Int16Max /\ -WalkSpeeds[2] \in Int16Min..Int16Max
  /\ 0 \in Int16Min..Int16Max
<1>1. WalkSpeeds[1] \in 0..Int16Max /\ WalkSpeeds[2] \in 0..Int16Max
  BY CommandsAssumption
<1> QED
  BY <1>1, Int16Limits, SMT

(* Whatever the conversion makes of a number, it is a byte.                *)
LEMMA LightRange ==
  ASSUME NEW n \in Int
  PROVE  LightBytes(n) \subseteq 0..ByteMax
<1>1. ByteMax + 1 = 256 /\ 0..ByteMax = 0..255
  BY DEF ByteMax
<1>2. n % 256 \in 0..255 /\ 0 \in 0..255
  BY SMT
<1> QED
  BY <1>1, <1>2 DEF LightBytes

LEMMA CtrlTypes == TypeOK /\ OnCtrlCmd => TypeOK'
<1> SUFFICES ASSUME TypeOK, OnCtrlCmd PROVE TypeOK'
  OBVIOUS
<1> USE DEF TypeOK, FrameTypeOK, FaultTypeOK, TaskTypeOK, DriveTypeOK,
            frameVars, faultVars, taskVars
<1>0. ASSUME NEW n \in Lights, CtrlLight(n) PROVE TypeOK'
  <2>1. LightBytes(n) \subseteq 0..ByteMax
    BY LightRange, CommandsAssumption
  <2> QED
    BY <1>0, <2>1 DEF CtrlLight, Controls
<1>1. ASSUME NEW on \in BOOLEAN, CtrlEmergency(on) PROVE TypeOK'
  BY <1>1 DEF CtrlEmergency, Controls
<1>2. ASSUME NEW on \in BOOLEAN, CtrlDriveEnable(on) PROVE TypeOK'
  BY <1>2 DEF CtrlDriveEnable, Controls
<1>3. CASE CtrlStopWork
  BY <1>3 DEF CtrlStopWork, SetTask, Controls
<1>4. ASSUME NEW dir \in 0..4, CtrlWalk(dir) PROVE TypeOK'
  <2>1. motionCmd' \in Speeds
    BY <1>4, WalkRange DEF CtrlWalk, Walk, Speeds
  <2>2. intent' \in (Int16Min..Int16Max) \X (Int16Min..Int16Max)
    BY <1>4, WalkRange DEF CtrlWalk, Toward
  <2> QED
    BY <1>4, <2>1, <2>2 DEF CtrlWalk
<1>5. CASE CtrlGotoTarget
  BY <1>5, WalkRange DEF CtrlGotoTarget, Walk, Speeds
<1> QED
  BY <1>0, <1>1, <1>2, <1>3, <1>4, <1>5 DEF OnCtrlCmd

LEMMA TopicStepTypes == TypeOK /\ TopicStep => TypeOK'
<1> SUFFICES ASSUME TypeOK, TopicStep PROVE TypeOK'
  OBVIOUS
<1>1. ASSUME NEW id \in TaskIds \cup {currentTaskId}, OnTaskCmd(id) PROVE TypeOK'
  BY <1>1 DEF OnTaskCmd, SetTask, TypeOK, FrameTypeOK, FaultTypeOK, TaskTypeOK, DriveTypeOK,
              frameVars, faultVars, driveVars
<1>2. CASE OnTaskPause \/ OnTaskResume \/ OnTaskCancel
  BY <1>2 DEF OnTaskPause, OnTaskResume, OnTaskCancel, TaskCtrl, SetTask,
              TypeOK, FrameTypeOK, FaultTypeOK, TaskTypeOK, DriveTypeOK,
              frameVars, faultVars, driveVars
<1> QED
  BY <1>1, <1>2, TwistTypes, CtrlTypes DEF TopicStep

(* The heartbeat stays below its modulus.                                  *)
LEMMA HeartbeatRange ==
  ASSUME motionCmd \in Speeds
  PROVE  (motionCmd.heartbeat + 1) % HbModulus \in 0..(HbModulus - 1)
<1>1. motionCmd.heartbeat \in Int /\ HbModulus \in Nat \ {0}
  BY CommandsAssumption DEF Speeds
<1>2. ASSUME NEW k \in Int, NEW m \in Nat \ {0} PROVE k % m \in 0..(m - 1)
  BY SMT
<1>3. motionCmd.heartbeat + 1 \in Int
  BY <1>1, SMT
<1> QED
  BY <1>1, <1>2, <1>3

LEMMA TimerStepTypes == TypeOK /\ TimerStep => TypeOK'
<1> SUFFICES ASSUME TypeOK, TimerStep PROVE TypeOK'
  OBVIOUS
<1> USE DEF TypeOK, frameVars, faultVars, taskVars, driveVars
<1>1. CASE FaultTimer
  <2>1. vcu \in Flags
    BY DEF FrameTypeOK
  <2>2. FaultTypeOK'
    BY <1>1, <2>1, LookKeepsTypes DEF FaultTimer
  <2> QED
    BY <1>1, <2>2 DEF FaultTimer, FrameTypeOK, TaskTypeOK, DriveTypeOK
<1>2. CASE TaskStateTimer
  <2>1. TaskState \in TaskStates
    BY DEF TaskState, TaskStates, FrameTypeOK, Flags
  <2> QED
    BY <1>2, <2>1 DEF TaskStateTimer, FrameTypeOK, FaultTypeOK, TaskTypeOK, DriveTypeOK
<1>3. CASE CheckVcuTimeout \/ StatusTimer
  BY <1>3 DEF CheckVcuTimeout, StatusTimer, FrameTypeOK, FaultTypeOK, TaskTypeOK, DriveTypeOK
<1>4. CASE SendControlFrame
  <2>1. EncodeControl(ctrlCmd) \subseteq 0..7
    BY SMT DEF EncodeControl, EmergencyBit, DriveBit
  <2> QED
    BY <1>4, <2>1 DEF SendControlFrame, FrameTypeOK, FaultTypeOK, TaskTypeOK, DriveTypeOK
<1>5. CASE SendMotionFrame
  <2>1. motionCmd.linearSpeed \in Int /\ motionCmd.angularSpeed \in Int
    BY Int16Limits DEF DriveTypeOK, Speeds
  <2>2. (motionCmd.heartbeat + 1) % HbModulus \in 0..(HbModulus - 1)
    BY HeartbeatRange DEF DriveTypeOK
  <2>3. motionOut' \in (0..WordMax) \X (0..WordMax) \X (0..(HbModulus - 1))
    BY <1>5, <2>1, <2>2, WordRange DEF SendMotionFrame
  <2>4. motionCmd' \in Speeds
    BY <1>5, <2>2 DEF SendMotionFrame, DriveTypeOK, Speeds
  <2> QED
    BY <1>5, <2>3, <2>4 DEF SendMotionFrame, FrameTypeOK, FaultTypeOK, TaskTypeOK, DriveTypeOK
<1> QED
  BY <1>1, <1>2, <1>3, <1>4, <1>5 DEF TimerStep

LEMMA NextTypes == TypeOK /\ [Next]_vars => TypeOK'
<1> SUFFICES ASSUME TypeOK, [Next]_vars PROVE TypeOK'
  OBVIOUS
<1>1. CASE Next
  BY <1>1, FrameStepTypes, TopicStepTypes, TimerStepTypes DEF Next
<1>2. CASE UNCHANGED vars
  BY <1>2 DEF vars, frameVars, faultVars, taskVars, driveVars,
              TypeOK, FrameTypeOK, FaultTypeOK, TaskTypeOK, DriveTypeOK
<1> QED
  BY <1>1, <1>2

(* All variables keep their types: the speed registers never leave 16      *)
(* bits, whatever arrives on /cmd_vel_highfreq.                            *)
THEOREM TypeCorrect == Spec => []TypeOK
  BY InitTypes, NextTypes, PTL DEF Spec
-----------------------------------------------------------------------------
(* Fault reporting.                                                        *)

(* What the two properties rest on: the cache of the last report is what   *)
(* the last look found, also when it found nothing.                        *)
FaultInv ==
    /\ sampled = [faults |-> lastFaults, alarms |-> lastAlarms]
    /\ ServerKnowsFaults

LEMMA LookKeepsFaultInv ==
  ASSUME FaultInv, TypeOK, NEW v \in Flags, PublishFaultAlarm(v)
  PROVE  /\ FaultInv'
         /\ faultOut'.toggle # faultOut.toggle <=> sampled' # sampled /\ sampled' # NoReport
<1> DEFINE now == Collected(v)
<1>1. now \in Reports
  BY CollectedType DEF TypeOK
<1>2. now = [faults |-> now.faults, alarms |-> now.alarms]
  BY <1>1 DEF Reports
<1>3. faultOut.toggle \in BOOLEAN
  BY DEF TypeOK, FaultTypeOK
<1> HIDE DEF now
<1>4. sampled' = now /\ lastFaults' = now.faults /\ lastAlarms' = now.alarms
  BY DEF PublishFaultAlarm, now
<1>5. CASE now = NoReport \/ now = sampled
  <2>1. faultOut' = faultOut
    BY <1>5 DEF PublishFaultAlarm, FaultInv, now
  <2> QED
    BY <1>2, <1>4, <1>5, <2>1 DEF FaultInv, ServerKnowsFaults
<1>6. CASE now # NoReport /\ now # sampled
  <2>1. faultOut' = [report |-> now, toggle |-> ~faultOut.toggle]
    BY <1>6 DEF PublishFaultAlarm, FaultInv, now
  <2> QED
    BY <1>2, <1>3, <1>4, <1>6, <2>1 DEF FaultInv, ServerKnowsFaults
<1> QED
  BY <1>5, <1>6

LEMMA FaultStep ==
  ASSUME FaultInv, TypeOK, [Next]_vars
  PROVE  /\ FaultInv'
         /\ faultOut'.toggle # faultOut.toggle <=> sampled' # sampled /\ sampled' # NoReport
<1> DEFINE Goal == /\ FaultInv'
                   /\ faultOut'.toggle # faultOut.toggle
                        <=> sampled' # sampled /\ sampled' # NoReport
<1> SUFFICES Goal
  OBVIOUS
<1>1. ASSUME UNCHANGED faultVars PROVE Goal
  BY <1>1 DEF faultVars, FaultInv, ServerKnowsFaults
<1>2. ASSUME NEW v \in Flags, PublishFaultAlarm(v) PROVE Goal
  BY <1>2, LookKeepsFaultInv
<1> HIDE DEF Goal
<1>3. CASE FaultTimer
  BY <1>2, <1>3 DEF FaultTimer, TypeOK, FrameTypeOK
<1>4. ASSUME NEW bits \in SUBSET VcuBits, OnVcuFlags(bits) PROVE Goal
  BY <1>1, <1>2, <1>4 DEF OnVcuFlags, Flags
<1>5. CASE FrameStep
  <2>1. VcuFrames[world] \in SUBSET SUBSET VcuBits
    BY WorldsAssumption DEF TypeOK, FrameTypeOK
  <2> QED
    BY <1>1, <1>4, <1>5, <2>1
    DEF FrameStep, OnBmsFault, OnMotorFaults, OnStatusFrame, VcuFallsSilent
<1>6. CASE TopicStep
  BY <1>1, <1>6
  DEF TopicStep, OnTaskCmd, OnTaskPause, OnTaskResume, OnTaskCancel, TaskCtrl, OnCmdVelHighfreq,
      OnCtrlCmd, CtrlLight, CtrlEmergency, CtrlDriveEnable, CtrlStopWork, CtrlWalk, CtrlGotoTarget
<1>7. CASE TimerStep
  BY <1>1, <1>3, <1>7
  DEF TimerStep, TaskStateTimer, StatusTimer, CheckVcuTimeout, SendControlFrame, SendMotionFrame
<1>8. CASE UNCHANGED vars
  BY <1>1, <1>8 DEF vars
<1> QED
  BY <1>5, <1>6, <1>7, <1>8 DEF Next

LEMMA FaultInvariant == Spec => []FaultInv
<1>1. Init => FaultInv
  BY DEF Init, FaultInv, ServerKnowsFaults, NoReport
<1>2. FaultInv /\ TypeOK /\ [Next]_vars => FaultInv'
  BY FaultStep
<1> QED
  BY <1>1, <1>2, TypeCorrect, PTL DEF Spec

(* While the last look at the faults found some, the last report holds     *)
(* exactly these.                                                          *)
THEOREM FaultsKnown == Spec => []ServerKnowsFaults
<1>1. FaultInv => ServerKnowsFaults
  BY DEF FaultInv
<1> QED
  BY <1>1, FaultInvariant, PTL

(* Reports are published for the changes of the faults, once each.         *)
THEOREM FaultReporting == Spec => ReportsExactlyChanges
<1>1. FaultInv /\ TypeOK /\ [Next]_vars
        => [faultOut'.toggle # faultOut.toggle <=> sampled' # sampled /\ sampled' # NoReport]_vars
  BY FaultStep
<1> QED
  BY <1>1, FaultInvariant, TypeCorrect, PTL DEF Spec, ReportsExactlyChanges
-----------------------------------------------------------------------------
(* Driving.                                                                *)

(* The command register is what the last movement command asked for.       *)
DriveInv == intent = <<motionCmd.linearSpeed, motionCmd.angularSpeed>>

(* Each step and the variables of driving it changes.                      *)
LEMMA DriveCases ==
  ASSUME [Next]_vars
  PROVE  \/ UNCHANGED <<motionCmd, motionOut, intent>>
         \/ \E twist \in Twists : OnCmdVelHighfreq(twist[1], twist[2])
         \/ \E dir \in 0..4 : CtrlWalk(dir)
         \/ CtrlGotoTarget
         \/ SendMotionFrame
<1>1. CASE FrameStep
  BY <1>1
  DEF FrameStep, OnVcuFlags, OnBmsFault, OnMotorFaults, OnStatusFrame, VcuFallsSilent, driveVars
<1>2. CASE TopicStep
  BY <1>2
  DEF TopicStep, OnTaskCmd, OnTaskPause, OnTaskResume, OnTaskCancel, TaskCtrl, driveVars,
      OnCtrlCmd, CtrlLight, CtrlEmergency, CtrlDriveEnable, CtrlStopWork
<1>3. CASE TimerStep
  BY <1>3
  DEF TimerStep, FaultTimer, TaskStateTimer, StatusTimer, CheckVcuTimeout, SendControlFrame,
      driveVars
<1>4. CASE UNCHANGED vars
  BY <1>4 DEF vars, driveVars
<1> QED
  BY <1>1, <1>2, <1>3, <1>4 DEF Next

(* Only the movement commands touch the speeds and what is asked for.      *)
LEMMA DriveStep ==
  ASSUME DriveInv, TypeOK, [Next]_vars
  PROVE  DriveInv'
<1>0. motionCmd \in Speeds
  BY DEF TypeOK, DriveTypeOK
<1>1. CASE UNCHANGED <<motionCmd, motionOut, intent>>
  BY <1>1 DEF DriveInv
<1>2. ASSUME NEW twist \in Twists, OnCmdVelHighfreq(twist[1], twist[2]) PROVE DriveInv'
  BY <1>0, <1>2 DEF OnCmdVelHighfreq, DriveInv, Speeds
<1>3. ASSUME NEW dir \in 0..4, CtrlWalk(dir) PROVE DriveInv'
  <2>1. <<motionCmd'.linearSpeed, motionCmd'.angularSpeed>>
          = Toward(dir, WalkSpeeds[1], WalkSpeeds[2])
    <3>1. /\ dir = 0 => Walk(WalkSpeeds[1], 0)
          /\ dir = 1 => Walk(-WalkSpeeds[1], 0)
          /\ dir = 2 => Walk(0, WalkSpeeds[2])
          /\ dir = 3 => Walk(0, -WalkSpeeds[2])
          /\ dir = 4 => Walk(0, 0)
      BY <1>3, SMT DEF CtrlWalk
    <3>2. ASSUME NEW l, NEW a, Walk(l, a)
          PROVE  motionCmd'.linearSpeed = l /\ motionCmd'.angularSpeed = a
      BY <1>0, <3>2 DEF Walk, Speeds
    <3> QED
      BY <3>1, <3>2, SMT DEF Toward
  <2>2. intent' = Toward(dir, WalkSpeeds[1], WalkSpeeds[2])
    BY <1>3 DEF CtrlWalk
  <2> QED
    BY <2>1, <2>2 DEF DriveInv
<1>4. CASE CtrlGotoTarget
  BY <1>0, <1>4 DEF CtrlGotoTarget, Walk, DriveInv, Speeds
<1>5. CASE SendMotionFrame
  BY <1>0, <1>5 DEF SendMotionFrame, DriveInv, Speeds
<1> QED
  BY <1>1, <1>2, <1>3, <1>4, <1>5, DriveCases

(* Only sendMotionFrame writes a 0x201 frame.                              *)
LEMMA OnlyTimerSends ==
  ASSUME [Next]_vars, motionOut' # motionOut
  PROVE  SendMotionFrame
  BY DriveCases DEF OnCmdVelHighfreq, CtrlWalk, CtrlGotoTarget

(* What it writes decodes to the register, up to the limit.                *)
LEMMA MotionFrameStep ==
  ASSUME DriveInv, TypeOK, [Next]_vars, motionOut' # motionOut
  PROVE  \A k \in 1..2 : intent[k] <= Int16Max - SpeedOffsetRaw =>
                             DecodeSpeed(motionOut'[k]) = intent[k]
<1> DEFINE Arrives(v) == v <= Int16Max - SpeedOffsetRaw => DecodeSpeed(EncodeSpeed(v)) = v
<1>1. \A v \in Int16Min..Int16Max : Arrives(v)
  BY SpeedRoundTrip, Int16Limits, SMT
<1>2. /\ motionCmd.linearSpeed \in Int16Min..Int16Max
      /\ motionCmd.angularSpeed \in Int16Min..Int16Max
  BY DEF TypeOK, DriveTypeOK, Speeds
<1>3. /\ motionOut'[1] = EncodeSpeed(motionCmd.linearSpeed)
      /\ motionOut'[2] = EncodeSpeed(motionCmd.angularSpeed)
  BY OnlyTimerSends DEF SendMotionFrame
<1>4. intent[1] = motionCmd.linearSpeed /\ intent[2] = motionCmd.angularSpeed
  BY DEF DriveInv
<1>5. Arrives(intent[1]) /\ Arrives(intent[2])
  BY <1>1, <1>2, <1>4
<1> QED
  BY <1>3, <1>4, <1>5, SMT

(* The VCU reads from every 0x201 frame, on each axis, the speed that the  *)
(* last movement command asked for, if it fits into 16 bits together with  *)
(* the offset.  That is a condition on each speed and no assumption about  *)
(* the commands: one that is too fast on one axis does not spoil the other *)
(* and is forgotten with the next command.                                 *)
THEOREM SpeedsArrive == Spec => SentIsAsked
<1>1. Init => DriveInv
  BY DEF Init, DriveInv
<1>2. DriveInv /\ TypeOK /\ [Next]_vars => DriveInv'
  BY DriveStep
<1>3. DriveInv /\ TypeOK /\ [Next]_vars
        => [motionOut' # motionOut =>
              \A k \in 1..2 : intent[k] <= Int16Max - SpeedOffsetRaw =>
                                  DecodeSpeed(motionOut'[k]) = intent[k]]_vars
  BY MotionFrameStep
<1> QED
  BY <1>1, <1>2, <1>3, TypeCorrect, PTL DEF Spec, SentIsAsked
-----------------------------------------------------------------------------
(* The heartbeat.                                                          *)

(* The frame that is on the bus has the number of the register.            *)
CountInv == motionOut # <<>> => motionOut[3] = motionCmd.heartbeat

LEMMA CountStep ==
  ASSUME CountInv, TypeOK, [Next]_vars
  PROVE  CountInv'
<1>0. motionCmd \in Speeds
  BY DEF TypeOK, DriveTypeOK
<1>1. CASE UNCHANGED <<motionCmd, motionOut, intent>>
  BY <1>1 DEF CountInv
<1>2. ASSUME NEW twist \in Twists, OnCmdVelHighfreq(twist[1], twist[2]) PROVE CountInv'
  BY <1>0, <1>2 DEF OnCmdVelHighfreq, CountInv, Speeds
<1>3. ASSUME NEW dir \in 0..4, CtrlWalk(dir) PROVE CountInv'
  BY <1>0, <1>3 DEF CtrlWalk, Walk, CountInv, Speeds
<1>4. CASE CtrlGotoTarget
  BY <1>0, <1>4 DEF CtrlGotoTarget, Walk, CountInv, Speeds
<1>5. CASE SendMotionFrame
  BY <1>0, <1>5 DEF SendMotionFrame, CountInv, Speeds
<1> QED
  BY <1>1, <1>2, <1>3, <1>4, <1>5, DriveCases

(* The heartbeat goes on by one from frame to frame, whatever commands     *)
(* change the register between two frames.                                 *)
THEOREM HeartbeatGoesOn == Spec => HeartbeatCounts
<1>1. Init => CountInv
  BY DEF Init, CountInv
<1>2. CountInv /\ TypeOK /\ [Next]_vars => CountInv'
  BY CountStep
<1>3. CountInv /\ [Next]_vars
        => [motionOut' # motionOut /\ motionOut # <<>> =>
              motionOut'[3] = (motionOut[3] + 1) % HbModulus]_vars
  BY OnlyTimerSends DEF SendMotionFrame, CountInv
<1> QED
  BY <1>1, <1>2, <1>3, TypeCorrect, PTL DEF Spec, HeartbeatCounts
-----------------------------------------------------------------------------
(* The control frame.                                                      *)

(* The light has its own two bits, whatever its number.                    *)
LEMMA LightKeepsToItsBits ==
  ASSUME NEW cmd
  PROVE  EncodeControl(cmd) \ LightBits
           = (IF cmd.emergencyStop THEN {EmergencyBit} ELSE {})
                \cup (IF cmd.driveEnable THEN {DriveBit} ELSE {})
<1>1. {k + 2 : k \in {i \in 0..1 : Bit(cmd.lightCtrl, i)}} \subseteq LightBits
  BY SMT DEF LightBits
<1>2. EmergencyBit \notin LightBits /\ DriveBit \notin LightBits
  BY SMT DEF LightBits, EmergencyBit, DriveBit
<1> HIDE DEF LightBits, EmergencyBit, DriveBit, Bit
<1> QED
  BY <1>1, <1>2 DEF EncodeControl

(* Only sendControlFrame writes a 0x200 frame.                             *)
LEMMA ControlCases ==
  ASSUME [Next]_vars, ctrlOut' # ctrlOut
  PROVE  SendControlFrame
<1>1. CASE FrameStep
  BY <1>1
  DEF FrameStep, OnVcuFlags, OnBmsFault, OnMotorFaults, OnStatusFrame, VcuFallsSilent, driveVars
<1>2. CASE TopicStep
  BY <1>2
  DEF TopicStep, OnTaskCmd, OnTaskPause, OnTaskResume, OnTaskCancel, TaskCtrl, driveVars,
      OnCmdVelHighfreq, OnCtrlCmd, CtrlLight, CtrlEmergency, CtrlDriveEnable, CtrlStopWork,
      CtrlWalk, CtrlGotoTarget
<1>3. CASE TimerStep
  BY <1>3
  DEF TimerStep, FaultTimer, TaskStateTimer, StatusTimer, CheckVcuTimeout, SendMotionFrame,
      driveVars
<1>4. CASE UNCHANGED vars
  BY <1>4 DEF vars, driveVars
<1> QED
  BY <1>1, <1>2, <1>3, <1>4 DEF Next

(* A 0x200 frame holds the stop and the drive bit that the commands left,  *)
(* and outside the two bits of the light nothing else.                     *)
THEOREM ControlFrameExact == Spec => ControlBitsAsked
<1>1. [Next]_vars
        => [ctrlOut' # ctrlOut =>
              ctrlOut' \ LightBits = (IF ctrlCmd.emergencyStop THEN {EmergencyBit} ELSE {})
                 \cup (IF ctrlCmd.driveEnable THEN {DriveBit} ELSE {})]_vars
  BY ControlCases, LightKeepsToItsBits DEF SendControlFrame
<1> QED
  BY <1>1, PTL DEF Spec, ControlBitsAsked
-----------------------------------------------------------------------------
(* Fault codes.                                                            *)

(* No two bits of the three bitmaps have one code, so that the server can  *)
(* tell from the codes which bits are set: the left motor's 1000 to 1031,  *)
(* the right motor's 2000 to 2031 and the VCU's 3001 to 3023.              *)
THEOREM CodesTellFaultsApart ==
  ASSUME NEW v1 \in SUBSET VcuBits, NEW m1 \in Motors,
         NEW v2 \in SUBSET VcuBits, NEW m2 \in Motors,
         FaultCodes(v1, m1) = FaultCodes(v2, m2)
  PROVE  m1 = m2 /\ v1 \cap FaultBits = v2 \cap FaultBits
<1> DEFINE L(b) == MotorCode(LeftBase, b)
           R(b) == MotorCode(RightBase, b)
<1>1. \A b \in MotorBits : L(b) = 1000 + b /\ R(b) = 2000 + b
  BY SMT DEF MotorBits, MotorCode, LeftBase, RightBase
<1>2. \A b \in VcuBits \cap FaultBits : VcuCode(b) >= 3001 /\ VcuCode(b) \in Int
  BY SMT DEF VcuBits, FaultBits, VcuCode
<1>3. \A b, c \in VcuBits \cap FaultBits : VcuCode(b) = VcuCode(c) => b = c
  BY SMT DEF VcuBits, FaultBits, VcuCode
<1>4. MotorBits \subseteq 0..31
  BY DEF MotorBits
<1> DEFINE Codes(v, m) == {L(b) : b \in m.left} \cup {R(b) : b \in m.right}
                            \cup {VcuCode(b) : b \in v \cap FaultBits}
<1>5. Codes(v1, m1) = Codes(v2, m2)
  BY DEF FaultCodes
<1> HIDE DEF L, R
<1>6. ASSUME NEW v \in SUBSET VcuBits, NEW m \in Motors
      PROVE  /\ m.left = {b \in MotorBits : L(b) \in Codes(v, m)}
             /\ m.right = {b \in MotorBits : R(b) \in Codes(v, m)}
             /\ v \cap FaultBits = {b \in VcuBits \cap FaultBits : VcuCode(b) \in Codes(v, m)}
  <2>0. m.left \subseteq MotorBits /\ m.right \subseteq MotorBits
    BY DEF Motors
  <2>1. ASSUME NEW b \in MotorBits PROVE L(b) \in Codes(v, m) <=> b \in m.left
    BY <2>0, <1>1, <1>2, <1>4, SMT
  <2>2. ASSUME NEW b \in MotorBits PROVE R(b) \in Codes(v, m) <=> b \in m.right
    BY <2>0, <1>1, <1>2, <1>4, SMT
  <2>3. ASSUME NEW b \in VcuBits \cap FaultBits
        PROVE  VcuCode(b) \in Codes(v, m) <=> b \in v
    BY <2>0, <1>1, <1>2, <1>3, <1>4, SMT
  <2> QED
    BY <2>0, <2>1, <2>2, <2>3
<1> HIDE DEF Codes
<1>7. /\ m1.left = {b \in MotorBits : L(b) \in Codes(v1, m1)}
      /\ m1.right = {b \in MotorBits : R(b) \in Codes(v1, m1)}
      /\ v1 \cap FaultBits = {b \in VcuBits \cap FaultBits : VcuCode(b) \in Codes(v1, m1)}
  BY <1>6
<1>8. /\ m2.left = {b \in MotorBits : L(b) \in Codes(v2, m2)}
      /\ m2.right = {b \in MotorBits : R(b) \in Codes(v2, m2)}
      /\ v2 \cap FaultBits = {b \in VcuBits \cap FaultBits : VcuCode(b) \in Codes(v2, m2)}
  BY <1>6
<1>9. m1.left = m2.left /\ m1.right = m2.right /\ v1 \cap FaultBits = v2 \cap FaultBits
  BY <1>5, <1>7, <1>8, Zenon
<1> QED
  BY <1>9 DEF Motors
=============================================================================
