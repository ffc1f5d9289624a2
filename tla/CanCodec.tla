------------------------------ MODULE CanCodec ------------------------------
(***************************************************************************)
(* The frames of CanCodec and the numbers in them: the fault bits and the  *)
(* codes collectFaults gives them, the bits of the 0x200 frame, and the    *)
(* speed words of the 0x201 frame with their 16 bits.  A byte or a bitmap  *)
(* is the set of its bits that are 1.                                      *)
(***************************************************************************)
EXTENDS Integers

(* Frame 0x18FF5521: the bits decodeVcuFaultFlags reads, those of them     *)
(* that are faults, and the two the task state looks at.                   *)
VcuBits == 0..36
FaultBits == {4} \cup 6..19 \cup 29..36
VehStopSwt == 20
HandleCtrlEn == 23

(* Codes 3001 to 3023 in the order of the bits.                             *)
VcuCode(bit) == IF bit = 4 THEN 3001 ELSE IF bit <= 19 THEN bit + 2996 ELSE bit + 2987

(* Frame 0x18FF5721: a bitmap for each motor; the codes above 12 count on  *)
(* from the extension base.                                                *)
MotorBits == 0..31
LeftBase == 1000
RightBase == 2000
MotorCode(base, bit) == IF bit < 13 THEN base + bit ELSE (base + 13) + (bit - 13)

FaultCodes(bits, motors) ==
    {MotorCode(LeftBase, b) : b \in motors.left} \cup {MotorCode(RightBase, b) : b \in motors.right}
        \cup {VcuCode(b) : b \in bits \cap FaultBits}

(* Frame 0x18FF5621: 0 and 0xFF are no alarms.                             *)
ByteMax == 255
IsAlarm(code) == code # 0 /\ code # ByteMax
-----------------------------------------------------------------------------
(* Byte 0 of frame 0x200; the light has two bits of it, whatever number    *)
(* the server sent.                                                        *)
EmergencyBit == 4
DriveBit == 5
LightBits == {2, 3}

Bit(n, k) == (n \div 2^k) % 2 = 1

(* Fault: the light is not cut to two bits.                                *)
EncodeControlUnmasked(cmd) ==
    {k + 2 : k \in {i \in 0..5 : Bit(cmd.lightCtrl, i)}}
        \cup (IF cmd.emergencyStop THEN {EmergencyBit} ELSE {})
        \cup (IF cmd.driveEnable THEN {DriveBit} ELSE {})
EncodeControl(cmd) ==
    {k + 2 : k \in {i \in 0..1 : Bit(cmd.lightCtrl, i)}}
        \cup (IF cmd.emergencyStop THEN {EmergencyBit} ELSE {})
        \cup (IF cmd.driveEnable THEN {DriveBit} ELSE {})
-----------------------------------------------------------------------------
(* Frame 0x201: onCmdVelHighfreq saturates a command to int16_t milli-     *)
(* units, encodeMotionCmd adds the offset of 5 m/s and keeps 16 bits, and  *)
(* the VCU reads a signed word minus the offset.                           *)

Int16Min == -32768
Int16Max == 32767
WordMax == 65535
SpeedOffsetRaw == 5000

(* A value of milli-units, saturated.                                      *)
ToRawUnlimited(v) == v                    \* fault: no limits
ToRaw(v) == IF v < Int16Min THEN Int16Min ELSE IF v > Int16Max THEN Int16Max ELSE v

(* static_cast<uint16_t>(speed + kSpeedOffsetRaw)                          *)
EncodeSpeed(v) == (v + SpeedOffsetRaw) % (WordMax + 1)

(* The VCU: sint16, physical value = raw * 0.001 - 5.                      *)
Signed16(word) == IF word > Int16Max THEN word - (WordMax + 1) ELSE word
DecodeSpeed(word) == Signed16(word) - SpeedOffsetRaw
=============================================================================
