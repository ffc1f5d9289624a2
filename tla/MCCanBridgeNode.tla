--------------------------- MODULE MCCanBridgeNode ---------------------------
(* Worlds for TLC.  Bit 0 is no fault, bits 4 and 6 are, bits 20 and 23    *)
(* decide the task state.  Speeds: at rest, driving, the largest that fits *)
(* with the offset, the one above, and past 16 bits.                       *)
EXTENDS CanBridgeNode

Bms(charge, gun, code) ==
    [fresh |-> TRUE, chargeState |-> charge, gunConnected |-> gun, errorCode |-> code,
     errorLevel |-> 1]
Motor(l, r) == [left |-> l, right |-> r]

MCWorlds == {"faults", "tasks", "motion", "control", "status"}
MCTraffic == [w \in MCWorlds |-> CASE w = "faults" -> {}
                                   [] w = "tasks" -> {"task"}
                                   [] w = "motion" -> {"twist", "walk"}
                                   [] w = "control" -> {"ctrl"}
                                   [] w = "status" -> {"status", "silence"}]
MCVcuFrames == [w \in MCWorlds |-> CASE w = "faults" -> {{0}, {4}}
                                     [] w = "tasks" -> {{}, {VehStopSwt, HandleCtrlEn}, {HandleCtrlEn}}
                                     [] w = "status" -> {{}}
                                     [] OTHER -> {}]
MCBmsFrames == [w \in MCWorlds |-> CASE w = "faults" -> {Bms(0, FALSE, 0), Bms(0, FALSE, 7)}
                                     [] w = "tasks" -> {Bms(c, TRUE, 0) : c \in 0..2}
                                     [] OTHER -> {}]
MCMotorFrames ==
    [w \in MCWorlds |-> IF w = "faults" THEN {Motor({}, {}), Motor({}, {31})} ELSE {}]

MCWalkSpeeds == <<1000, 500>>
MCTwists == {<<0, 0>>, <<300, -200>>, <<27767, -40000>>, <<27768, 500>>, <<40000, -300>>}
MCLights == {0, 3, 20, 258, -1}

(* One flag frame, a task and silence.                                     *)
OneWorld == {"silent"}
SilentTraffic == [w \in OneWorld |-> {"status", "silence", "task"}]
SilentVcuFrames == [w \in OneWorld |-> {{}}]
NoFrames == [w \in OneWorld |-> {}]
=============================================================================
