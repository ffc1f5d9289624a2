----------------------------- MODULE MCBusiness -----------------------------
(* Worlds for TLC: commands, tasks, faults and paths, each under a         *)
(* session that comes and goes.  Task 6 does not fit into an int of three  *)
(* bits.                                                                   *)
EXTENDS BusinessRouting

MCWorlds == {"stop", "control", "drive", "tasks", "cancel", "faults", "paths", "local"}
MCTraffic == [w \in MCWorlds |-> {"task", "ctrl", "walk"}]
MCVcuFrames == [w \in MCWorlds |-> IF w = "faults" THEN {{0}, {4}} ELSE {}]
MCBmsFrames == [w \in MCWorlds |-> {}]
MCMotorFrames ==
    [w \in MCWorlds |->
        IF w = "faults" THEN {[left |-> {}, right |-> {31}], [left |-> {}, right |-> {}]} ELSE {}]
Ctrl(n, v) == [topic |-> "ctrl_cmd", body |-> [ctrlCmd |-> n, ctrlValue |-> v]]
Task(id) == [topic |-> "task_cmd", body |-> id]
TaskControl(n) == [topic |-> "task_ctrl", body |-> n]
MCCommands ==
    [w \in MCWorlds |-> CASE w = "stop" -> {Ctrl(2, 1), Ctrl(2, 0), Ctrl(1, 0)}
                          [] w = "control" -> {Ctrl(n, 0) : n \in {1, 3, 4, 7}}
                          [] w = "drive" -> {Ctrl(5, 0), Ctrl(6, 0)}
                          [] w = "local" -> {Task(2)}
                          [] w = "tasks" -> {Task(0), Task(2), Task(6)}
                          [] w = "cancel" -> {TaskControl(n) : n \in 1..4}
                          [] OTHER -> {}]

MCWalkSpeeds == <<1000, 500>>
NoTwists == {}
(* A straight path that is moved in steps below the threshold of 5.        *)
Line(y) == <<<<0, y>>, <<50, y>>, <<100, y>>>>
MCPaths == {Line(0), Line(4), Line(8), <<<<0, 0>>>>}
MCPlanned == [w \in MCWorlds |-> IF w = "paths" THEN MCPaths ELSE {}]
MCLocalPaths == [w \in MCWorlds |-> IF w = "local" THEN {Line(0), Line(8)} ELSE {}]
=============================================================================
