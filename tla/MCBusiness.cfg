\* Emergency stops, tasks, faults and paths.
SPECIFICATION SystemFairSpec
CONSTANTS
    Worlds <- MCWorlds
    Traffic <- MCTraffic
    VcuFrames <- MCVcuFrames
    BmsFrames <- MCBmsFrames
    MotorFrames <- MCMotorFrames
    TaskIds = {2, 6}
    Twists <- NoTwists
    WalkSpeeds <- MCWalkSpeeds
    Lights = {0}
    HbModulus = 1
    Paths <- MCPaths
    Threshold = 5
    QueueSize = 2
    IntModulus = 8
    Commands <- MCCommands
    Planned <- MCPlanned
    LocalPaths <- MCLocalPaths
INVARIANTS SystemTypeOK FaultsReachServer TaskNumbersAgree NoDrift
PROPERTIES StopReachesBus
