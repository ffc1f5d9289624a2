\* Four worlds: faults, tasks, driving, status.
SPECIFICATION FairSpec
CONSTANTS
    Worlds <- MCWorlds
    Traffic <- MCTraffic
    VcuFrames <- MCVcuFrames
    BmsFrames <- MCBmsFrames
    MotorFrames <- MCMotorFrames
    TaskIds = {5}
    Twists <- MCTwists
    WalkSpeeds <- MCWalkSpeeds
    Lights <- MCLights
    HbModulus = 3
INVARIANTS TypeOK ServerKnowsFaults
PROPERTIES ReportsExactlyChanges FaultEventuallyReported StatusFlows FinishedReported
           SentIsAsked HeartbeatCounts ControlBitsAsked EmergencyStopSent
