\* Refuted: a VCU once heard counts as present for ever.
SPECIFICATION Spec
CONSTANTS
    Worlds <- OneWorld
    Traffic <- SilentTraffic
    VcuFrames <- SilentVcuFrames
    BmsFrames <- NoFrames
    MotorFrames <- NoFrames
    TaskIds = {5}
    Twists = {}
    WalkSpeeds <- MCWalkSpeeds
    Lights = {}
    HbModulus = 3
PROPERTIES OfflineMeansCannotExecute
