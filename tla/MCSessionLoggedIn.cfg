\* Refuted: a late DISCONNECTED leaves state_ wrong, a later drop unreported.
SPECIFICATION Spec
CONSTANTS
    Fds = {1}
    InFrames = {"loginOk"}
    MaxQueue = 1
    Bursts <- Singly
INVARIANTS
    LoggedInMeansAccepted
