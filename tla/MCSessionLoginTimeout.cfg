\* Refuted: CONNECTED is visible before loginTime_ is set.
SPECIFICATION Spec
CONSTANTS
    Fds = {1}
    InFrames = {"loginOk"}
    MaxQueue = 0
    Bursts <- Singly
PROPERTIES
    LoginTimeoutIsReal
