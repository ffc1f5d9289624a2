\* Refuted: what a broken connection left in the queue goes out first.
SPECIFICATION Spec
CONSTANTS
    Fds = {1}
    InFrames = {"loginOk"}
    MaxQueue = 1
    Bursts <- Singly
INVARIANTS
    FirstBytesAreLogin
