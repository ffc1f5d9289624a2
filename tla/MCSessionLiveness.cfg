\* What must eventually happen, under the fairness of FairSpec, with short
\* writes, EAGAIN and failures while one chunk is queued.
SPECIFICATION FairSpec
CONSTANTS
    Fds = {1}
    InFrames = {"loginOk", "loginNo", "heartbeatResp"}
    MaxQueue = 1
    Bursts <- Singly
PROPERTIES
    StopReturns
    LoginWaitEnds
    SilenceNoticed
