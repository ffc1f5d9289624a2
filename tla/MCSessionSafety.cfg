\* Two descriptors, so that a close may hit a re-used number or leak one;
\* short writes and failures with up to one chunk queued; a damaged frame
\* alone or before the login answer.
SPECIFICATION Spec
CONSTANTS
    Fds = {1, 2}
    InFrames = {"loginOk", "loginNo", "heartbeat", "heartbeatResp", "corrupt", "command", "unknown"}
    MaxQueue = 1
    Bursts <- BehindDamage
INVARIANTS
    TypeOK
    MutexSafe
    FramesContiguous
    LoginNotLost
    LoginAnswerIsOurs
    StopQuiesces
