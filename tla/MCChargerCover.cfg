\* Commands while another is handled, failures of every call, late answers.
SPECIFICATION CoverSpec
CONSTANTS
    QueueSize = 2
    MaxCommands = 4
    TidModulus = 3
    DryRuns = {TRUE, FALSE}
CHECK_DEADLOCK FALSE
INVARIANTS CoverTypeOK SuccessMeansActed NoSocketLeft
PROPERTIES NoCommandLost NewestIsAnswered
