\* Sane and other intervals, answers at the last moment, a server that dies.
SPECIFICATION Spec
CONSTANTS
    Half = 16
    Intervals <- MCIntervals
    DefaultMs = 2
    Period = 2
    Delay = 4
    Oldest = 19
INVARIANTS TypeOK SilenceBounded
PROPERTIES LiveSessionKept
