CONSTANTS
    TextSize = 8
    WordSize = 3
    BpLen = 1
    PCAdjust = 1
    Bp = Bp
    Code <- MCCode
    Entry = 2
    RetSites = {0, 4}
    Signals = {}
    MultiThreaded = FALSE
    Exceptions = FALSE
    MaxDepth = 2
    MaxCalls = 4
    MaxSignals = 1
    Counts <- MCShortCounts
    Crashes = FALSE
    MaxSessions = 1
SPECIFICATION Spec
INVARIANTS
    RestoredOnAnyExit
CHECK_DEADLOCK FALSE
