CONSTANTS
    TextSize = 8
    WordSize = 3
    BpLen = 1
    PCAdjust = 1
    Bp = Bp
    Code <- MCCode
    Entry = 2
    RetSites = {0, 4}
    Signals = {}
    MultiThreaded = TRUE
    Exceptions = TRUE
    MaxDepth = 2
    MaxCalls = 4
    MaxSignals = 0
    Counts = {2}
    Crashes = FALSE
    MaxSessions = 1
SPECIFICATION Spec
INVARIANTS
    TypeOK
    OnePatch
    DurationNested
    EachCallOnce
    OneLateNode
CHECK_DEADLOCK FALSE
