CONSTANTS
    TextSize = 8
    WordSize = 3
    BpLen = 1
    PCAdjust = 1
    Bp = Bp
    Code <- MCCode
    Entry = 2
    RetSites = {0}
    Signals = {"USR", "TRAP"}
    MultiThreaded = FALSE
    Exceptions = FALSE
    MaxDepth = 1
    MaxCalls = 3
    MaxSignals = 1
    Counts <- MCShortCounts
    Crashes = TRUE
    MaxSessions = 2
SPECIFICATION FairSpec
INVARIANTS
    CleanReturn
    NoPatchLeftBehind
    HarmOnlyIfAbandoned
PROPERTIES
    Terminates
    LossOnlyAtEdges
    ImplementsObserver
CHECK_DEADLOCK FALSE
