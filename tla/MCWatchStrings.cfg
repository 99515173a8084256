CONSTANTS
    t1 = t1
    t2 = t2
    Threads = {t1, t2}
    NTargets = 2
    Address <- Apart
    MaxEvents = 2
    RingSize = 4
    MapSize = 2
    MaxCalls = 2
    MaxDepth = 1
SPECIFICATION Spec
PROPERTIES
    StringsReadAlive
CHECK_DEADLOCK FALSE
