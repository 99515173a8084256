CONSTANTS
    t1 = t1
    t2 = t2
    Threads = {t1, t2}
    NTargets = 2
    Address <- Apart
    MaxEvents = 2
    RingSize = 4
    MapSize = 2
    MaxCalls = 3
    MaxDepth = 2
SYMMETRY Symmetry
SPECIFICATION Spec
INVARIANTS
    FullySupported
CHECK_DEADLOCK FALSE
