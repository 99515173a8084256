CONSTANTS
    t1 = t1
    t2 = t2
    Threads = {t1, t2}
    NTargets = 3
    Address <- Shared
    MaxEvents = 2
    RingSize = 2
    MapSize = 1
    MaxCalls = 2
    MaxDepth = 2
SPECIFICATION FairSpec
INVARIANTS
    TypeOK
    NeverOverstated
    AtMostMaxEvents
    NoResidualTimestamp
    ParamsOwn
    LeafExact
PROPERTIES
    WatchEnds
    ImplementsEbpfPath
CHECK_DEADLOCK FALSE
