CONSTANTS
    Symbols <- MCSymbols
    Arguments <- MCArguments
    Counts <- MCCounts
    MaxLines = 2
SPECIFICATION FairSpec
INVARIANTS
    TypeOK
    OnlyAsked
    ResultMeansClean
    EveryNameObserved
PROPERTIES
    CommandEnds
CHECK_DEADLOCK FALSE
