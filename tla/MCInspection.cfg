CONSTANTS
    Programs <- MCPrograms
    Image <- MCImage
    NoFile = "none"
    Paths <- MCPaths
    Within <- MCWithin
    Slides <- MCSlides
    Commands <- MCCommands
    LibSites <- MCLibSites
    MaxDepth = 2
    MaxChanges = 2
    MaxFrames = 2
    RegSize = 64
    Sizes <- MCSizes
    Words <- MCWords
    Elsewhere <- MCElsewhere
    CharTypes <- MCCharTypes
    Strings <- MCStrings
    ArgLists <- MCArgLists
SPECIFICATION Spec
INVARIANTS
    TypeOK
    EntriesOwn
    FramesOwn
    ParamsFaithful
CHECK_DEADLOCK FALSE
