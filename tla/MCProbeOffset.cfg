CONSTANTS
    Programs <- MCPrograms
    Image <- MCImage
    NoFile = "none"
    Paths <- MCPaths
    Within <- MCWithin
    Slides <- MCSlides
    Commands <- MCCommands
    LibSites <- MCLibSites
    MaxDepth = 1
    MaxChanges = 0
    MaxFrames = 2
    RegSize = 64
    Sizes <- MCSizes
    Words <- MCWords
    Elsewhere <- MCElsewhere
    CharTypes <- MCCharTypes
    Strings <- MCStrings
    ArgLists <- MCArgLists
SPECIFICATION Spec
INVARIANTS
    ProbesOwn
CHECK_DEADLOCK FALSE
