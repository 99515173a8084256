CONSTANTS
    Symbols <- MCSymbols
    Arguments <- MCArguments
    Counts = {1}
    MaxLines = 1
SPECIFICATION Spec
PROPERTIES
    StopEndsCommand
CHECK_DEADLOCK FALSE
