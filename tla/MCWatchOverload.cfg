CONSTANTS
    Symbols <- MCSymbols
    Arguments <- MCArguments
    Counts = {1}
    MaxLines = 1
SPECIFICATION Spec
INVARIANTS
    AllMatchesObserved
CHECK_DEADLOCK FALSE
