SPECIFICATION Spec
CONSTANTS
    MaxLog = 3
    PageLength <- MCPageLength
    MaxMoves = 3
    MaxBreaks = 0
INVARIANTS StaleIsSurfaced
CHECK_DEADLOCK FALSE
