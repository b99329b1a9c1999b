SPECIFICATION FairSpec
CONSTANTS
    MaxLog = 3
    PageLength <- MCPageLength
    MaxMoves = 4
    MaxBreaks = 1
INVARIANTS TypeOK TimelineIsExact GraphCatchesUp
PROPERTIES PersistedMovesForward EventsReachTheater
CHECK_DEADLOCK FALSE
