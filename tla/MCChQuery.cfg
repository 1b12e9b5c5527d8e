CONSTANTS
    Requests <- TripRequests
    LevelMod = 16
    MayGiveUp = TRUE
SPECIFICATION FairSpec
INVARIANTS
    TypeOK
    DistancesKept
    ShortcutsBridge
    NeverQuickerThanRoads
PROPERTIES
    AnswersCorrectly
    Terminates
CHECK_DEADLOCK FALSE
