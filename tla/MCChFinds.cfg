CONSTANTS
    Requests <- BannedRequests
    LevelMod = 16
    MayGiveUp = FALSE
SPECIFICATION Spec
INVARIANT FindsEveryRoute
CHECK_DEADLOCK FALSE
