CONSTANTS
    Requests <- RenumberedRequests
    LevelMod = 16
    MayGiveUp = FALSE
SPECIFICATION Spec
INVARIANT PathIsDrivable
CHECK_DEADLOCK FALSE
