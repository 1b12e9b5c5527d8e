CONSTANTS
    Setups <- AllSetups
    Parts = 2
    MaxCrashes = 2
SPECIFICATION FairSpec
INVARIANTS
    TypeOK
    ServesOneNetwork
PROPERTIES
    WrittenOnce
    ServesUnlessTorn
CHECK_DEADLOCK FALSE
