CONSTANTS
    Setups <- ComposeSetups
    Parts = 2
    MaxCrashes = 1
SPECIFICATION FairSpec
PROPERTIES
    ServesInTheEnd
CHECK_DEADLOCK FALSE
