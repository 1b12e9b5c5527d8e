CONSTANTS
    Jobs <- ClosedJobs
    Far = 9
SPECIFICATION FairSpec
INVARIANTS
    TypeOK
    EveryStopOnce
    NoReversalHelps
PROPERTIES
    NeverLonger
    Terminates
CHECK_DEADLOCK FALSE
