CONSTANTS
    Areas <- AreaRequests
    Networks <- AllNetworks
    Centralities <- AllCentralities
    Matches <- MatchRequests
    Pairs <- PairRequests
    MaxPoints = 3
    MaxPairs = 6
    MaxTopK = 5
    MaxSample = 6
    MaxTrace = 4
    MaxRadius = 3
    Scale = 1728
SPECIFICATION FairSpec
INVARIANTS
    TypeOK
    ReachableExactly
    ComponentsClosed
    ComponentsJoined
    SizesCount
    CentralityExact
    BestSequence
    UnmatchedExactly
    MatrixCompleteOneEach
    DurationsRight
    ClosestChosen
PROPERTIES
    ReachedIsFinal
    Terminates
CHECK_DEADLOCK FALSE
