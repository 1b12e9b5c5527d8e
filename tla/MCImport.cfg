CONSTANT Extracts <- MCExtracts
SPECIFICATION Spec
INVARIANTS
    TypeOK
    IndicesRight
    DistancesSurvive
    RestrictionsKept
    MatcherKnowsEachRoadOnce
CHECK_DEADLOCK FALSE
