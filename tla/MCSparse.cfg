CONSTANT Extracts <- MCExtracts
SPECIFICATION Spec
INVARIANT EveryEdgeFound
CHECK_DEADLOCK FALSE
