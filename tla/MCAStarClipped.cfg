CONSTANT Requests <- ClippedRequests
SPECIFICATION Spec
PROPERTY AnswersCorrectly
CHECK_DEADLOCK FALSE
