CONSTANTS
    Requests <- MCRequests
    MaxSpent = 7
SPECIFICATION AuditFairSpec
INVARIANTS
    TypeOK
    StepsTellTheDrive
    TreeIsTight
    NoFasterDrive
PROPERTIES
    SettledIsFinal
    AnswersCorrectly
    Terminates
CHECK_DEADLOCK FALSE
