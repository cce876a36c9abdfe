CONSTANTS
    TaskRetries = 1
    MaxWrites = 2
    MaxRuns = 2
SPECIFICATION Spec
INVARIANTS
    TypeOK
    GoldFromTested
    SuccessIsFresh
    SuccessIsTrue
    NotifierTells
CHECK_DEADLOCK FALSE
