CONSTANTS
    TaskRetries = 1
    AgeError = 0
    DeadLetterMax = 1
    SilverMinRows = 2
    MaxFaults = 1
SPECIFICATION Spec
INVARIANTS
    TypeOK
    SummaryIsTrue
    NeverBoth
    SuccessIsHealthy
    NoDataNoHealth
PROPERTIES
    OutagesAreTold
    RecoveryIsTold
