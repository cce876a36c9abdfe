CONSTANTS
    MaxDrift = 1
    Messages <- MCMessages
    Windows = {0, 1, 2}
    WindowSize = 2
    Lateness = 1
    SinkMayFail = FALSE
    MaxLog = 3
    MaxTime = 4
    MaxCrashes = 1
    HourSize = 2
    DaySize = 4
    ShortDays = 1
    LongDays = 2
INIT Init
NEXT Next
PROPERTIES
    RowsGrow
CHECK_DEADLOCK FALSE
