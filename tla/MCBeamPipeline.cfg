CONSTANTS
    MaxDrift = 1
    Messages <- MCMessages
    Windows = {0, 1, 2}
    WindowSize = 2
    Lateness = 1
    SinkMayFail = TRUE
    MaxLog = 3
    MaxTime = 6
    MaxCrashes = 2
    HourSize = 2
    DaySize = 4
    ShortDays = 1
    LongDays = 2
SPECIFICATION Spec
INVARIANTS
    TypeOK
    RowsAreCandles
    IngestedIsParsed
    ReadIsStored
    NothingLeftBehind
    DailyIsShown
PROPERTIES
    FeedSpec
    DayIsFinal
CHECK_DEADLOCK FALSE
