CONSTANTS
    s1 = s1
    s2 = s2
    s3 = s3
    Trades <- MCTrades
    Slots <- MCSlots
    MinuteSize = 2
    HourSize = 4
    DaySize = 8
    ShortDays = 2
    LongDays = 3
INIT Init
NEXT Next
INVARIANTS
    TypeOK
    ExtremesOK
    EndpointsOK
    UniqueWhenNoTies
    DailyIsCandle
    GoldAgrees
    AveragesOK
