CONSTANTS
    t1 = t1
    t2 = t2
    g1 = g1
    Trades <- MCTrades
    Garbage <- MCGarbage
    Refuses <- MCRefuses
    QueueMax = 2
    Retries = 1
    OverflowExp = 2
    StopCalls = TRUE
SPECIFICATION Spec
INVARIANTS
    TypeOK
    AckedIsStored
    CountersExact
    FlushAfterTask
    OnlyOverflowKills
    CleanStopIsClean
PROPERTIES
    FullIsForever
    ShutdownCompletes
    Reconnects
CHECK_DEADLOCK FALSE
