CONSTANTS
    t1 = t1
    t2 = t2
    g1 = g1
    Trades <- MCTrades
    Garbage <- MCGarbage
    Refuses = {}
    QueueMax = 1
    Retries = 1
    OverflowExp = 2
    StopCalls = FALSE
INIT Init
NEXT Next
INVARIANTS
    RejectedIsDeadLettered
CHECK_DEADLOCK FALSE
