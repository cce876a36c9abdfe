CONSTANTS
    t1 = t1
    t2 = t2
    t3 = t3
    w1 = w1
    w2 = w2
    TradeIds = {t1, t2}
    Writers = {w1, w2}
    MaxClock = 3
    EmptyFirstRun = FALSE
INIT Init
NEXT Next
INVARIANTS
    NoneSkipped
CHECK_DEADLOCK FALSE
