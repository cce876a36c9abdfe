CONSTANTS
    t1 = t1
    t2 = t2
    t3 = t3
    w1 = w1
    w2 = w2
    TradeIds = {t1, t2, t3}
    Writers = {w1}
    MaxClock = 5
    EmptyFirstRun = FALSE
SPECIFICATION Spec
INVARIANTS
    TypeOK
    NoneSkipped
PROPERTIES
    SilverKeeps
    ArrivesInSilver
CHECK_DEADLOCK FALSE
