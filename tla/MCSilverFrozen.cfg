CONSTANTS
    t1 = t1
    t2 = t2
    t3 = t3
    w1 = w1
    w2 = w2
    TradeIds = {t1, t2}
    Writers = {w1}
    MaxClock = 3
    EmptyFirstRun = TRUE
SPECIFICATION Spec
PROPERTIES
    ArrivesInSilver
CHECK_DEADLOCK FALSE
