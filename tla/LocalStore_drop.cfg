SPECIFICATION FairSpec
CONSTANTS
    c1 = c1  c2 = c2  u1 = u1  u2 = u2  t1 = t1  t2 = t2
    BadUrl = BadUrl  None = None
    Codes <- OneCode
    Urls <- OneUrl
    Threads = {t1}
    Me = 0
    TTLs = {0}
    MaxStray = 1
    Ops = {"shorten"}
    Faults = {"drop"}
    FlushLines = 1
    MaxNow = 0
    Budget <- BudgetDrop
PROPERTIES EventuallySynced
CHECK_DEADLOCK FALSE

