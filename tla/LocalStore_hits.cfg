SPECIFICATION Spec
CONSTANTS
    c1 = c1  c2 = c2  u1 = u1  u2 = u2  t1 = t1  t2 = t2
    BadUrl = BadUrl  None = None
    Codes <- TwoCodes
    Urls <- OneUrl
    Threads = {t1, t2}
    Me = 0
    TTLs = {0, 1}
    MaxStray = 3
    Ops = {"shorten", "bulk", "resolve", "flush"}
    Faults = {"kill"}
    FlushLines = 1
    MaxNow = 1
    Budget <- BudgetHits
SYMMETRY Sym
INVARIANTS TypeOK HitsAccounted
