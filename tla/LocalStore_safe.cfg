SPECIFICATION Spec
CONSTANTS
    c1 = c1  c2 = c2  u1 = u1  u2 = u2  t1 = t1  t2 = t2
    BadUrl = BadUrl  None = None
    Codes <- TwoCodes
    Urls <- TwoUrls
    Threads = {t1, t2}
    Me = 1
    TTLs = {0}
    MaxStray = 1
    Ops = {"shorten", "bulk", "update", "remove", "flush"}
    Faults = {"kill", "powerloss", "tear", "diskfull", "snapfail", "drop"}
    FlushLines = 1
    MaxNow = 0
    Budget <- BudgetSafe
SYMMETRY Sym
PROPERTIES RecoverySound
INVARIANTS LogMatchesIndex
