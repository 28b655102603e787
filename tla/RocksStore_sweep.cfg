SPECIFICATION FairSpec
CONSTANTS
    None = None
    Threads = {t1}
    Codes = {a}
    Generated = {}
    Old = {}
    Urls = {u1}
    TTLs = {1}
    Ops = {"shorten", "flush", "compact"}
    Faults = {}
    CacheTtl = 1
    CacheSize = 1
    MaxNow = 1
    Budget <- BudgetSweep
PROPERTIES ExpiredReclaimed
CHECK_DEADLOCK FALSE
