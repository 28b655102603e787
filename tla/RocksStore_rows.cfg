SPECIFICATION Spec
CONSTANTS
    None = None
    Threads = {t1, t2}
    Codes = {a, g}
    Generated = {g}
    Old = {a}
    Urls = {u1, u2}
    TTLs = {0,1}
    Ops = {"shorten", "bulk", "update", "remove", "stats", "resolve", "flush", "list", "compact",
           "close"}
    Faults = {"fail", "kill"}
    CacheTtl = 1
    CacheSize = 1
    MaxNow = 2
    Budget <- BudgetRows
SYMMETRY Sym
INVARIANTS TypeOK CacheConsistent AckedRowKept ReadsOwnWrites HitsNeverDoubled CreatedOnce
CHECK_DEADLOCK FALSE
