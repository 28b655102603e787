SPECIFICATION Spec
CONSTANTS
    None = None
    n1 = n1
    n2 = n2
    t1 = t1
    t2 = t2
    Nodes = {n1, n2}
    Threads = {t1, t2}
    Home <- Apart
    Codes = {a, g}
    Generated = {g}
    Old = {a}
    Urls = {u1, u2}
    TTLs = {0, 1}
    Ops = {"shorten", "bulk", "update", "remove", "resolve", "flush", "sweep", "close"}
    Faults = {"refuse", "lost", "kill"}
    CacheTtl = 1
    CacheSize = 1
    Latency = 0
    MaxNow = 2
    Budget <- BudgetKv
SYMMETRY Sym
INVARIANTS TypeOK StaleBound HitsNeverDoubled CreatedOnce
PROPERTIES LiveRowKept
CHECK_DEADLOCK FALSE
