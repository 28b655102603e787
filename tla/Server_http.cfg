SPECIFICATION ServerSpec
CONSTANTS
    None = None
    c1 = c1
    ip1 = ip1
    ip2 = ip2
    a = a
    f = f
    Ips = {ip1, ip2}
    Rate = 1
    Burst = 3
    MaxKeys = 1
    Idle = 2
    Costs = {1, 3, 5}
    MaxNow = 2
    Conns = {c1, c2}
    Codes = {a, f, g1, g2, g3, g4}
    Foreign = {f}
    Clients <- MCClients
    TrustProxy = TRUE
    LinkTtl = 2
    MaxBody = 1
    MaxBulk = 2
SYMMETRY Sym
INVARIANTS TypeOK WindowBound ServerTypeOK InOrder NoneWaits CleanEnd LifetimeCapped CreationBound
PROPERTIES Isolation
CHECK_DEADLOCK FALSE
