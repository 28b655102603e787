SPECIFICATION FairSpec
CONSTANTS
    g0 = g0  g1 = g1  a1 = a1  am = am  u1 = u1  u2 = u2
    BadUrl = BadUrl  None = None
    Codes = {g0, g1}
    Aliases = {}
    Urls = {u1}
    Instances = {0, 1}
    Owner <- Owners
    MaxStray = 4
    Ops = {"shorten", "resolve"}
    TailTimer = TRUE
    Budget <- BudgetLive
INVARIANTS HitsTailed
PROPERTIES Converges
