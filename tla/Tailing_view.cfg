SPECIFICATION Spec
CONSTANTS
    g0 = g0  g1 = g1  a1 = a1  am = am  u1 = u1  u2 = u2
    BadUrl = BadUrl  None = None
    Codes = {g1, am}
    Aliases = {am, g1}
    Urls = {u1, u2}
    Instances = {0, 1}
    Owner <- Owners
    MaxStray = 4
    Ops = {"shorten", "update", "remove", "resolve", "poll"}
    TailTimer = FALSE
    Budget <- BudgetView
INVARIANTS TypeOK PrefixView
PROPERTIES MissFindsFlushed
