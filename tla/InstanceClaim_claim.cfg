SPECIFICATION FairSpec
CONSTANTS
    None = None
    Procs = {p1, p2, p3, p4}
    Slots = 2
    MaxInstances = 1
INVARIANTS TypeOK SharedOnlyByTheft
PROPERTIES ClaimEnds
CHECK_DEADLOCK FALSE
