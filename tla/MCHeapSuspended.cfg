CONSTANTS
    Thread = {m1, m2}
    Daemon = d
    Suspender = m1
    None = None
    W = 16
    StartNum = 15
    MaxOps = 1
SPECIFICATION FairSpec
CHECK_DEADLOCK FALSE
PROPERTY GcWaitersReturn
