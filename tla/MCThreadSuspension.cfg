CONSTANTS
    Thread = {t1, t2, t3}
    None = None
    MaxRequests = 4
SPECIFICATION FairSpec
INVARIANT SuspendCountExact
INVARIANT BarriersAlive
INVARIANT SuspendAllExclusive
INVARIANT TargetStaysSuspended
INVARIANT NoSuspensionCycle
PROPERTY SuspensionsEnd
