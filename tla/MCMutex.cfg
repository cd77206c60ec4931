CONSTANTS
    Thread = {t1, t2, t3}
    None = None
    Recursive = FALSE
    MaxRecursion = 1
    MaxSignals = 2
    FutexRequeues = TRUE
SPECIFICATION FairSpec
INVARIANT ContendersExact
INVARIANT NoLostWakeup
PROPERTY ImplementsLock
PROPERTY SignalReaches
PROPERTY EventuallyTaken
