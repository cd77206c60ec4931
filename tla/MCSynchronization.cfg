CONSTANTS
    Thread = {t1, t2, t3}
    None = None
    Recursive = TRUE
    MaxRecursion = 2
    MaxSignals = 1
    FutexRequeues = FALSE
    Hash = {1, 2}
    MaxCount = 1
    MaxHeld = 3
    Holdouts = 2
    Iters = 4
    Timeout = 64
    Milli = 4
    DumpWait = 48
    TracingWait = 400
    Word = 4096
    Late = 8
    MaxDump = 40
    MaxNow = 48
SYMMETRY ThreadSymmetry
SPECIFICATION SyncSpec
INVARIANT RecursionRestored
INVARIANT OwnershipKept
INVARIANT NotificationKept
INVARIANT HashStable
INVARIANT NoSleeperForgotten
INVARIANT NoSleepPastZero
INVARIANT TimeoutsHonest
PROPERTY ImplementsReaderWriterLock
