CONSTANTS
    None = None
    Thread = {t1, t2}
    Gc = gc
    MaxRequests = 2
    MaxFlips = 1
    MaxFlipThreadRoots = 2
    MaxNest = 2
    Task = {k1, k2}
    Poller = {p1}
    HeapTaskDaemon = daemon
    MaxTime = 2
    MaxPolls = 2
    Base = Base
    Sub = Sub
    Face = Face
    Root = Root
    Class <- MCClass
    Super <- MCSuper
    Interfaces <- MCInterfaces
    IfTable <- MCIfTable
    IsInterface <- MCIsInterface
    HasDefault <- MCHasDefault
    Programs <- MCPrograms
    Calls <- MCClass
    MaxCalls = 1
SPECIFICATION ProgressSpec
CHECK_DEADLOCK FALSE
INVARIANT NoFlipInCritical
INVARIANT NoOversleep
INVARIANT InitializedOnce
PROPERTY CheckpointEnds
PROPERTY FlipEnds
PROPERTY TasksRunInTime
PROPERTY InitializationEnds
