CONSTANTS
    None = None
    Thread = {t1, t2, t3}
    MaxRequests = 2
    MaxFlips = 2
    MaxFlipped = 2
    Gc = gc
    MaxFlipThreadRoots = 1
    Mutator = {m1, m2}
    Jit = jit
    Method = {foo}
    Code = {c1, c2}
    Baseline = {c1}
    Obsolete = Obsolete
    NumberOfZombieCodeThreshold = 1
    MaxDepth = 2
    w1 = w1
    w2 = w2
    f = f
    x = x
    y = y
    z = z
SYMMETRY ThreadSymmetry
SPECIFICATION StackSpec
INVARIANT ClosureAlive
INVARIANT AtMostOnce
INVARIANT OnBehalfExclusive
INVARIANT FlippedBeforeJava
INVARIANT FlipExactlyOnce
INVARIANT RunningCodeKept
INVARIANT EntryPointsKept
INVARIANT ToSpaceInvariant
INVARIANT MarkingConverges
INVARIANT ClearedTogether
