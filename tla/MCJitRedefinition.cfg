CONSTANTS
    Thread = {m1, m2}
    Jit = jit
    Method = {foo, bar}
    Code = {c1, c2, c3}
    Baseline = {c1}
    None = None
    Obsolete = Obsolete
    NumberOfZombieCodeThreshold = 1
    MaxDepth = 1
SPECIFICATION Spec
CHECK_DEADLOCK FALSE
INVARIANT RedefinedForgotten
