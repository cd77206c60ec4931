CONSTANTS
    Thread = {m1, m2}
    Single = m1
    LockKind = "ReaderWriterMutex"
    None = None
    w = w
    v = v
    f = f
    x = x
    y = y
    z = z
SPECIFICATION WeakSpec
CHECK_DEADLOCK FALSE
PROPERTY CollectionEnds
