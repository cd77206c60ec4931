CONSTANTS
    Holdouts = 2
    Iters = 4
    Timeout = 64
    Milli = 4
    DumpWait = 48
    TracingWait = 400
    Word = 4096
    Late = 8
    MaxDump = 40
    MaxNow = 60
    None = None
SPECIFICATION Spec
INVARIANT WaitCheckHolds
