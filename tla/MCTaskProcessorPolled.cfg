CONSTANTS
    Task = {k1, k2}
    Poller = {p1}
    Daemon = daemon
    None = None
    MaxTime = 2
    MaxPolls = 2
SPECIFICATION FairSpec
PROPERTY TasksRun
