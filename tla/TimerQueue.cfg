CONSTANTS
    Addrs = {a1, a2}
    Threads = {x1}
    Delays = {0, 1}
    Intervals = {0, 1}
    MaxTimers = 2
    MaxTime = 2
    MaxJumps = 1
    MaxCancels = 1
SPECIFICATION FairSpec
INVARIANTS
    QueueSound
    CancelSticks
PROPERTY TimerRuns
CHECK_DEADLOCK FALSE
