\* Nothing but EveryTaskRuns, a part of LoopResponds, waits for the poll timeout.
CONSTANTS
    Threads = {x1, x2}
    Tasks = {t1, t2, t3}
    Channels = {c1}
    WakeupChannel = wakeup
    MaxQuits = 2
SPECIFICATION FairSpec
INVARIANTS
    NoLostWakeup
    NoMissedQuit
PROPERTIES
    ImplementsTaskQueue
    LoopResponds
