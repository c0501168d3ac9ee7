CONSTANTS
    Workers = {w1, w2}
    Clients = {c1, c2}
    Tasks = {t1, t2, t3, t4}
    MaxQueueSize = 2
    NoTask = none
SPECIFICATION FairSpec
INVARIANT
    NotifiesSuffice
PROPERTIES
    ImplementsTaskPool
    RunReturns
    StopReturns
