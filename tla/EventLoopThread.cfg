CONSTANTS
    Threads = {owner, x1}
    Owner = owner
    Tasks = {t1, t2}
    Channels = {c1}
    WakeupChannel = wakeup
    MaxQuits = 1
SPECIFICATION TSpec
INVARIANT
    StartReturnsLoop
PROPERTIES
    StartTerminates
    JoinAfterQuit
