\* The wait of the back end ends; the clock need not tick.
CONSTANTS
    Capacity = 3
    Lengths = {1, 2}
    MaxBuffers = 2
    MaxLines = 3
    RollSize = 3
    CheckEveryN = 2
    FlushInterval = 0
    RollPeriod = 3
    NoticeLen = 1
    MaxTime = 3
    MaxFaults = 1
SPECIFICATION LSpec
INVARIANTS
    AssertsHold
    OriginalsCirculate
    LinesInOrder
    FilesComplete
PROPERTIES
    LineWritten
    StopReturns
