CONSTANTS
    InitRetryDelay = 1
    MaxRetryDelay = 3
    MaxFailures = 3
    MaxConns = 3
    MaxCalls = 2
SPECIFICATION FairSpec
INVARIANTS
    AssertsHold
    ConnectorOutlived
PROPERTIES
    StopSticks
    ClientConnects
CHECK_DEADLOCK FALSE
