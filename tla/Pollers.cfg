CONSTANTS
    MaxFd = 2
    InitEvents = 1
    Readiness = {{}, {"IN", "OUT", "HUP"}}
SPECIFICATION Spec
INVARIANT AssertsHold
PROPERTY ImplementsInterest
CHECK_DEADLOCK FALSE
