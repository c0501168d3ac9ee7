\* The program ends when it aborts, and the days do.
CONSTANTS
    Threads = {t1, t2}
    FirstYear = 1900
    LastYear = 2500
    LogDays = {2451604, 2458849}
    Offsets = {3600}
    MessageLengths = {1, 8, 11}
    MaxSecond = 2
    MaxSteps = 4
    SmallBuffer = 16
    MaxNumericSize = 3
SPECIFICATION Spec
INVARIANTS
    DatesAgree
    LocalTimeInverse
    LinesFormatted
CHECK_DEADLOCK FALSE
