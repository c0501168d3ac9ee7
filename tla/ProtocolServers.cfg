CONSTANTS
    CheapPrepend = 1
    InitialSize = 5
    ExtraSize = 12
    MaxMessageLen = 12
    Registered = {"Person", "PhoneNumber", "AddressBook"}
    WheelSize = 3
    MaxTicks = 5
    MaxPieces = 12
SPECIFICATION Spec
INVARIANTS
    AssertHolds
    FramesDecoded
    RequestsAnswered
    IdleClosed
PROPERTIES
    ActiveKept
CHECK_DEADLOCK FALSE
