CONSTANTS
    Conns = {c1}
    ThreadCounts = {0, 1}
    Users = {u1}
    Msgs = {m1}
    MsgLen = 2
    HighWaterMark = 1
    MaxForce = 1
    ConnectionOps = {"send", "shutdown"}
    MessageOps = {"send", "shutdown", "forceClose"}
    WriteCompleteOps = {"shutdown"}
    ThreadOps = {"shutdown"}
SPECIFICATION FairSpec
INVARIANTS
    AssertsHold
    ChannelOutlived
PROPERTIES
    PeerCloseEnds
    OutputMoves
CHECK_DEADLOCK FALSE
