CONSTANTS
    Conns = {c1}
    ThreadCounts = {1}
    Users = {u1, u2}
    Msgs = {m1, m2}
    MsgLen = 2
    HighWaterMark = 3
    MaxForce = 1
    ConnectionOps = {}
    MessageOps = {}
    WriteCompleteOps = {"send"}
    ThreadOps = {"send", "shutdown"}
SPECIFICATION Spec
SYMMETRY Symmetry
INVARIANT StreamIntact
PROPERTY ShutdownAfterOutput
CHECK_DEADLOCK FALSE
