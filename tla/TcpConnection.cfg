SPECIFICATION Spec
CONSTANTS
    Kinds = {"mem", "file", "stream"}
    MaxMsgs = 2
    MsgLen = 2
    Cap = 1
    MayReset = TRUE
    Closers = {"other", "loop"}
INVARIANTS
    WireInOrder
    ConnectionSane
    FinAfterData
PROPERTIES
    SendingEnds
CHECK_DEADLOCK FALSE
