SPECIFICATION Spec
CONSTANTS
    Cap = 3
    Messages <- MCMessages
    MaxSends = 2
    MaxInput = 2
INVARIANTS
    TlsWireWhole
    NothingBeforeHandshake
PROPERTIES
    SendingEnds
CHECK_DEADLOCK FALSE
