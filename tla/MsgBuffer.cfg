SPECIFICATION BufferSpec
CONSTANTS
    Base = 2
    kBufferOffset = 3
    ExtLen = 2
    InitLens = {1, 3}
    MaxData = 4
    MaxReadable = 5
    Widths = {1, 2}
    None = None
VIEW LiveView
INVARIANTS
    IndicesSane
PROPERTIES
    ImplementsByteString
