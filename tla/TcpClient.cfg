SPECIFICATION Spec
CONSTANTS
    Uses = {"client", "connector"}
    MaxAttempts = 3
    MaxCalls = 1
    kInitRetryDelay = 1
    kMaxRetryDelay = 3
INVARIANTS
    ClientSound
    DescriptorsOwned
PROPERTIES
    AttemptsEnd
CHECK_DEADLOCK FALSE
