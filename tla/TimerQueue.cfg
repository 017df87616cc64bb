SPECIFICATION TimerSpec
CONSTANTS
    MaxTimers = 2
    Delays = {1, 2}
    MaxLate = 2
    MaxFired = 1
INVARIANTS
    TimersKept
PROPERTIES
    NoStaleCall
    TimersAreServed
CHECK_DEADLOCK FALSE
