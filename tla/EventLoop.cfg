SPECIFICATION ThreadSpec
CONSTANTS
    o = o
    c = c
    Callers <- MCCallers
    Owner = o
    Kinds = {"plain", "requeue", "quit", "throw"}
    MaxFuncs = 2
    MaxLoops = 1
INVARIANTS
    NoLostWakeup
    QuitFuncsRun
    RunReturnsLooping
PROPERTIES
    LoopResponds
    CallsReturn
CHECK_DEADLOCK FALSE
