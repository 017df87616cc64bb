SPECIFICATION WriterSpec
CONSTANTS
    a = a
    b = b
    w = w
    o = o
    Loggers <- MCLoggers
    Threads <- MCThreads
    Producers <- MCLoggers
    Consumers <- MCConsumers
    Writer = w
    Owner = o
    Levels = {"info"}
    Nodes = {1, 2, 3}
    Values = {"m1", "m2"}
    Null = Null
    MaxEnq = 2
INVARIANTS
    LogSafe
PROPERTIES
    WriterFinishes
CHECK_DEADLOCK FALSE
