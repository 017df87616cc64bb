SPECIFICATION PoolSpec
CONSTANTS
    w1 = w1
    w2 = w2
    w3 = w3
    Workers <- MCWorkers3
    Callers = {"caller"}
    MaxTasks = 3
INVARIANTS
    NoSleepOverTasks
PROPERTIES
    WorkersRespond
CHECK_DEADLOCK FALSE
