SPECIFICATION FairSpec
CONSTANTS
    p1 = p1
    c1 = c1
    n1 = n1
    n2 = n2
    n3 = n3
    Threads <- MCThreads
    Producers <- MCProducers
    Consumers <- MCConsumers
    Nodes <- MCNodes3
    Values = {"a", "b"}
    Null = Null
    MaxEnq = 3
INVARIANTS
    MemorySafe
    DeliveredInOrder
    HiddenOnlyByPending
    NothingLeaked
PROPERTIES
    EventuallyDelivered
    ImplementsFifo
CHECK_DEADLOCK FALSE
