SPECIFICATION LiveSpec
CONSTANTS
    MaxOrders = 2
    MaxTrades = 1
    MaxFaults = 1
    QueueCapacity = 1
    MaxBatchEvents = 2
    IngressCapacity = 1
    FlushEvery = 1
INVARIANTS
    NothingUncounted
    EventsInOrder
    StopDrainsEvents
PROPERTIES
    StoppedIsQuiet
    StopReturns
    AcceptedEventsArrive
CHECK_DEADLOCK FALSE
