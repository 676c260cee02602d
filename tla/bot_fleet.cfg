SPECIFICATION BotSpec
CONSTANTS
    MaxConnections = 3
    MaxOrders = 3
INVARIANTS
    AllCounted
PROPERTIES
    HealthyConnectionKept
    OrdersGoOut
CHECK_DEADLOCK FALSE
