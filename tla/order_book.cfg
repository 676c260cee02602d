SPECIFICATION Spec
CONSTANTS
    Prices = {1, 2}
    OrderIds = {a, b, c}
    Quantities = {0, 1, 2, 15}
    IntLimit = 8
    MaxOrders = 3
    IdsUnique = TRUE
INVARIANTS
    NotCrossed
    TrackedFindable
    RestingTracked
    FillsAddUp
PROPERTIES
    PriceTimePriority
    MatchingTerminates
CHECK_DEADLOCK FALSE
