SPECIFICATION Spec
CONSTANTS
    Producers = {p1, p2}
    Capacity = 2
    MaxCalls = 3
    None = None
INVARIANTS
    ExclusiveCell
PROPERTIES
    RefusedOnlyWhenFull
    IsReservationQueue
