SPECIFICATION Spec
CONSTANTS
    Capacity = 2
    WordSize = 8
    MaxPushes = 12
    None = None
INVARIANTS
    SlotExclusive
PROPERTIES
    IsEventQueue
