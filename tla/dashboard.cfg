SPECIFICATION Spec
CONSTANTS
    Contestants = {c1, c2}
    Limit = 1
    MaxVersion = 2
    MaxPublished = 2
    MaxLink = 1
    MaxFaults = 2
INVARIANTS
    NothingMissed
    UpdateIsFresh
PROPERTIES
    OnlyTheAnswerGoesBack
    PageCatchesUp
CHECK_DEADLOCK FALSE
