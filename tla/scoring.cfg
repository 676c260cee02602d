SPECIFICATION ScorerSpec
CONSTANTS
    Logs <- MCLogs
    StartsLatest = TRUE
    MaxFailures = 2
    Nothing = Nothing
    ZeroId = 0
INVARIANTS
    JudgedInOrder
    InnocentNeverPunished
    StoresAgree
PROPERTIES
    SentenceStands
    GuiltyArePunished
CHECK_DEADLOCK FALSE
