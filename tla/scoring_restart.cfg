SPECIFICATION ScorerSpec
CONSTANTS
    Logs <- MCLogs
    StartsLatest = TRUE
    MaxFailures = 1
    Nothing = Nothing
    ZeroId = 0
PROPERTIES
    DisqualifiedForever
CHECK_DEADLOCK FALSE
