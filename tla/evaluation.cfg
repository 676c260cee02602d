SPECIFICATION Spec
CONSTANTS
    None = None
    Repo = Repo
    Nothing = Nothing
    Count = 3
    Owner <- MCOwner
    Lang <- MCLang
    MaxFaults = 1
    MaxActive = 2
INVARIANTS
    NothingOutlives
    OwnCodeRuns
    AloneIsSound
PROPERTIES
    EvaluationsEnd
CHECK_DEADLOCK FALSE
