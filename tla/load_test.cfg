SPECIFICATION Spec
CONSTANTS
    Runs = 2
    MaxEvents = 2
    MaxLines = 2
    MaxCrashes = 1
INVARIANTS
    PassedMeansNoVerdict
    EventsAreAccountedFor
CHECK_DEADLOCK FALSE
