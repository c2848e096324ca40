SPECIFICATION FairReportsSpec
CONSTANTS
    MaxLives = 3
    Undisturbed = TRUE
    Room = 2
    MaxResults = 3
    MaxEvents = 3
INVARIANTS
    InactiveWhenFreed
    UsedWhileLive
    PairIsOwn
PROPERTIES
    CleanupCompletes
    ReportIsOfEvent
    RttReportsAll
CHECK_DEADLOCK FALSE
