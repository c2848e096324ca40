SPECIFICATION FairScanSpec
CONSTANTS
    Scans <- SomeScans
    MaxCache = 4
    MaxMax = 3
    MaxReplies = 2
    MaxRounds = 3
    MaxAp = 2
INVARIANTS
    ScanTypeOK
    StoredInOrder
    NothingMissed
PROPERTY Returns
CHECK_DEADLOCK FALSE
