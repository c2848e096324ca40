SPECIFICATION FairSpec
CONSTANTS
    Phones = {p1, p2}
    Undisturbed = TRUE
    MaxChanges = 3
    MaxAsked = 1
    MaxFailures = 1
INVARIANTS
    PowerAsPersisted
PROPERTIES
    RadioAsWanted
    IndicationsHandled
CHECK_DEADLOCK FALSE
