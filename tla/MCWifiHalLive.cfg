SPECIFICATION FairSpec
CONSTANTS
    Commands = {c1, c2}
    NoCommand = NoCommand
    AllocEventCb = 6
    AllocCmd = 2
    OneUserPerEvent = TRUE
PROPERTIES
    CancelledIsFreed
    SlotKeptWhileStarted
    ImplementsCommandLife
