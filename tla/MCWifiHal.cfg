SPECIFICATION Spec
CONSTANTS
    Commands = {c1, c2, c3}
    NoCommand = NoCommand
    AllocEventCb = 6
    AllocCmd = 2
    OneUserPerEvent = TRUE
SYMMETRY CommandSymmetry
INVARIANTS
    NoDanglingHandler
    NoUseAfterFree
    SilentAfterStop
    StartedIsSubscribed
    RefsAreExact
    OnlyKnownSlotsLeak
