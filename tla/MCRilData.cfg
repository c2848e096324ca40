SPECIFICATION Spec
CONSTANTS
    Serials = {s1, s2}
    Cids = {1, 2, 3}
    OneAtATime = TRUE
    MaxLost = 5
    MaxRefused = 2
SYMMETRY SerialSymmetry
INVARIANTS
    InterfacesDistinct
    InterfaceOfCall
    EntriesAccountedFor
