SPECIFICATION Spec
CONSTANT MaxFailures = 6
INVARIANTS
    DriverFollowsPreference
    ProfileIsSet
CHECK_DEADLOCK FALSE
