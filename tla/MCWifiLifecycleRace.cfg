SPECIFICATION Spec
CONSTANTS
    MaxLives = 1
    Undisturbed = FALSE
INVARIANT InactiveWhenFreed
CHECK_DEADLOCK FALSE
