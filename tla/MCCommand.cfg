CONSTANTS
    Keys <- MCKeys
    Currents = {1, 2}
    Sizes = {0, 1, 2, 3, 7}
    IntBits = 3
    MaxItems = 4
SPECIFICATION Spec
INVARIANTS
    CommandIsApplied
PROPERTIES
    StoresComeFromPayload
CHECK_DEADLOCK FALSE
