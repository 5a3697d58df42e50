CONSTANTS
    DeviceLimits = {0, 1, 3, 7}
    GroupLimit   = 4
    InputSizes   = {1, 3, 6}
SPECIFICATION Spec
INVARIANTS
    SumExact
    FoldsDoNotRace
PROPERTIES
    GroupFinishes
CHECK_DEADLOCK FALSE
