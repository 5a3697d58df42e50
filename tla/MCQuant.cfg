SPECIFICATION Spec
CONSTANTS
    Calls <- MCCalls
INVARIANTS
    HalvesExact
    BlocksUnpacked
CHECK_DEADLOCK FALSE
