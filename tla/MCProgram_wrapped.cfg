SPECIFICATION Spec
CONSTANTS
    Inputs <- MCInputs
    NameLength = 20
    Word = 524288
    Word32 = 1024
INVARIANTS
    TensorsInDataSection
