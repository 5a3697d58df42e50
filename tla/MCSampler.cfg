SPECIFICATION Spec
CONSTANTS
    Vocab = 3
    LogitValues <- MCLogitValues
    OptionSets <- MCOptionSets
    MaxDraws = 2
INVARIANTS
    GreedyIsFirstMaximum
    WithinTopK
    WithinNucleus
    PenaltyWindow
    MaskedNeverDrawn
CHECK_DEADLOCK FALSE
