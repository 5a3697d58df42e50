CONSTANTS
    MergeLists <- MCMergeLists
    Vocabularies <- MCVocabularies
    Inputs <- MCInputs
    LineSize = 6
    PrintSize = 4
    Emitted <- MCEmitted
    Wide <- MCWide
SPECIFICATION Spec
INVARIANTS
    RoundTrip
    AgreesWithRules
    PromptsAreTyped
    PrintsMeaning
CHECK_DEADLOCK FALSE
