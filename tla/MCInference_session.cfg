SPECIFICATION Spec
CONSTANTS
    VocabSize = 4
    NTokens = 5
    ContextLength = 5
    BlockCount = 2
    HasEos = TRUE
    EosId = 2
    UnusedIds = {2, 3}
    MaxTokens = 3
    NextTokenId = FALSE
    Interactive = TRUE
    Options <- SessionOptions
    Prompts <- MCPrompts
    ZeroRow <- MCZeroRow
    NoLogits <- MCNoLogits
    Embed <- MCEmbed
    KeyRow <- MCKeyRow
    ValueRow <- MCValueRow
    AttnBlock <- MCAttnBlock
    FeedForward <- MCFeedForward
    LmHead <- MCLmHead
    Hidden <- MCHidden
INVARIANTS
    LogitsExact
    CacheCoherent
    EmittedUsable
    RangeNeverFails
PROPERTIES
    RowWrittenOnce
    PromptCompletes
    CompletionSpec
