SPECIFICATION Spec
CONSTANTS
    VocabSize = 3
    NTokens = 2
    ContextLength = 6
    BlockCount = 3
    HasEos = FALSE
    EosId = 0
    UnusedIds = {}
    MaxTokens = 9
    NextTokenId = TRUE
    Interactive = FALSE
    Options <- Unlimited
    Prompts <- MCPlainPrompts
    ZeroRow <- MCZeroRow
    NoLogits <- MCNoLogits
    Embed <- MCEmbed
    KeyRow <- MCKeyRow
    ValueRow <- MCValueRow
    AttnBlock <- MCAttnBlock
    FeedForward <- MCFeedForward
    LmHead <- MCLmHead
    Hidden <- MCHidden
INVARIANTS
    EmittedUsable
PROPERTIES
    CompletionSpec
