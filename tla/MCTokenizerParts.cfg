CONSTANTS
    k1 = k1
    k2 = k2
    k3 = k3
    NoKey = NoKey
    Missing = Missing
    Keys <- MCKeys
    Lists <- MCLists
    HashBound = 8
    Texts <- MCTexts
SPECIFICATION PartsSpec
INVARIANTS
    ProbesUnbroken
    Tiled
    FollowsRegexButForMarks
PROPERTIES
    DictionarySpec
    Ends
