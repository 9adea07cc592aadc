SPECIFICATION Spec
CONSTANTS
    Configs <- AllConfigs
    Texts <- AllTexts
    Values <- AllValues
    Position <- Indices
    Flagged <- AllFlagged
    MaxNodes = 5
    KeyTexts <- AllKeyTexts
    MaxPath = 3
    NoPath = NoPath
VIEW View
PROPERTIES
    PathsReadBack
    SelectsWhatWasSet
    OthersKept
    FailureKeepsContainers
    FlagsRespected
