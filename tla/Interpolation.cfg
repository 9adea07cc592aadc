SPECIFICATION Spec
CHECK_DEADLOCK FALSE
CONSTANTS
    Node <- TheNodes
    Root = "root"
    Key <- TheNodes
    Parent <- TheParent
    Name <- TheName
    Literal = "lit"
    Configs <- AllConfigs
    NoResult = NoResult
    Error = Error
    MaxDepth = 24
INVARIANTS
    MemoIsStack
    AnswersDenote
    CacheDenotes
    LastKeyCyclesDetected
PROPERTY CallsEnd
