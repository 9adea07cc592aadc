SPECIFICATION Spec
CONSTANTS
    Keys = {"x", "1"}
    StrKeys = {"x"}
    MergeKey = "<<"
    MaxNodes = 4
    MaxItems = 2
    NoLimit = NoLimit
    Limits = {NoLimit, 9}
    _MIN_YAML_ALIAS_EXPANSION_RATIO_NODES = 6
    _MAX_YAML_ALIAS_EXPANSION_RATIO = 1
INVARIANTS AliasesCharged LoadsAsWritten
