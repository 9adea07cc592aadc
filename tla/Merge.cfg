SPECIFICATION Spec
VIEW View
CONSTANTS
    Key = {"a", "b", "n", "sub", "l"}
    SubKey = {"x", "y"}
    Class = {"none", "dict", "Sub", "Config", "Linked"}
    Field = {"x"}
    Default = "one"
    Val = {"one", "two", "bad"}
    IntVal = {"one", "two"}
    Configs <- AllConfigs
    Sources <- SourcesFor
    Settable = {"on"}
    SetsFlags = {"root", "a"}
PROPERTY MergesOverlay
PROPERTY FailsInOrder
PROPERTY TypesStay
PROPERTY FlagsObeyed
PROPERTY FlagsKept
