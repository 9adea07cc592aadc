SPECIFICATION CopyingSpec
CONSTANTS
    Node = {r, a, b, c}
    Leaf = {}
    Flag = {readonly}
    NoNode = NoNode
    Settable = {"unset", "true", "false"}
    Rootable = {}
SYMMETRY Boxes
INVARIANTS
    TypeOK
    CacheSupported
    FlagsInherited
