SPECIFICATION ScopesSpec
CONSTANTS
    readonly = readonly
    r = r
    a = a
    c = c
    Node = {r, a, c}
    Leaf = {c}
    Flag = {readonly}
    NoNode = NoNode
    Settable = {"unset", "true"}
    Rootable = {r, a}
    Override <- Overrides
    MaxOpen = 2
SYMMETRY Boxes
INVARIANTS
    FlagsInherited
    FlagsGivenBack
