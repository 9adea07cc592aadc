SPECIFICATION Spec
VIEW View
SYMMETRY Symmetry
CONSTANTS
    outer = outer
    inner = inner
    arg = arg
    Config = {c1, c2}
    Name = {outer, inner}
    Defaults = {inner}
    Args = {arg}
    Reads <- Straight
    ClearsCaches = FALSE
    Val = {v, w}
    Strict = {v}
    NoVal = NoVal
    Cell = {m1, m2, m3, m4, m5}
    MaxDepth = 2
INVARIANTS
    ComputedOnce
PROPERTIES
    Memoizes
    StrictHolds
