SPECIFICATION Spec
VIEW View
CONSTANTS
    a = a
    b = b
    x = x
    alias = alias
    wrong = wrong
    one = one
    bad = bad
    ref = ref
    miss = miss
    dang = dang
    BadKey = BadKey
    Default = Default
    NoDefault = NoDefault
    Nothing = Nothing
    Val = {one, bad, ref, miss, dang}
    Untypable = {bad}
    Foreign = {bad, ref, miss, dang}
    Missing = {miss}
    Dangling = {dang}
    Target <- TargetOf
    Fields <- ClassFields
    Key = {a, b, x}
    Norm <- Both
    DeletesAttrs = TRUE
    StoresNodes = TRUE
    MaxLen = 2
    MaxArg = 2
INVARIANTS
    NodesAccept
PROPERTIES
    KeysFixed
    ReadonlyHolds
    ImplementsDict
