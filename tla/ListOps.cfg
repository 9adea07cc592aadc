SPECIFICATION Spec
VIEW View
CONSTANTS
    one = one
    box = box
    ref = ref
    miss = miss
    dang = dang
    NoNode = NoNode
    Val = {one, box, ref, miss, dang}
    Box = {box}
    Untypable = {box}
    Missing = {miss}
    Dangling = {dang}
    Target <- TargetOf
    Index <- AnyIndex
    Reorders = TRUE
    SlicesAny = FALSE
    MaxLen = 3
    MaxArg = 2
INVARIANTS
    ItemsAccepted
PROPERTIES
    KeysRenewed
    ReadonlyHolds
    ImplementsList
