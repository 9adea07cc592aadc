SPECIFICATION Spec
CONSTANTS
    Configs <- AllConfigs
    Repairs <- AllRepairs
    Masks <- AllMasks
    Position <- Indices
    MaxDepth = 5
    NoPath = NoPath
INVARIANTS
    ResolveIsToContainer
    ReadersAgree
PROPERTIES
    ResolveKeepsValues
    ResolveEnds
