SPECIFICATION Spec
CONSTANTS
    Writer = {u, w}
    MaxBlocks = 2
    MaxOthers = 2
    Call = {"c", "d"}
    N = 4
    NCached = 2
    MaxDepth = 2
    Changes = {{1}, {1, 2}}
    MaxEdits = 1
SYMMETRY WriterSymmetry
INVARIANTS
    TargetIsWhole
    NoLitter
    ReadIsSnapshot
    ExistingIsKept
    GraphIsCurrent
    ImpactIsExact
CONSTRAINT Bounded
CHECK_DEADLOCK FALSE
