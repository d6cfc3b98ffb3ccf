SPECIFICATION Spec
CONSTANTS
    Writer = {"u", "w"}
    MaxBlocks = 2
    MaxOthers = 1
    Call = {"c"}
    N = 2
    NCached = 1
    MaxDepth = 1
    Changes = {{1}}
    MaxEdits = 0
PROPERTIES
    ExistingIsRefused
CHECK_DEADLOCK FALSE
