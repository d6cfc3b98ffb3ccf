SPECIFICATION Spec
CONSTANTS
    Component = {"execution", "tests", "ci", "review"}
    Policy = {"base", "work", "next", "stray"}
    MaxTests = 2
    MaxChangedFiles = 1
    Commit = {"base", "work", "next", "stray"}
    Ancestor <- MCAncestor
    Base = "base"
    WithPolicy = {"base"}
    Handoff <- MCHandoff
    Pins <- MCPins
    MaxMoves = 3
INVARIANTS
    TypeOK
    CleanCandidate
    NeverAuthorizes
    ApprovalIsHuman
PROPERTIES
    GenuineIsComposed
