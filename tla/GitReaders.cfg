\* Up to three requests; the pipes hold one request and two units.
SPECIFICATION Spec
CONSTANTS
    InCap = 1
    OutCap = 2
    Slack = 2
    MaxBroken = 1
    MaxObjects = 3
    Object <- Objects
    Division <- Divisions
INVARIANTS
    AnswersAreTheirs
    NothingLeftBehind
PROPERTY
    CallEnds
