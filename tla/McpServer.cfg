SPECIFICATION Spec
CONSTANTS
    Frame <- MCFrame
    MaxFrames = 2
    MaxUnits = 2
    Chunk = 1
INVARIANTS
    OneAnswerEach
    ChecksAreAskedFor
PROPERTIES
    EveryFrameIsTaken
CHECK_DEADLOCK FALSE
