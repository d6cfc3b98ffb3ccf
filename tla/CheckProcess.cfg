\* POSIX and Windows: the shell and one descendant.
SPECIFICATION Spec
CONSTANTS
    Proc = {sh, w1}
    Shell = sh
    Platform = {"posix", "win32"}
    MaxStreamBytes = 2
    ReadBytes = 2
    PipeCap = 2
    Requested = {0, 2, 3}
    MaxWritten = 3
INVARIANTS
    TypeOK
    CompleteCapture
    FailureIsEarned
    NoSurvivor
PROPERTY
    RunnerSpec
