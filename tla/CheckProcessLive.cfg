\* Liveness, POSIX and Windows: the shell and one descendant, streams of two bytes at most.
SPECIFICATION Spec
CONSTANTS
    Proc = {sh, w1}
    Shell = sh
    Platform = {"posix", "win32"}
    MaxStreamBytes = 1
    ReadBytes = 1
    PipeCap = 1
    Requested = {1}
    MaxWritten = 2
PROPERTIES
    Termination
    QuietCheckReturns
