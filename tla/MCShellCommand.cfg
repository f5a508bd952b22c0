\* Safety of one command: two background ids, a limit of one byte for both the
\* inline read and the watchdog, and a child that can exceed it.
CONSTANTS
    NoId = NoId
    TaskIds = {t1, t2}
    ExitCodes = {0, 143}
    Signals = {15}
    MaxRead = 1
    MaxOutput = 1
    MaxSize = 2
SPECIFICATION Spec
SYMMETRY IdSymmetry
INVARIANTS
    TypeOK
    CompletedMeansExited
    NoListenerAfterExit
    AckedBackgroundReported
    OutputAccounted
    NamedFileKept
PROPERTY ImplementsOutcome
