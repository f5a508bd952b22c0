\* Two calls, two ids, a directory whose name is not in NFC form, and one
\* whose name is not UTF-8.
CONSTANTS
    Calls = {c1, c2}
    CmdIds = {i1, i2}
    NoId = NoId
    Nobody = Nobody
    composed = composed
    accented = accented
    latin1 = latin1
    Paths <- AllPaths
    Original = composed
    ProcessCwd = latin1
    Nfc <- ToNfc
    NonUtf8 = {latin1}
SPECIFICATION Spec
SYMMETRY Symmetries
INVARIANTS
    CwdOfForeground
    CwdFromItsShell
    NoFileLeft
CHECK_DEADLOCK FALSE
