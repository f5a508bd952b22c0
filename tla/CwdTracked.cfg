\* README.md:64 against the code: one call, and path names that every
\* conversion leaves as they are.
CONSTANTS
    Calls = {c1}
    CmdIds = {i1}
    NoId = NoId
    Nobody = Nobody
    composed = composed
    accented = accented
    latin1 = latin1
    Paths <- AllPaths
    Original = composed
    ProcessCwd = latin1
    Nfc <- Same
    NonUtf8 = {}
SPECIFICATION Spec
INVARIANT CwdTracked
CHECK_DEADLOCK FALSE
