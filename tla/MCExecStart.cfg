\* Two calls with any options; commands of up to five lexemes.
CONSTANTS
    Calls = {c1, c2}
    Lexemes = {"word", "num", "assign", "bang", "quoted", "shout", "escaped", "glob", "devnull",
               "opaque", "multiline", "ionum", "out", "dup", "in", "pipe", "or", "semi", "amp"}
    MaxLength = 5
SPECIFICATION Spec
INVARIANTS
    SourcedIsFinished
    SnapshotBestEffort
    HeldByCalls
    CommandKept
PROPERTY CallsEnd
CHECK_DEADLOCK FALSE
