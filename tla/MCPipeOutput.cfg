\* Two chunks a stream, buffers for two, one background id; a ring of three
\* lines; seven bytes of text read by up to three.
CONSTANTS
    NoId = NoId
    TaskIds = {t1}
    MaxMemory = 2
    MaxChunks = 2
    blank = blank
    short = short
    long = long
    NoLine = NoLine
    Segments = {blank, short, long}
    Width <- Widest
    Blank = {blank}
    MaxProgress = 5
    MaxRecorded = 3
    Capacity = 3
    Recent = 2
    MaxSegments = 5
    MaxLines = 8
    Widths <- MixedText
    MaxBytes = 3
SPECIFICATION AllSpec
INVARIANTS
    OutputKept
    ResultShowsOutput
    PiecesIntact
PROPERTIES
    NoticeComesTrue
    ImplementsRecent
CHECK_DEADLOCK FALSE
