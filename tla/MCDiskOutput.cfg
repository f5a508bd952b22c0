\* Appends, batches and faults of one output file; or two outputs with up to
\* three poll tasks at a time.
CONSTANTS
    Lengths = {1, 3}
    MaxBytes = 5
    MaxChunks = 5
    MaxFaults = 3
    Tasks = {o1, o2}
    Pollers = {p1, p2, p3}
    NoPoller = NoPoller
SPECIFICATION BothSpec
INVARIANTS
    NothingLost
    NoLostWakeup
    FlushedIsSettled
    OnePoller
    SomebodyPolls
    FewLateReports
PROPERTIES
    ImplementsLog
    FlushReturns
    QueueDrains
    EachIsReported
