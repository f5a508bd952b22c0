\* One run, every request, two ids.
CONSTANTS
    NoId = NoId
    TaskIds = {t1, t2}
SPECIFICATION BothSpec
INVARIANTS
    ResultTells
    SomebodyWatches
    NothingUnattended
PROPERTY RunReturns
CHECK_DEADLOCK FALSE
