\* Liveness of one command, under the fairness of the event loop.
CONSTANTS
    NoId = NoId
    TaskIds = {t1}
    ExitCodes = {0}
    Signals = {}
    MaxRead = 1
    MaxOutput = 0
    MaxSize = 1
SPECIFICATION FairSpec
PROPERTIES
    ExitDelivers
    KillDelivers
    KilledChildReaped
    TimeoutBounds
    OversizeKilled
    AbortKills
