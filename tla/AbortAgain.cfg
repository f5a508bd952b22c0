\* README.md:124 against the code: an abort that follows an interrupt.
CONSTANTS
    NoId = NoId
    TaskIds = {t1}
    ExitCodes = {0}
    Signals = {}
    MaxRead = 1
    MaxOutput = 0
    MaxSize = 1
SPECIFICATION Spec
INVARIANT PlainAbortHeeded
