\* README.md:157 against the code.
CONSTANTS
    NoId = NoId
    TaskIds = {t1}
SPECIFICATION Spec
INVARIANT BackgroundMessageTrue
CHECK_DEADLOCK FALSE
