SPECIFICATION FairSpec
CONSTANTS
    MaxMessages = 6
INVARIANTS TypeOK MutexIsFree StuckOnlyWithoutLog LinesAreComplete TakenDown
PROPERTY MainGoesOn
CHECK_DEADLOCK FALSE
