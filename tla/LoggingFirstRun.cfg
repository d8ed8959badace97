SPECIFICATION Spec
CONSTANTS
    MaxMessages = 2
INVARIANT FirstRunStarts
CHECK_DEADLOCK FALSE
