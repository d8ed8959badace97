SPECIFICATION Spec
CONSTANTS
    MaxMessages = 2
INVARIANT EmptyFileDisablesLogging
CHECK_DEADLOCK FALSE
