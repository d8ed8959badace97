SPECIFICATION Spec
CONSTANTS
    MaxEntries = 0
    NoHost = NoHost
INVARIANT PresetsCanUpload
CHECK_DEADLOCK FALSE
