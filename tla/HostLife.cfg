SPECIFICATION Spec
CONSTANTS
    MaxEntries = 2
    NoHost = NoHost
INVARIANTS UploadsFollowTheAnswers EditorsKeepHostsUsable
CHECK_DEADLOCK FALSE
