SPECIFICATION Spec
CONSTANTS
    MaxTokens = 5
    Keys <- MCKeys
    Digits <- MCDigits
    Lower <- MCLower
    Nodes <- MCNodes
    Roots <- MCRoots
    Kind <- MCKind
    Items <- MCItems
    Requests <- MCRequests
    None = None
INVARIANTS ReadsWithinPath WalkFollowsPath
CHECK_DEADLOCK FALSE
