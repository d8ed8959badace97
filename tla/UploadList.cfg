SPECIFICATION FairSpec
CONSTANTS
    Uploads = {1, 2}
    MaxRetries = 2
    CurlFails = FALSE
    NoUrl = NoUrl
    Garbled = Garbled
    Unset = Unset
    MaxFiles = 2
    Faults = {"busy", "kill"}
INVARIANTS TypeOK SuccessMeansStored RecordsAreCopies NothingAfterFailure ClipboardHasAll
           CopiesAreBounded SuccessNamesACopy FailsOnlyInTheEnd UrlIsTaken
PROPERTIES ImplementsBatch ImplementsTransfer CommandEnds
CHECK_DEADLOCK FALSE
