SPECIFICATION Spec
CONSTANTS
    MaxWords = 4
    Argvs <- MCArgvs
    Commands <- MCCommands
    Numbers <- MCNumbers
INVARIANTS GlobalOptionsCanBeAnywhere TempFileLives CopiedFileIsUploaded
CHECK_DEADLOCK FALSE
