\* The comment of htmlToText against its loop.
CONSTANTS
    Messages <- MCMessages
    Files <- MCFiles
    MaxBytes = 6
    MaxResponse = 9
SPECIFICATION Spec
CHECK_DEADLOCK FALSE
INVARIANT ProseIsKept
