\* ContentReads: messages and files against the caps of the tools and of the client.
CONSTANTS
    Messages <- MCMessages
    Files <- MCFiles
    MaxBytes = 6
    MaxResponse = 9
SPECIFICATION Spec
\* A read ends.
CHECK_DEADLOCK FALSE
INVARIANTS
    TypeOK
    ShowsProse
    CutsAtRune
    FileAsDeclared
PROPERTIES
    ReadEnds
