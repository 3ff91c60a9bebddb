SPECIFICATION Spec
CONSTANTS
    Binaries <- Parsed
    Client <- AnyEdit
    MaxEdits = 2
INVARIANT NoForwardReference
CHECK_DEADLOCK FALSE
