SPECIFICATION Spec
CONSTANTS
    Binaries <- Parsed
    Client <- AnyEdit
    MaxEdits = 2
INVARIANT TypeOK
INVARIANT IdsResolve
INVARIANT CacheSound
PROPERTY IdsAreStableHandles
INVARIANT NoPanic
INVARIANT EachItemOnce
INVARIANT OrderKept
INVARIANT IndicesMapped
INVARIANT NamesMapped
INVARIANT CollectedFirst
\* A client may stop editing at any point, and the bound ends every run of edits.
CHECK_DEADLOCK FALSE
