SPECIFICATION RunSpec
CONSTANTS
    Tasks <- AllTasks
    Clients <- BothClients
INVARIANT TypeOK
INVARIANT PlacedWhereTheyBelong
INVARIANT IteratorCodeIsWritten
INVARIANT KeptInstrsInOrder
INVARIANT NestingKept
PROPERTY KeepsTheFunctionsPath
INVARIANT ExitRunsOnceAtTheEnd
INVARIANT SemanticAfterRuns
\* A function that was run, or cannot be written, has nothing left to do.
CHECK_DEADLOCK FALSE
