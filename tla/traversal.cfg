SPECIFICATION LoopSpec
CONSTANTS
    Components <- SomeComponents
    MaxResets = 1
INVARIANT TypeOK
INVARIANT SkipsRespected
INVARIANT VisitedIsPrefix
INVARIANT NoneMeansAll
PROPERTY OfferedOnce
PROPERTY TraversalEnds
\* The caller's loop ends at the first None.
CHECK_DEADLOCK FALSE
