SPECIFICATION NamedSpec
CONSTANTS
    Scenarios <- SiteScenarios
    Names = {}
INVARIANT EncodesIffNoDanglingRef
INVARIANT EmittedRefsFaithful
INVARIANT ImportsFaithful
PROPERTY GlobalsAreStableHandles
PROPERTY MemoriesAreStableHandles
\* A caller may stop editing at any point, and the bounds end every run of edits.
CHECK_DEADLOCK FALSE
