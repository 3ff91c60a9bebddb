SPECIFICATION NamedSpec
CONSTANTS
    Scenarios <- Converting
    Names = {}
INVARIANT FuncImportsFaithful
\* A caller may stop editing at any point, and the bounds end every run of edits.
CHECK_DEADLOCK FALSE
