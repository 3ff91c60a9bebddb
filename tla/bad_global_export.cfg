SPECIFICATION NamedSpec
CONSTANTS
    Scenarios <- ExportScenarios
    Names = {}
INVARIANT GlobalExportsFaithful
\* A caller may stop editing at any point, and the bounds end every run of edits.
CHECK_DEADLOCK FALSE
