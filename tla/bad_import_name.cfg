SPECIFICATION NamedSpec
CONSTANTS
    Scenarios <- ImportNameScenarios
    Names = {"a"}
INVARIANT ImportNamesFaithful
\* A caller may stop editing at any point, and the bounds end every run of edits.
CHECK_DEADLOCK FALSE
