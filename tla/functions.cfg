SPECIFICATION NamedSpec
CONSTANTS
    Scenarios <- FuncScenarios
    Names = {"a"}
INVARIANT TypeOK
INVARIANT PositionIds
INVARIANT NextIdIsNextSlot
INVARIANT ImportLinksOK
INVARIANT NoOrphanImport
INVARIANT RecalcWhenNeeded
INVARIANT MappingExact
INVARIANT LocalsFaithful
INVARIANT FuncImportsFaithfulIffAscending
INVARIANT SpecialsResolvedWhileImportsRemain
INVARIANT NamesFaithful
\* A caller may stop editing at any point, and the bounds end every run of edits.
CHECK_DEADLOCK FALSE
