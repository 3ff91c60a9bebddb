SPECIFICATION RunSpec
CONSTANTS
    Tasks <- LoopTasks
    Clients <- OneClient
INVARIANT SemanticAfterOncePerBranch
CHECK_DEADLOCK FALSE
