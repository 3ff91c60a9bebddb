SPECIFICATION RunSpec
CONSTANTS
    Tasks <- IfTasks
    Clients <- OneClient
INVARIANT IfExitAtItsOwnEnd
CHECK_DEADLOCK FALSE
