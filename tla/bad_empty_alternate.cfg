SPECIFICATION RunSpec
CONSTANTS
    Tasks <- AlternateTasks
    Clients <- OneClient
INVARIANT EmptyAlternateKeeps
CHECK_DEADLOCK FALSE
