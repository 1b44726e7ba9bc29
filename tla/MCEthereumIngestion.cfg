SPECIFICATION Spec
CONSTANTS
    Branches <- MCBranches
    Start = 1
    TraceMode = "auto"
    MaxReorgs = 1
    MaxFaults = 1
    MaxCommands = 1
INVARIANTS
    Consistent
    GapsAreRequested
PROPERTIES
    CatchesUp
CHECK_DEADLOCK FALSE
