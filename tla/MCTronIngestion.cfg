SPECIFICATION Spec
CONSTANTS
    TxsOf <- MCTxsOf
    Start = 1
    TotalTxs = 2
    MaxFaults = 1
    MaxReplays = 1
    MaxReplayed = 1
INVARIANTS
    Consistent
    JournalExplains
PROPERTIES
    CatchesUp
CHECK_DEADLOCK FALSE
