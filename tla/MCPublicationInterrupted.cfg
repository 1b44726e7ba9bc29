SPECIFICATION Spec
CONSTANTS
  Hashes <- MCHashes
  NoHash = "none"
  NumberOf <- MCNumberOf
  ParentOf <- MCParentOf
  Families = {"transactions"}
  Clocks = {0}
  MaxRevision = 12
  MaxRollback = 2
  InterruptedRollback = TRUE
INVARIANT CanonicalChain
CHECK_DEADLOCK FALSE
