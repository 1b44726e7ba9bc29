SPECIFICATION Spec
CONSTANTS
  Hashes <- MCHashes
  NoHash = "none"
  NumberOf <- MCNumberOf
  ParentOf <- MCParentOf
  Families = {"transactions", "utxos_created"}
  Clocks = {0}
  MaxRevision = 10
  MaxRollback = 2
  InterruptedRollback = FALSE
INVARIANTS TypeOK CanonicalChain UniqueVersions AttemptOwnsRevision VisibleBlocksComplete
PROPERTIES InvisibleUntilFence ImplementsPublishedChain
CHECK_DEADLOCK FALSE
