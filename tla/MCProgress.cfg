SPECIFICATION ProgressSpec
CONSTANTS
  Hashes <- MCHashes
  NoHash = "none"
  NumberOf <- MCNumberOf
  ParentOf <- MCParentOf
  Down = "down"
  Primary = "primary"
  Fallbacks <- MCFallbacks
  ViewsOf <- MCViewsOf
  Start = 1
  Confirmations = 1
  ReorgDepth = 1
  BlockBatch = 2
  MaxAttempts = 2
  SettleLimit = 1
  MaxCarried = 0
INVARIANT TasksHold
PROPERTIES CatchesUp UpgradeCompletes MetadataSettles
CHECK_DEADLOCK FALSE
