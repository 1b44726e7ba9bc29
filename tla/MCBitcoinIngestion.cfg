SPECIFICATION Spec
CONSTANTS
  Hashes <- MCHashes
  NoHash = "none"
  NumberOf <- MCNumberOf
  ParentOf <- MCParentOf
  Down = "down"
  Primary = "primary"
  Fallbacks <- MCFallbacks
  ViewsOf <- MCViewsOf
  Start = 1
  Confirmations = 1
  ReorgDepth = 1
  BlockBatch = 2
  MaxAttempts = 2
  SettleLimit = 1
  MaxCarried = 2
INVARIANT Consistent
PROPERTIES DeadLettersHold ResolvedIsPublished TipMovesByRule
