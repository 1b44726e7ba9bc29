SPECIFICATION FairSpec
CONSTANTS
  Hashes <- MCHashes
  NoHash = "none"
  NumberOf <- MCNumberOf
  ParentOf <- MCParentOf
  Down = "down"
  Views = {"a1", "a2", "b2", "down"}
  Start = 1
  BatchSize = 2
  ReorgDepth = 2
  FollowerTraces = TRUE
  CommandTraces = {TRUE, FALSE}
  MaxErrors = 1
  MaxCommands = 1
  MaxChanges = 2
INVARIANT Consistent
PROPERTIES HistoryChangesByRule CatchesUp
