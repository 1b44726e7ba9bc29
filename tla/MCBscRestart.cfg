SPECIFICATION FairSpec
CONSTANTS
  Hashes <- MCHashes
  NoHash = "none"
  NumberOf <- MCNumberOf
  ParentOf <- MCParentOf
  Down = "down"
  Views = {"a1", "a2", "b2", "down"}
  Start = 1
  BatchSize = 2
  ReorgDepth = 3
  FollowerTraces = TRUE
  CommandTraces = {FALSE}
  MaxErrors = 2
  MaxCommands = 0
  MaxChanges = 2
PROPERTY RestartsRecover
