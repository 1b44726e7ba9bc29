SPECIFICATION Spec
CONSTANTS
  Hashes <- MCHashes
  NoHash = "none"
  NumberOf <- MCNumberOf
  ParentOf <- MCParentOf
  Down = "down"
  Views = {"a1", "a2", "b2", "down"}
  Start = 1
  BatchSize = 2
  ReorgDepth = 2
  FollowerTraces = FALSE
  CommandTraces = {FALSE}
  MaxErrors = 2
  MaxCommands = 0
  MaxChanges = 2
INVARIANT EvidenceCommitted
