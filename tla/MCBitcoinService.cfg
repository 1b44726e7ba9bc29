SPECIFICATION ServiceSpec
CONSTANTS
  Clusters = {1, 2}
  Scopes = {{1, 2}}
  None = None
  Clients = {c1, c2}
  Clocks = {1}
  LateSeals = TRUE
  MaxSource = 2
  MaxRuns = 3
  Hashes <- MCHashes
  NoHash = "none"
  ParentOf <- MCParentOf
  Addresses = {"subject", "other"}
  Subject = "subject"
  Tables = {"parent", "children"}
  Parent = "parent"
  Investigations = {"i1"}
  Readers = {"r1"}
  MaxRevision = 3
  MaxLabel = 1
  Histories <- MCHistories
  Foreign = {"b", "n"}
  MaxBlocks = 2
  MaxChanges = 2
  MaxStops = 1
  MaxIngested = 2
  Analysts = {"analyst"}
  Answers <- MCAnswers
  Releases = {1, 2}
  Ttl = 1
  SweepLimit = 1
  MaxClock = 1
  MaxCreated = 1
  MaxUpdates = 3
  MaxFailures = 1
SYMMETRY Symmetry
INVARIANTS AnswersWereCurrent ChainUnlessLate VisibleIsWhole ResponseFits
  BackfillHolds InvestigationsHold
PROPERTY HiddenForGood
CHECK_DEADLOCK FALSE
