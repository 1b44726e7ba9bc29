SPECIFICATION FairSpec
CONSTANTS
  Hashes <- MCHashes
  NoHash = "none"
  NumberOf <- MCNumberOf
  ParentOf <- MCParentOf
  Addresses <- MCAddresses
  AddressesOf <- MCAddressesOf
  PageSize = 2
  MaxQueue = 2
  MaxAttempts = 2
  MaxRevision = 3
  MaxFaults = 1
INVARIANTS Consistent BudgetSurvivesCrashes
PROPERTY SweepsRepeat
