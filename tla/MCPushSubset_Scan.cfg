SPECIFICATION SubsetSpec
CONSTANTS
  Subsets <- MCLegalDocs
INVARIANTS
  ScanReachesTheEnd
CHECK_DEADLOCK FALSE
