SPECIFICATION PFairSpec
CONSTANTS
  Docs <- MCPartitionDocs
  Names <- MCNames
  Detect = 2
  Big = 2
  Stops = FALSE
INVARIANTS
  SameEvents
  PrefixOfEveryContinuation
PROPERTIES
  CallsReturn
CHECK_DEADLOCK FALSE
