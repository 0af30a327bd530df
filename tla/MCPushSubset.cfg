SPECIFICATION SubsetSpec
CONSTANTS
  Subsets <- MCDocs
INVARIANTS
  AnswerIsRight
  BoundedRescan
CHECK_DEADLOCK FALSE
