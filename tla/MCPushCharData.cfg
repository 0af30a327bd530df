SPECIFICATION Spec
CONSTANTS
  Docs <- MCDocs
  Big = 3
  EmptyCalls = FALSE
INVARIANTS
  TextIsExact
  WrongTextIsFatal
  Backlog
CHECK_DEADLOCK FALSE
