SPECIFICATION Spec
CONSTANTS
  Docs <- MCDocs
  Names <- MCNames
  Detect = 2
  Big = 2
  Stops = TRUE
INVARIANTS
  PhaseMatchesStack
  EndDocumentIsLast
  SilentAfterFatal
  TerminateSettles
PROPERTIES
  EndDocumentOnlyAtTheEnd
  ImplementsSax
CHECK_DEADLOCK FALSE
