SPECIFICATION Spec
CONSTANTS
  Byte <- MCByte
  N = 7
  Kinds <- MCKinds
  Docs <- MCDocs
  SectionStart = 3
INVARIANTS
  FoundIsFirst
  ParkedIsIncomplete
  NeverRestarts
PROPERTIES
  BoundedOverlap
CHECK_DEADLOCK FALSE
