SPECIFICATION Spec
CONSTANTS
  Inputs <- AllInputs
  Block = 2
  Coarse = 3
  Utf8Block = 2
  Threads = 2
  WaveMult = 1
  Threshold = 4
  Ratio = 2
  Share = 2
  NoHit = NoHit
INVARIANTS
  AnswerIsSequential
  VerdictIsWhole
  IndexIsCurrent
PROPERTY Answered
CHECK_DEADLOCK FALSE
