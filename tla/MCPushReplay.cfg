SPECIFICATION Spec
CONSTANTS
  Documents <- MCDocuments
  Again <- MCAgain
  Kinds = {"open", "close", "stray", "empty", "pi", "comment", "char", "cr", "lf"}
  MaxItems = 3
  Contexts = {"plain", "option"}
  InitialSizes = {0, 2}
  MaxChunk = 5
  MaxReuses = 1
  DecideBytes = 2
  NoInput = NoInput
  NoSession = NoSession
  NoCall = NoCall
INVARIANTS InputInOrder EventsOnce SameOutcome
CHECK_DEADLOCK FALSE
