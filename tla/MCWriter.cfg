SPECIFICATION Spec
CONSTANTS
  Name = {n1, n2}
  Decl <- MCDecl
  Obligations <- AllObligations
  MaxDepth = 3
CHECK_DEADLOCK FALSE
INVARIANTS WellFormed NothingRefused DeclaredInItsTag WriteCallsBalance StateIsNesting
