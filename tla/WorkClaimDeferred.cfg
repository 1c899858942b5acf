SPECIFICATION Spec
CONSTANTS
  NumRanks = 2
  NumLocs = 2
  CompletesAtCall = FALSE
INVARIANTS Exclusive
CHECK_DEADLOCK FALSE
