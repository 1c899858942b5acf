SPECIFICATION Spec
CONSTANTS
  MaxAccesses = 5
  Gaps <- Jumps
  Sizes = {1}
INVARIANTS CountedOnce
