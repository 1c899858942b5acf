\* Eight accesses: an interval of each kind can end and another begin; the gaps
\* make accesses contiguous, strided, and running backwards.
SPECIFICATION Spec
CONSTANTS
  MaxAccesses = 8
  Gaps <- Jumps
  Sizes = {1}
INVARIANTS Disjoint RetakenOnce NoneLost Pure
