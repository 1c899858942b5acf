\* Three ranks, three locations: a rank can lose a swap to each of the
\* others, and a location can be left for a rank that fell behind.
SPECIFICATION Spec
CONSTANTS
  NumRanks = 3
  NumLocs = 3
  CompletesAtCall = TRUE
INVARIANTS NoneSkipped Exclusive
PROPERTIES ReadOnce PoolSpec Termination
CHECK_DEADLOCK FALSE
