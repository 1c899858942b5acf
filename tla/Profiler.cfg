\* Five ranks: rank 2 merges before it sends, rank 4 skips rounds, and several
\* ranks may have nothing.
SPECIFICATION Spec
CONSTANTS
  NumRanks = 5
  Nodes <- OneNode
  Locs <- TwoLocs
  Trace <- Messages
INVARIANTS OutputComplete AbortLeavesNothing MasterHasCalls
PROPERTIES Termination
