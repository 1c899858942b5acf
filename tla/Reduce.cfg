\* Five ranks: skipped rounds, and trees that are handed on twice.  Every trace
\* of one call path and two locations (without metrics, or with one everywhere), and every way to share the locations.
SPECIFICATION Spec
CONSTANTS
  NumRanks = 5
  Nodes <- OneNode
  Locs <- TwoLocs
  Traces <- EveryTraceAndMetrics
  Owners <- AnyOwnerOrEverybody
INVARIANTS NothingLost MasterComplete OwnKept
PROPERTIES Termination
