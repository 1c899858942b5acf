SPECIFICATION Spec
CONSTANTS
  Functions <- MCFunctions
  OwnTrees <- MCOwnTrees
  SentTrees <- MCSentTrees
  LocationsOf <- MCLocationsOf
  P2P = {1}
  Collop = {1, 2}
  NumMetrics = 0
INVARIANTS
  TypeOK
  RoundTrip
  MergedUnion
  ParentsLive
  VisitedOnce
  BufferHolds
