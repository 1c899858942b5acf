\* Two locations with metrics; four events can nest, recurse and repeat a call
\* in one location and do the same in the other.
SPECIFICATION Spec
CONSTANTS
  Regions = {f, g}
  NumLocs = 2
  HasMetric = TRUE
  MetricTypes = {"UINT64", "DOUBLE"}
  MayTruncate = TRUE
  MaxDepth = 2
  MaxEvents = 4
  Deltas <- Steps
INVARIANTS ExclusiveTimes InclusiveTimes ChildTime CacheCurrent Rooted MetricFound ParentCharged MetricGrowth MessagesFlagged CallersMatch
