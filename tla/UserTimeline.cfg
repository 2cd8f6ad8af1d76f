CONSTANTS
  p1 = p1
  p2 = p2
  p3 = p3
  d1 = d1
  Post <- ThreePosts
  Stamp <- ByStamp
  Reader <- OneReader
  Page <- Pages
  MaxFailures = 2
  MaxLosses = 1
SPECIFICATION Spec
INVARIANTS NoGap CachedAreStored NoDuplicates FullPages
CHECK_DEADLOCK FALSE

