CONSTANTS
  Element = {e1, e2, e3}
  NClient = 2
  NServer = 2
  NBins = 2
  NHashes = 2
  NBuckets = 2
  MaxInsert = 1
  BucketsPerCol = 1
SPECIFICATION MCSpec
INVARIANTS
  CountsSharedBoth
  FailsForAReasonBoth
PROPERTIES
  ComputesIntersection
