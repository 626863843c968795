CONSTANTS
  CuckooSize = 2
  Queries = 1
  Bucket = 2
  Offline = 3
  Request = 3
  Response = 2
  Chunk = 3
  Capacity = 2
  MaxCrashes = 0
SPECIFICATION Spec
INVARIANTS
  ReadsWholeMessages
