CONSTANTS
  CuckooSize = 3
  Queries = 1
  MaxThreads = 2
  Reads = 2
SPECIFICATION Spec
INVARIANTS
  TypeOK
  SeedGivesMatrix
  ReadyMeansBuilt
  ResponsesInOrder
  NoSenderLeft
PROPERTIES
  ServerEnds
