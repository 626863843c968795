CONSTANTS
  MaxSize = 8
  MaxThreads = 4
SPECIFICATION SpecAnySizes
INVARIANTS
  ReadsDatasetOnly
