CONSTANTS
  MaxSize = 8
  MaxThreads = 4
SPECIFICATION EncryptionSpec
INVARIANTS
  EncryptionTypeOK
  ReadsDatasetOnly
  OutputInOrder
