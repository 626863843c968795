CONSTANTS
  NItems = 4
  NBins = 4
  NHashes = 2
  MaxInsert = 3
SPECIFICATION Spec
INVARIANTS
  TypeOK
  PlacedAtOwnHash
  Conserved
  CrowdedThrows
PROPERTIES
  FillEnds
  StoresItems
