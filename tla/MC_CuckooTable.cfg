CONSTANTS
  NEntries = 3
  NBins = 3
  NHashes = 2
  NBuckets = 2
SPECIFICATION Spec
INVARIANTS
  TypeOK
  OncePerBin
  Rectangular
