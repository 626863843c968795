CONSTANTS
  Byte = 2
  Bits = 5
  Values = {0, 12, 129, 255}
  MaxLen = 5
SPECIFICATION PackingSpec
INVARIANTS
  PackingTypeOK
  StaysInside
  ComesBackRounded
  NoiseBelowTwoUnits
