CONSTANTS
  Logq = 10
  Basis = 3
  RowLength = 2
  Unit = 8
  LweN = 2
  Table <- MCTable
  Geometries <- MCGeometries
  Moduli <- MCModuli
  Datasets <- MCDatasets
  Seeds = {1023}
  Stream <- MCStream
  Draws <- MCDraws
SPECIFICATION Spec
INVARIANTS
  RecoversColumn
  ParamsTight
  PanicsForAReason
