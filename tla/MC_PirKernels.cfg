CONSTANTS
  Rows = 3
  Cols = 3
  LweN = 2
  Squishing = 2
  Lanes = 2
  NRequests = 2
SPECIFICATION Spec
INVARIANTS
  TypeOK
  HintIsProduct
  AnswersAreRows
