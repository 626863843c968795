CONSTANTS
  CuckooSize = 2
  Queries = 1
  Bucket = 2
  Offline = 3
  Request = 3
  Response = 3
  Chunk = 2
  Capacity = 2
  MaxCrashes = 1
SPECIFICATION Spec
INVARIANTS
  TypeOK
  ReadsWholeMessages
  CountsOnlyAnswers
  AnswersWholeRequests
  NobodyPanicsAlone
PROPERTIES
  BothEnd
