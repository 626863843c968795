CONSTANTS
  Trials = 2
  NQueries = 2
  Retries = 2
  MaxFaults = 2
SPECIFICATION Spec
INVARIANTS
  SuccessIsReal
  LogsAgree
PROPERTIES
  TrialEnds
