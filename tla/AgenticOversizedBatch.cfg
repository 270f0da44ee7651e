SPECIFICATION Spec
CONSTANTS
  a1 = a1
  a2 = a2
  Actions <- MCActions
  StartStates <- MCStartStates
  MaxIterations = 3
  MaxSql = 3
  MaxRows = 2
  MaxLlm = 1
  MaxRetries = 1
  MaxBatch = 2
  MaxBatchRows = 1
  MaxAssessCalls = 1
INVARIANTS QueryExhaustionEndsSafely
