SPECIFICATION InvestigationSpec
CONSTANTS
  a1 = a1
  a2 = a2
  Actions <- MCActions
  StartStates <- MCStartStates
  MaxIterations = 3
  MaxSql = 3
  MaxRows = 1
  MaxLlm = 1
  MaxRetries = 1
  MaxBatch = 2
  MaxBatchRows = 2
  MaxAssessCalls = 1
  MaxAttempts = 2
  k1 = k1
  k2 = k2
  k3 = k3
  t1 = t1
  t2 = t2
  Nothing = Nothing
  Candidates <- MCCandidates
  Tables <- MCTables
  Leaf <- MCLeaf
  MaxCandidateTables = 2
  MaxBacktracks = 2
  MaxExpansions = 1
  MaxGraphSteps = 40
  MaxRuns = 7
  o1 = o1
  o2 = o2
  q1 = q1
  q2 = q2
  q3 = q3
  Objects = {o1, o2}
  Queries <- MCQueries
  ObjectOf <- MCObjectOf
  TextOf <- MCTextOf
  MaxRounds = 3
  MaxQueries = 3
  MaxObjects = 3
  NoProgressLimit = 1
INVARIANTS TypeOK EndsWithinLimits OneControlledRetry RecordsAgree NoSqlAfterCancel
  LedgerConcludes CausesAreEarned AuditAgreesWithCalls ReaderAgreesWithLedger
  WalkTypeOK VerdictMatchesAnswer SearchIsPaid EvidenceIsSound
PROPERTIES InvestigationsEnd ReproductionEndsTheSearch 
