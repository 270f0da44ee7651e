SPECIFICATION AskSpec
CONSTANTS
  MaxAttempts = 2
CHECK_DEADLOCK FALSE
INVARIANTS
  DefinitionsAloneDenied
