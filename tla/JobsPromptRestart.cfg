SPECIFICATION FairJobs
CONSTANTS
  w1 = w1
  w2 = w2
  c1 = c1
  ws = ws
  NoWorkspace = NoWorkspace
  Workers <- MCWorkers
  Clients <- MCOneClient
  Workspaces <- MCWorkspaces
  WorkspaceLimit = 1
  GlobalLimit = 2
  Selection = 1
  MaxJobs = 1
  MaxCrashes = 1
  SlowScenarios = FALSE
  PromptRestart = TRUE
  OverlappingRecovery = FALSE
CHECK_DEADLOCK FALSE
PROPERTIES JobsEnd
