SPECIFICATION EvaluationSpec
CONSTANTS
  w1 = w1
  w2 = w2
  c1 = c1
  ws = ws
  NoWorkspace = NoWorkspace
  Workers <- MCWorkers
  Clients <- MCOneClient
  Workspaces <- MCWorkspaces
  WorkspaceLimit = 1
  GlobalLimit = 2
  Selection = 1
  MaxJobs = 1
  MaxCrashes = 1
  SlowScenarios = FALSE
  PromptRestart = FALSE
  OverlappingRecovery = FALSE
  p1 = p1
  p2 = p2
  t1 = t1
  t2 = t2
  t3 = t3
  a1 = a1
  a2 = a2
  A = A
  Processes = {p1, p2}
  Threads = {t1, t2, t3}
  Scenarios = {a1, a2}
  Domains = {A}
  ProcessOf <- MCProcessOf
  MainThread <- MCMainThread
  Commands <- MCCommands
  DomainOf <- MCDomainOf
  Place <- MCPlace
  Pilot <- MCPilot
  Supported <- MCSupported
  NoOne = NoOne
CHECK_DEADLOCK FALSE
INVARIANTS RunnerTypeOK MeasuredAgainstItsDefect
PROPERTIES JobsEnd PendingCancelWins ResultsSurvive RunEnds
