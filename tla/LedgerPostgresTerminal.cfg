SPECIFICATION Spec
CONSTANTS
  r1 = r1
  r2 = r2
  r3 = r3
  Nobody = Nobody
  Requests <- MCRequests
  Targets <- MCTargets
  StartHistories <- MCStartHistories
  Dialects = {"postgresql"}
  MaxAttempts = 3
  MaxCalls = 2
PROPERTIES TerminalIsFinal
