SPECIFICATION CallersSpec
CONSTANTS
  deploy = deploy
  patch = patch
  NoSop = NoSop
  Callers = {c1}
  SopNames <- MCSops
  Catalogs <- MCCatalogs
  MaxConcurrentTotal = 2
  ApprovalTimeout = 1
  MaxFinished = 0
  MaxRuns = 2
  MaxTime = 2
INVARIANTS ApprovalEnforced
PROPERTIES ResultsAttributed
CHECK_DEADLOCK FALSE
