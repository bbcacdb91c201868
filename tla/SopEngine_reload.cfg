SPECIFICATION Spec
CONSTANTS
  deploy = deploy
  backup = backup
  NoSop = NoSop
  SopNames <- MCSops
  Catalogs <- EditedCatalogs
  MaxConcurrentTotal = 2
  ApprovalTimeout = 1
  MaxFinished = 2
  MaxRuns = 3
  MaxTime = 1
INVARIANTS TypeOK ConcurrencyBounded StepAccounting RetentionCorrect WaitingIsTimed
PROPERTIES CooldownRespected ImplementsRunPool
CHECK_DEADLOCK FALSE
