SPECIFICATION Spec
CONSTANTS
  j1 = j1
  j2 = j2
  j3 = j3
  JobId <- OneJob
  NewJobs <- Defaults
  Editors = {e1}
  Patches <- PauseResume
  Runners = {m1}
  Timed = {}
  MaxTasks = 2
  MaxConcurrent = 2
  Threshold = 1
  MaxHistory = 2
  MaxTime = 3
  MaxRows = 4
  MaxCrashes = 1
INVARIANTS OutcomesBounded
CHECK_DEADLOCK FALSE
