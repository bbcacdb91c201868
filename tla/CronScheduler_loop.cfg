SPECIFICATION FairSpec
CONSTANTS
  j1 = j1
  j2 = j2
  j3 = j3
  JobId <- TwoJobs
  NewJobs <- Defaults
  Editors = {}
  Patches <- NoPatches
  Runners = {}
  Timed = {j1}
  MaxTasks = 1
  MaxConcurrent = 1
  Threshold = 2
  MaxHistory = 1
  MaxTime = 3
  MaxRows = 8
  MaxCrashes = 1
INVARIANTS SentinelsExact FailedStaysDisabled
PROPERTIES OccurrenceOnce DueJobsRun
CHECK_DEADLOCK FALSE
