SPECIFICATION Spec
CONSTANTS
  Runs = {r1}
  Commands <- AllCommands
  StepCounts <- UpToThree
  Budget = 4
  MaxControls = 4
INVARIANTS BudgetRespected CompletedMeansDone StopBounded
CHECK_DEADLOCK FALSE
