SPECIFICATION FairSpec
CONSTANTS
  read = read
  remove = remove
  look = look
  draw = draw
  file_read = file_read
  shell = shell
  browser_ext = browser_ext
  Calls = {read, remove, look, draw}
  ToolOf <- MCToolOf
  Repeatable = {look}
  Unsliceable = {draw}
  Responses <- MCResponses
  AutoApprove = {file_read}
  AlwaysAsk = {shell}
  Turns = 3
  MaxIterations = 2
  MaxHistory = 5
  KeepRecent = 3
INVARIANTS ApprovalRespected NoRepeats ResultsFollowCalls NothingForgotten
 
CHECK_DEADLOCK FALSE
