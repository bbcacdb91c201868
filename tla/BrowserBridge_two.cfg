CONSTANTS
  chrome = chrome
  edge = edge
  open = open
  post = post
  Clients = {chrome, edge}
  Calls = {open, post}
  ToolCalls = {open}
  MaxRestarts <- OnlyChrome
  Free = Free
  NoCommand = NoCommand
SPECIFICATION FairSpec
INVARIANTS AnswerIsTheResult
PROPERTIES DeliveredAtMostOnceInOrder CallsEnd
CHECK_DEADLOCK FALSE
