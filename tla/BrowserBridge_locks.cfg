CONSTANTS
  chrome = chrome
  edge = edge
  open = open
  post = post
  Clients = {chrome}
  Calls = {open}
  ToolCalls = {open}
  MaxRestarts <- NoRestarts
  Free = Free
  NoCommand = NoCommand
SPECIFICATION Spec
INVARIANT NeverHoldEachOther
CHECK_DEADLOCK FALSE
