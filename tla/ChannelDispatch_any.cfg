SPECIFICATION FairSpec
CONSTANTS
  Messages = 4
  Chat <- OneChat
  Sender <- Alice
  Interrupts = {TRUE, FALSE}
  MaxInFlight = 3
  MaxHistory = 3
  KeepTurns = 2
INVARIANTS OneAtATime Interruptible AnswersFollowTheirTurn InterruptedTurnKept
PROPERTIES PromptFaithful EndsUnlessMissed
CHECK_DEADLOCK FALSE
