SPECIFICATION FairSpec
CONSTANTS
  Daemons = {d1, d2}
  Components = {scheduler}
  Nobody = Nobody
  MaxRestarts = 2
  MaxCrashes = 1
INVARIANTS OneDaemon OneLateStart LastStateTold
PROPERTIES ShutdownEnds ComponentsComeBack
CHECK_DEADLOCK FALSE
