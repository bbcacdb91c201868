CONSTANTS
  gateway = gateway
  channels = channels
  first = first
  second = second
  third = third
  Tasks = {first, second, third}
  Trackers = {gateway, channels}
  TrackerOf <- Own
  Days = 3
  MonthOf <- TwoMonths
  MaxCrashes = 1
  Free = Free
  NewLine = NewLine
SPECIFICATION Spec
INVARIANTS SumsBounded LostOnlyTogether
CHECK_DEADLOCK FALSE
