SPECIFICATION Spec
CONSTANTS
  Caller = {queen}
  CronTurn = {}
  Limit = 4
  Cost = {0, 1, 2}
  MaxCost = 2
  NoCaller = NoCaller
  MaxDay = 0
  MaxStarts = 0
INVARIANT AlertsComplete
CHECK_DEADLOCK FALSE
