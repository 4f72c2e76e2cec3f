SPECIFICATION FairSpec
CONSTANTS
  Caller = {queen, cron}
  CronTurn = {cron}
  Limit = 4
  Cost = {0, 1, 2}
  MaxCost = 2
  NoCaller = NoCaller
  MaxDay = 1
  MaxStarts = 1
INVARIANTS
  TypeOK
  UsageBounded
  NoChargeLost
PROPERTY ChargesEnd
