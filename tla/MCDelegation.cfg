SPECIFICATION FairDelegationSpec
CONSTANTS
  n1 = n1
  n2 = n2
  c1 = c1
  c2 = c2
  Name = {n1, n2}
  Task = {t1, t2, t3}
  Waiter = {p1}
  MaxWorkers = 2
  NoTask = NoTask
  NoName = NoName
  Queen = queen
  Direct = {cron}
  Chat = {c1}
  DefaultChat = c1
  Plans <- MCPlans
  MaxInbox = 1
INVARIANTS
  DelegationTypeOK
  NoticesConserved
  StagesChained
  CompletionIsTrue
PROPERTIES
  StopReachesAll
  PipelinesReport
  NoticesHeard
CHECK_DEADLOCK FALSE
