SPECIFICATION Spec
CONSTANTS
  Name = {n1, n2, n3}
  Task = {t1, t2, t3}
  Waiter = {w1, w2}
  MaxWorkers = 2
  NoTask = NoTask
  NoName = NoName
INVARIANT ActiveNamesRun
CHECK_DEADLOCK FALSE
