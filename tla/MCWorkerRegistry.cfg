SPECIFICATION FairSpec
CONSTANTS
  Name = {n1, n2, n3}
  Task = {t1, t2, t3}
  Waiter = {w1, w2}
  MaxWorkers = 2
  NoTask = NoTask
  NoName = NoName
INVARIANTS
  TypeOK
  CapacityRespected
  RegistryMirrorsTasks
  CompletedReportIsOwn
PROPERTIES
  WaitersReturn
  ImplementsPool
CHECK_DEADLOCK FALSE
