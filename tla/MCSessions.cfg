SPECIFICATION Spec
CONSTANTS
  MemoryWindow = 2
  MaxEntries = 8
  MaxObjects = 4
  MaxTasks = 2
  MaxCommands = 1
  MaxCrashes = 1
INVARIANTS
  SessionsTypeOK
  NothingForgotten
  RestartKeepsBranch
CHECK_DEADLOCK FALSE
