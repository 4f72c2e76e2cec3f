SPECIFICATION Spec
CONSTANTS
  JobId = {j1, j2}
  Schedule <- MCSchedule
  NoJob = NoJob
  MaxTime = 5
  MaxEdits = 3
INVARIANT OneTimeRunsOnce
CHECK_DEADLOCK FALSE
