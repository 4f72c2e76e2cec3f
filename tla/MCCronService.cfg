SPECIFICATION FairSpec
CONSTANTS
  JobId = {j1, j2}
  Schedule <- MCSchedule
  NoJob = NoJob
  MaxTime = 6
  MaxEdits = 4
INVARIANTS
  TypeOK
  TimerArmed
  ExecutionsWanted
  RunsSpaced
PROPERTIES
  OneTimeEndsOnce
  DueJobsRun
CHECK_DEADLOCK FALSE
