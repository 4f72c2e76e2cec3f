SPECIFICATION Spec
CONSTANTS
  JobId = {j1, j2}
  Schedule <- MCSchedule
  NoJob = NoJob
  MaxTime = 5
  MaxEdits = 3
PROPERTY AddedJobsStay
CHECK_DEADLOCK FALSE
