SPECIFICATION FairSpec
CONSTANTS
  Producers = {p1, p2}
  Owner = owner
  Tasks = {t1, t2}
  Capacity = 2
  MaxTasksPerPump = 1
  MaxAttempts = 1
  NoTask = NoTask
  NoThread = NoThread
  MaxDeviceBusy = 1
  MaxDeviceFail = 1
INVARIANTS
  StopReleasesEverything
  PreparedStopIsOrderly
PROPERTIES
  NothingRunsOnClosedBackends
  ImplementsContract
  StopConverges
CHECK_DEADLOCK FALSE
