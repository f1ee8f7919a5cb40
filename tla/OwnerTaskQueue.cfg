SPECIFICATION FairSpec
CONSTANTS
  Producers = {p1, p2}
  Owner = owner
  Tasks = {t1, t2, t3}
  Capacity = 2
  MaxTasksPerPump = 2
  MaxAttempts = 1
  NoTask = NoTask
  NoThread = NoThread
INVARIANTS
  ExactlyOnceInOrder
  MutualExclusion
  NoLostWakeup
  DrainRunsEverything
PROPERTIES
  EveryAcceptedTaskEnds
  ImplementsTaskLog
CHECK_DEADLOCK FALSE
