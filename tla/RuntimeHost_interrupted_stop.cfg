SPECIFICATION FairSpec
CONSTANTS
  Calls = {c1}
  StartCall = StartCall
  NoCall = NoCall
  MaxPendingControls = 1
  TaskCapacity = 1
  TasksPerPump = 1
  MaxBusy = 0
  MaxInterrupts = 1
PROPERTIES
  TeardownConverges
CHECK_DEADLOCK FALSE
