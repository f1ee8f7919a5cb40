SPECIFICATION FairSpec
CONSTANTS
  Calls = {c1, c2}
  StartCall = StartCall
  NoCall = NoCall
  MaxPendingControls = 2
  TaskCapacity = 1
  TasksPerPump = 1
  MaxBusy = 1
  MaxInterrupts = 1
INVARIANTS
  NoCallbackIntoDestroyedHost
  AnsweredExactlyOnce
PROPERTIES
  TeardownFailureIsReported
  FollowsContract
  UninterruptedTeardownConverges
  EveryCallIsAnswered
CHECK_DEADLOCK FALSE
