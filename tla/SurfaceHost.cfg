SPECIFICATION FairSpec
CONSTANTS
  Surfaces = {a, b}
  Requests = {r1, r2}
  NoRequest = NoRequest
  MaxRoots = 2
  MaxOperations = 2
  MaxCompleted = 1
  Budgets = {2}
  TaskCapacity = 1
  StorageCapacity = 2
INVARIANTS
  RecordsOwnRoots
  AnsweredOnce
  ClosedIsEmpty
PROPERTIES
  TakesThePlace
  NoReplay
  CloseConverges
CHECK_DEADLOCK FALSE
