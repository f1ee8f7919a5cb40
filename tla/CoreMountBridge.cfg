SPECIFICATION FairSpec
CONSTANTS
  s1 = s1
  s2 = s2
  long = long
  short = short
  update = update
  Surfaces = {s1, s2}
  Ids = {long, short, update}
  Transactions <- MCTransactions
  MaxPending = 2
  MaxBatchQueue = 3
  MaxTransactions = 2
  AutoPresent = TRUE
INVARIANTS
  AnsweredOnce
PROPERTIES
  MountedMeansComplete
  EveryTransactionAnswered
CHECK_DEADLOCK FALSE
