SPECIFICATION Spec
CONSTANTS
  Readers = {r1}
  MaxGeneration = 2
  MaxFailures = 0
INVARIANTS
  ReaderSlotNeverOverwritten
CHECK_DEADLOCK FALSE
