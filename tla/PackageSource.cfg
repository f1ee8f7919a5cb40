SPECIFICATION FairSpec
CONSTANTS
  Reads = {r1, r2, r3}
  ReadSlots = {o1, o2}
  MaxInFlight = 2
  PortCapacity = 1
  NoRead = NoRead
INVARIANTS
  NothingReadsIntoClosedSource
  ReadsAnsweredOnce
PROPERTIES
  ReadsAndCloseConverge
CHECK_DEADLOCK FALSE
