SPECIFICATION Spec
CONSTANTS
  MaxSlots = 4
  Counts = {2, 6}
  RowHeights = {2, 3}
  ViewportHeights = {4, 5, 8}
  MaxOffset = 14
  MaxBindFailures = 1
  NoObject = NoObject
INVARIANTS
  SlotsAreDistinct
  ViewportIsCovered
  WhatIsSeenIsTheWindow
CHECK_DEADLOCK FALSE
