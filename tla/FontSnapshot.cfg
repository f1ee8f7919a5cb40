SPECIFICATION Spec
CONSTANTS
  Readers = {r1, r2}
  MaxGeneration = 4
  MaxFailures = 1
SYMMETRY Symmetry
INVARIANTS
  HeldSnapshotIsStable
  GenerationsAnnouncedInOrder
CHECK_DEADLOCK FALSE
