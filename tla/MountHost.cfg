SPECIFICATION Spec
CONSTANTS
  s1 = s1
  s2 = s2
  n1 = n1
  n2 = n2
  n3 = n3
  Surfaces = {s1, s2}
  Nodes = {n1, n2, n3}
  Transactions <- MCTransactions
  DefaultSize = 1
  MaxObjects = 3
  MaxFonts = 2
  MaxTransactions = 1
  MaxBindings = 1
  MaxVersions = 1
INVARIANTS
  FontsAreCounted
  ParentsAreThere
  CallbacksNameLiveNodes
  ClosedIsEmpty
PROPERTIES
  AllOrNothing
  LoneMoveClosesNoCycle
CHECK_DEADLOCK FALSE
