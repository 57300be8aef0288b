SPECIFICATION Spec
CONSTANTS
  c1 = c1
  c2 = c2
  o1 = o1
  o2 = o2
  o3 = o3
  o4 = o4
  o5 = o5
  o6 = o6
  Clients <- TwoClients
  Objects <- SixObjects
  init_num = 2
  max_num = 5
  CanThrow = TRUE
SYMMETRY Symmetry
CHECK_DEADLOCK FALSE
INVARIANTS ExclusiveUse CountersExplained
PROPERTIES DryForever
