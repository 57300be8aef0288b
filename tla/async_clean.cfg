SPECIFICATION Spec
CONSTANTS
  c1 = c1
  c2 = c2
  c3 = c3
  c4 = c4
  c5 = c5
  news = news
  None = None
  Commands <- TwoGets
  Kind <- GetKinds
  Names <- NoNames
  Topics <- News
  NullFn = {}
  Adapters <- AllAdapters
  MaxIssued = 2
  MaxWaiting = 1
  MaxSpontaneous = 1
  EarlyEvents = TRUE
INVARIANTS CleanDisconnect
CHECK_DEADLOCK FALSE
