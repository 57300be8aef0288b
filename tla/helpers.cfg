SPECIFICATION HelpersSpec
CONSTANTS
  Nil = Nil
  t1 = t1
  t2 = t2
  Callers <- TwoThreads
  Dirs <- Tree
  Parent <- InTree
  Paths <- ServerPaths
  Present <- Nothing
  CanFail = FALSE
INVARIANTS ZeroMeansMade KeysFound  WireAgrees ContainersAgree StringsAgree   
CHECK_DEADLOCK FALSE
