SPECIFICATION Spec
CONSTANTS
  full = full
  inc = inc
  m1 = m1
  vip = vip
  s1 = s1
  a1 = a1
  a = a
  ab = ab
  b = b
  none = none
  Null = Null
  Full <- OneFull
  Incremental <- OneIncremental
  Rids <- OneSong
  FirstBatch <- OneSong
  Names <- TwoNames
  FirstWord <- WordOf
  Sources <- OneSource
  ProductsOf <- ProductTable
  Policies <- OnePolicy
  MaxEdits = 1
  MaxPasses = 2
  Faults = {"sql", "redis", "die"}
INVARIANTS IteratedRowsExist ReferencesResolve 
PROPERTIES PayStaysKnown
