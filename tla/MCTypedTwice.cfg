SPECIFICATION Spec
CONSTANTS
  d1 = d1
  v1 = v1
  v2 = v2
  NoVersion = NoVersion
  Draft = {d1}
  Version = {v1, v2}
  Lifetimes = {1}
  ListLimit = 100
  MaxRecords = 2
  MaxUses = 2
  MaxTime = 2
INVARIANTS
  UsedOnce
