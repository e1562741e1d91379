SPECIFICATION Spec
CONSTANTS
  d1 = d1
  v1 = v1
  v2 = v2
  NoVersion = NoVersion
  Draft = {d1}
  Version = {v1, v2}
  Lifetimes = {1}
  ListLimit = 2
  MaxRecords = 4
  MaxUses = 2
  MaxTime = 2
SYMMETRY Versions
INVARIANTS
  RecordedOnce
PROPERTIES
  TypingIsAuthorised
  TypingGoesForward
