SPECIFICATION Spec
CONSTANTS
  i1 = i1
  i2 = i2
  i3 = i3
  i4 = i4
  Ids = {i1, i2, i3, i4}
  NoId = NoId
  Estimates = {1, 2}
  MaxCalls = 2
  MaxCost = 3
  MaxDay = 1
SYMMETRY Interchangeable
INVARIANTS
  BudgetHolds
PROPERTIES
  NothingIsForgotten
