SPECIFICATION Spec
CONSTANTS
  Correction <- Corrections
  MaxValue = 1
  Minimums <- SomeMinimums
  Written <- SomeWritten
  Requested <- SomeRequested
  MaxObserved = 2
  MaxCommands = 1
  MaxCrashes = 1
  ListLimit = 10000
INVARIANTS
  ProtectedIsKept
  LearntIsCountedOnce
PROPERTIES
  RefreshKeepsProtected
  LearntIsInForce
  RollbackHolds
  CorrectionsAreLearned
