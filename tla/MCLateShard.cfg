SPECIFICATION Spec
CONSTANTS
  t1 = t1
  Table = {t1}
  Kinds = {"known", "unreadable"}
  Lookback = 1
  Overlap = 1
  PageRows = 2
  MaxLag = 2
  MaxTime = 3
  MaxRows = 3
  MaxFaults = 1
INVARIANTS
  NoHistoryReplayed
