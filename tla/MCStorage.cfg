SPECIFICATION StorageSpec
CONSTANTS
    Process = {p1, p2}
    Key = {k1, k2}
    EventId = {1, 2}
    Body = {a, b}
    RecordId = {r1, r2}
    Scope = {s1, s2}
    Payload = {x}
    SendKey = {send}
    Schema = 3
    MaxBatch = 2
    MaxEntries = 3
    MaxHashes = 4
    None = None
    Command = {p1, p2}
    Draft = {d1, d2}
    MaxBuilds = 2
    MaxFaults = 1
    Caller = {1, 2}
    Contents = {1, 2}
    MaxDeaths = 1
SYMMETRY StorageSymmetry
INVARIANTS
  LedgerAgrees
  OpenedIsReadable
  ManifestDescribes
  AuditIsTrue
  LoadedHasPlist
  KillIsPaused
PROPERTIES
  CommitsOneChange
  NothingIsLost
  InstalledIsCurrent
CHECK_DEADLOCK FALSE
