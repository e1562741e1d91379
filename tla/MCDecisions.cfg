SPECIFICATION ReadingSpec
CONSTANTS
    Answer <- Answers
    Delay = {0, 1}
    TenseDelay = 2
    MaxTime = 3
    None = None
    t = t
    u = u
    Text = {t, u}
    Size <- Sizes
    Telling = {t}
    Pause = {0, 2, 3}
    Gap = 2
    DayLength = 2
    MinPerDay = 2
    MinSize = 3
    Confident <- ConfidentDays
    Baseline = 1
    MaxMessages = 4
    MaxExports = 2
    Shard = {1, 2}
    LocalId = {1}
    ShardRow <- Rows
    Content = {1, 2}
    Reach = 1
    PageSize = 2
    MaxShelf <- Shelves
    MaxChanges = 1
INVARIANTS
  HandedIsSafe
  ImportIsTheChat
  QueueIsUnanswered
  ObservationsAreRight
  ReadingsAreNamed
PROPERTIES
  HandingIsDue
  EmotionNeverGrants
  VisitStoresRows
CHECK_DEADLOCK FALSE
