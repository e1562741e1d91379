SPECIFICATION Spec
CONSTANTS
  c1 = c1
  Contact = {c1}
  Body = {ok}
  OtherText = other
  Version = {v1}
  NoVersion = noVersion
  Activations = {v1, noVersion}
  NoEvent = noEvent
  Kinds = {"request"}
  Configs <- SendingOrNot
  Commands = {}
  Delays = {0}
  MaxMessages = 2
  MaxTime = 1
  CanaryTTL = 1
  DedupeWindow = 0
  FrequencyWindow = 1
  HourlyLimit = 1
INVARIANTS
  ClicksAreAccounted
  HistoryNeverAnswered
  EqualSendsAreSpaced
PROPERTIES
  ClaimedWhileLatest
  ClickWithinAuthority
  KeepsPromise
