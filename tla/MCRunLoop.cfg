SPECIFICATION FairSpec
CONSTANTS
  c1 = c1
  Contact = {c1}
  Body = {ok}
  OtherText = other
  Version = {v1}
  NoVersion = noVersion
  Activations = {v1, noVersion}
  NoEvent = noEvent
  Kinds = {"request", "sensitive", "chatter"}
  Configs <- AllConfigs
  Commands = {"pause", "resume", "kill", "clear"}
  Delays = {0, 1}
  MaxMessages = 1
  MaxTime = 1
  CanaryTTL = 1
  DedupeWindow = 0
  FrequencyWindow = 1
  HourlyLimit = 1
PROPERTIES
  RunEnds
