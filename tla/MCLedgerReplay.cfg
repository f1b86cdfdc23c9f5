SPECIFICATION FairSpec
CONSTANTS
  e1 = e1
  e2 = e2
  e3 = e3
  e4 = e4
  Events = {e1, e2}
  Torn = Torn
  PrimaryCap = 1
  OverflowCap = 1
  BatchSize = 2
  Crashes = FALSE
  DiskFails = FALSE
  LateNewline = FALSE
PROPERTIES
  FallbackReplayed
