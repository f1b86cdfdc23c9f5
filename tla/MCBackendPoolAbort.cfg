SPECIFICATION Spec
CONSTANTS
  r1 = r1
  r2 = r2
  r3 = r3
  b1 = b1
  b2 = b2
  HealthLoop = HealthLoop
  s1 = s1
  s2 = s2
  Requests = {r1}
  Syncers = {s1}
  Primary = {b1}
  Fallback = {}
  Local = {}
  Settings <- AloneEdited
  GlobalMax <- Unlimited
  EndpointMax <- Unlimited
  CounterSize = 9
  RoundRobin = FALSE
  ClientAborts = TRUE
INVARIANTS
  ProbeNotLost
