SPECIFICATION FairSpec
CONSTANTS
  r1 = r1
  r2 = r2
  r3 = r3
  b1 = b1
  b2 = b2
  HealthLoop = HealthLoop
  s1 = s1
  s2 = s2
  Requests = {r1}
  Syncers = {}
  Primary = {b1}
  Fallback = {b2}
  Local = {b1}
  Settings <- Alone
  GlobalMax <- Unlimited
  EndpointMax <- Unlimited
  CounterSize = 9
  RoundRobin = TRUE
  ClientAborts = TRUE
INVARIANTS
  RetriesElsewhere
PROPERTIES
  RequestsEnd
  LocalRecovers
