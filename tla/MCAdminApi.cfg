SPECIFICATION Spec
CONSTANTS
  a1 = a1
  a2 = a2
  b1 = b1
  b2 = b2
  b3 = b3
  m1 = m1
  m2 = m2
  t1 = t1
  k1 = k1
  Poll = Poll
  Admins = {a1, a2}
  NoSnap = NoSnap
  Outages = FALSE
  NoRow = NoRow
  None = None
  Backends = {b1, b2, b3}
  Unborn = {b3}
  Models = {m1, m2}
  Teams = {t1}
  Keys = {k1}
  Boot <- MCBoot
  Calls <- TwoCalls
INVARIANTS
  StaleIsNotified
  BridgeRoutesChat
  SerialCallsTakeEffect
