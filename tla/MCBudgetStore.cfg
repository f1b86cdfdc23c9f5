SPECIFICATION FairSpec
CONSTANTS
  r1 = r1
  r2 = r2
  m1 = m1
  Models = {m1}
  NoBudget = NoBudget
  NoModel = NoModel
  KeyIds = {1}
  Teams = {1}
  Requests = {r1, r2}
  ApiKeys <- MCApiKeys
  Budgets <- MCBudgets
  Seed <- MCSeed
  MonthStart <- MCMonthStart
  MaxEst = 1
  MaxActual = 2
  MaxCap = 2
  MaxDay = 1
INVARIANTS
  TypeOK
  Conservation
  GaugeExact
  AdmissionBound
  ConcurrencyBound
PROPERTIES
  EveryRequestSettles
