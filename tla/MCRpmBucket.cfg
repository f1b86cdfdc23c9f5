SPECIFICATION Spec
CONSTANTS
  Window = 6
  Second = 2
  MaxLimit = 4
  MaxTime = 18
  MaxSlips = 2
INVARIANTS
  TypeOK
  RateBound
  RetryHint
