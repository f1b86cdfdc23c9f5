SPECIFICATION FairSpec
CONSTANTS
  None = None
  b1 = b1
  b2 = b2
  begin0 = begin0
  end0 = end0
  object0 = object0
  whole1 = whole1
  ToolLines = {begin0, end0, object0, whole1}
  PieceOf <- SmallPieces
  Backends = {b1, b2}
  Requests <- SmallRequests
  Configs <- SmallConfigs
  Documents <- SmallDocuments
  MaxLines = 3
  Usage = 2
  Estimate = 1
INVARIANTS
  TypeOK
  NoDeadBranch
  StreamWellFormed
  ContentKept
  UsageCounted
PROPERTIES
  SettledOnce
  EventuallySettles
  ToolCallsAnswered
