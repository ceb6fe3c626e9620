SPECIFICATION FairSpec
CONSTANTS
  Storers = {s1, s2}
  Syncers = {y1}
  PageSize = 2
  MaxLen = 2
  MaxPos = 3
  MayStop = TRUE
INVARIANTS
  WalTypeOK
  PositionsAgree
  PagesKept
  NoLostWakeup
  SyncBehindWrite
PROPERTIES
  QueuedIsWritten
  CallersReturn
CHECK_DEADLOCK FALSE
