SPECIFICATION Spec
CONSTANTS
  Storers = {s1}
  Syncers = {y1}
  PageSize = 2
  MaxLen = 2
  MaxPos = 3
  MayStop = TRUE
INVARIANT SyncMakesDurable
CHECK_DEADLOCK FALSE
