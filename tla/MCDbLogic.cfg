SPECIFICATION DbSpec
CONSTANTS
  Keys = {1, 2}
  NumLevels = 2
  Tasks = {c1}
  None = None
  L0Trigger = 0
  L1MaxSize = 1
  SeekBased = FALSE
  MaxSeq = 5
  MaxBatch = 5
  MaxReopenId = 3
  Readers = {r1}
  PageSize = 2
  MemtableSize = 1
  MaxWrites = 2
  MaxOps = 3
INVARIANTS
  DbTypeOK
  OffsetsAdvance
  LogReachesOffset
PROPERTIES
  ImplementsKVStore
  ImplementsLevels
CHECK_DEADLOCK FALSE
