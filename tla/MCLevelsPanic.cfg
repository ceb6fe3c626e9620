SPECIFICATION Spec
CONSTANTS
  Keys = {1, 2}
  NumLevels = 2
  Tasks = {c1, c2}
  None = None
  L0Trigger = 0
  L1MaxSize = 1
  SeekBased = FALSE
  MaxSeq = 2
  MaxBatch = 1
  MaxReopenId = 0
INVARIANT NoManifestPanic
CHECK_DEADLOCK FALSE
