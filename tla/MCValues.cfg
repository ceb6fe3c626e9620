SPECIFICATION Spec
CONSTANTS
  t1 = t1
  t2 = t2
  Tasks <- MCTasks
  MaxSize = 7
  BatchSizes = {0, 1, 3, 6, 7}
  WordBits = 2
  ValueSize = 2
  MaxBatches = 3
  MaxMarks = 2
  MaxKills = 2
  MaxWork = 5
SYMMETRY Symmetry
INVARIANTS
  IndexTypeOK
  DeletionsKept
  BatchesFound
  PagesOnDisk
  MetadataOrdered
CHECK_DEADLOCK FALSE
