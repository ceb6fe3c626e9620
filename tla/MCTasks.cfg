SPECIFICATION FairSpec
CONSTANTS
  MemTask = m
  LevelTasks = {l1, l2}
  Writers = {w1, w2}
  MaxWrites = 2
  MaxFanout = 1
  MayStop = TRUE
  MayDrop = TRUE
INVARIANTS
  TasksTypeOK
  NoSleepingOverWork
PROPERTIES
  WriterGoesOn
  CompactionsGetDone
  StopEndsTasks
CHECK_DEADLOCK FALSE
