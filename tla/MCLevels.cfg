SPECIFICATION FairSpec
CONSTANTS
  Keys = {1, 2}
  NumLevels = 3
  Tasks = {c1, c2}
  None = None
  L0Trigger = 1
  L1MaxSize = 1
  SeekBased = TRUE
  MaxSeq = 2
  MaxBatch = 2
  MaxReopenId = 3
INVARIANTS
  TypeOK
  LevelsDisjoint
  CompactionOwnsTables
  LookupNewest
  ManifestListsTables
PROPERTIES
  CompactionPreservesLookup
  CompactionEnds
CHECK_DEADLOCK FALSE
