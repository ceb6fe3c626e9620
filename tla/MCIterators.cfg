SPECIFICATION Spec
CONSTANTS
  Keys = {1, 2, 3}
  NumLevels = 2
  MaxWrites = 3
  MaxDeletes = 1
  Ranges <- MCRanges
INVARIANTS
  IteratorsTypeOK
  YieldsInOrder
  FindsNewest
  RoundsBounded
CHECK_DEADLOCK FALSE
