SPECIFICATION Spec
CONSTANTS
  Keys = {1, 2, 3}
  NumLevels = 2
  MaxWrites = 2
  MaxDeletes = 1
  Ranges <- MCRanges
INVARIANT YieldsSnapshot
CHECK_DEADLOCK FALSE
