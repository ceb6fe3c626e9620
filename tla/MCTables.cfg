SPECIFICATION Spec
CONSTANTS
  Letters = {1, 2}
  MaxKeyLen = 2
  Intervals = {1, 2, 3}
  BlockSizes = {1, 2, 3, 7}
  None = None
INVARIANTS
  BuilderTypeOK
  RestartsAgree
  GetFindsAdded
  IteratesInOrder
CHECK_DEADLOCK FALSE
