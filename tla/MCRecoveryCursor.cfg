SPECIFICATION Spec
CONSTANTS
  PageSize = 3
  MaxLen = 4
  MaxRecords = 4
  MaxKills = 3
  Positioned = FALSE
INVARIANT RecoveredIsWritten
CHECK_DEADLOCK FALSE
