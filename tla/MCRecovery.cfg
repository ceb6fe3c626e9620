SPECIFICATION FairSpec
CONSTANTS
  PageSize = 3
  MaxLen = 4
  MaxRecords = 4
  MaxKills = 3
  Positioned = TRUE
INVARIANTS
  RecoveryTypeOK
  RecoveredIsWritten
PROPERTY RecoveryEnds
CHECK_DEADLOCK FALSE
