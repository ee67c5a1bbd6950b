SPECIFICATION FairSpec
CONSTANTS
  Logins = {a1, a2}
  Windows = {w1, w2}
  MaxDevices = 1
  Registered = 0
  MaxRounds = 2
  None = None

INVARIANTS
  TypeOK
  FlagHasLoop
  QuotaHolds
  StoredKeysOpen
PROPERTIES
  LoginsEnd
  ApprovedLoginSignsIn
CHECK_DEADLOCK FALSE
