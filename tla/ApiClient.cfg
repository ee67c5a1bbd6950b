SPECIFICATION FairSpec
CONSTANTS
  Windows = {w1}
  Requests = {r1, r2}
  None = None
  Faulty = TRUE
  MaxRetries = 1
  Threshold = 2

INVARIANTS
  TypeOK
  OneRefreshAtATime
  LoneWindowKeepsItsSession
PROPERTIES
  RequestsSettle
  OpenCircuitIsProbed
CHECK_DEADLOCK FALSE
