SPECIFICATION Spec
CONSTANTS
  Windows = {w1}
  Requests = {r1, r2}
  None = None
  Faulty = FALSE
  MaxRetries = 1
  Threshold = 2

INVARIANT
  SignsOutOnlyIfRevoked
CHECK_DEADLOCK FALSE
