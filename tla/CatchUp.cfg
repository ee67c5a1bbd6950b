SPECIFICATION FairSpec
CONSTANTS
  Devices = {d1, d2}
  Contents = {a, b, c}
  Empty = e
  None = None
  Handlers = {"save", "poll"}
  Max404 = 2
  MaxEdits = 2
  MaxFaults = 1
  MaxFlaps = 0
  MaxRestarts = 0
  InitialRow = a

INVARIANT
  OneSyncAtATime
PROPERTY
  PullDestroysNothingHandled
  CleanDeviceCatchesUp
  LockIsReleased
CHECK_DEADLOCK FALSE
