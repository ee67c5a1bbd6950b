SPECIFICATION FairSpec
CONSTANTS
  Devices = {d1}
  Contents = {a, b, c}
  Empty = e
  None = None
  Handlers = {"save", "push"}
  Max404 = 2
  MaxEdits = 2
  MaxFaults = 0
  MaxFlaps = 1
  MaxRestarts = 0
  InitialRow = a

PROPERTY
  QueuedChangeIsSynced
CHECK_DEADLOCK FALSE
