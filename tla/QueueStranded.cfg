SPECIFICATION FairSpec
CONSTANTS
  Devices = {d1}
  Contents = {a, b}
  Empty = e
  None = None
  Handlers = {"save", "push", "boot"}
  Max404 = 2
  MaxEdits = 2
  MaxFaults = 0
  MaxFlaps = 1
  MaxRestarts = 1
  InitialRow = a

PROPERTY
  QueueIsReplayed
CHECK_DEADLOCK FALSE
