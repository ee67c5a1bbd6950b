SPECIFICATION FairSpec
CONSTANTS
  Devices = {d1}
  Contents = {a, b, c}
  Empty = e
  None = None
  Handlers = {"save", "poll"}
  Max404 = 2
  MaxEdits = 2
  MaxFaults = 0
  MaxFlaps = 0
  MaxRestarts = 0
  InitialRow = a

PROPERTY
  LastSaveIsUploaded
CHECK_DEADLOCK FALSE
