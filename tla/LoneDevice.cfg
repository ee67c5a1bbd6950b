SPECIFICATION Spec
CONSTANTS
  Devices = {d1}
  Contents = {a, b, c}
  Empty = e
  None = None
  Handlers = {"save", "poll", "push", "delete"}
  Max404 = 2
  MaxEdits = 3
  MaxFaults = 0
  MaxFlaps = 1
  MaxRestarts = 0
  InitialRow = a
SYMMETRY Symmetry

INVARIANTS
  TypeOK
  LoneDeviceAgrees
CHECK_DEADLOCK FALSE
