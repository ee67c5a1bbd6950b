SPECIFICATION Spec
CONSTANTS
  Devices = {d1, d2}
  Contents = {a, b, c}
  Empty = e
  None = None
  Handlers = {"save"}
  Max404 = 2
  MaxEdits = 2
  MaxFaults = 0
  MaxFlaps = 0
  MaxRestarts = 0
  InitialRow = a
SYMMETRY Symmetry

PROPERTY
  UpdateReplacesItsBase
CHECK_DEADLOCK FALSE
