SPECIFICATION Spec
CONSTANTS
  Devices = {d1}
  Contents = {e, a, b}
  Empty = e
  None = None
  Handlers = {"save", "create", "delete", "boot"}
  Max404 = 2
  MaxEdits = 3
  MaxFaults = 1
  MaxFlaps = 0
  MaxRestarts = 1
  InitialRow = None
SYMMETRY Symmetry

INVARIANT
  SyncedHashWasHeld
PROPERTY
  NoResurrection
CHECK_DEADLOCK FALSE
