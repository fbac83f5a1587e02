SPECIFICATION Spec
CONSTANTS
  None = None
  Nodes = {a, b}
  a = a
  b = b
  MaxEdits = 1
  MaxCalls = 2
  MaxScripts = 1
  MaxRestarts = 1
SYMMETRY NodeSymmetry
PROPERTY AutosavedIsPersisted
CHECK_DEADLOCK FALSE
