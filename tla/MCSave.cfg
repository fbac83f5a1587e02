SPECIFICATION Spec
CONSTANTS
  None = None
  Nodes = {a, b}
  a = a
  b = b
  MaxEdits = 1
  MaxCalls = 2
  MaxScripts = 1
  MaxRestarts = 1
SYMMETRY NodeSymmetry
INVARIANTS
  CommitIsLast
  SnapshotRestores
  RestoreIsFaithful
PROPERTIES
  SavedIsPersisted
  LastCopyIsKept
CHECK_DEADLOCK FALSE
