SPECIFICATION MCFairSpec
CONSTANTS
  p1 = p1
  p2 = p2
  p3 = p3
  n1 = n1
  n2 = n2
  Nobody = Nobody
  Attachers = {p1, p2}
  Creators = {p1, p2}
  Nodes = {n1}
  NodeOf <- OneNode
  MaxBoots = 2
  Faults = {"kill", "daemon", "recycle"}
INVARIANTS
  LockIsExclusive
PROPERTIES
  StaleLockYields
CHECK_DEADLOCK FALSE
