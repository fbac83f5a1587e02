SPECIFICATION MCSpec
CONSTANTS
  p1 = p1
  p2 = p2
  p3 = p3
  n1 = n1
  n2 = n2
  Nobody = Nobody
  Attachers = {p1, p2}
  Creators = {p1, p2}
  Nodes = {n1, n2}
  NodeOf <- FarApart
  MaxBoots = 1
  Faults = {}
PROPERTIES
  OnlyStaleIsCleared
CHECK_DEADLOCK FALSE
