SPECIFICATION MCSpec
CONSTANTS
  p1 = p1
  p2 = p2
  p3 = p3
  n1 = n1
  n2 = n2
  Nobody = Nobody
  Attachers = {p1, p2, p3}
  Creators = {p1, p2, p3}
  Nodes = {n1}
  NodeOf <- OneNode
  MaxBoots = 1
  Faults = {"kill"}
PROPERTIES
  OnlyStaleIsCleared
CHECK_DEADLOCK FALSE
