SPECIFICATION FairSpec
CONSTANTS
  MaxVisits = 3
  MaxAsks = 2
  MaxWork = 3
  MaxFailures = 2
INVARIANTS
  CountdownIsDeserted
  NeverForgotten
PROPERTIES
  StopsNobody
  StopsWithSnapshot
  DesertedEnds
CHECK_DEADLOCK FALSE
