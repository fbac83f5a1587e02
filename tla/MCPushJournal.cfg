SPECIFICATION MCSpec
CONSTANTS
  MaxMessages = 3
  MaxBytes = 5
  FrameSizes = {1, 2, 7}
  Events = {"output"}
  MaxSeq = 6
INVARIANTS
  JournalTypeOK
  ReplayIsExact
  NewestRetained
PROPERTY GapIsFinal
CHECK_DEADLOCK FALSE
