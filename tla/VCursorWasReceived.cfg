SPECIFICATION MCSpec
CONSTANTS
  MaxMessages = 2
  MaxBytes = 100
  FrameSizes = {1}
  Events = {"output"}
  MaxResponses = 2
  MaxChannels = 3
  NInvokes = 0
  Invokes = {}
  Mutations = {}
  ServedProtocols <- SameProtocol
  ClientProtocol = 1
  MaxEpoch = 1
  Foreground = {1}
  MaxTries = 1
  MaxSeq = 2
  Faults = {"cut"}
  Traffic = {"session"}
INVARIANTS
  CursorWasReceived
CHECK_DEADLOCK FALSE
