SPECIFICATION MCSpec
CONSTANTS
  MaxMessages = 2
  MaxBytes = 100
  FrameSizes = {1}
  Events = {"output"}
  MaxResponses = 2
  MaxChannels = 4
  NInvokes = 0
  Invokes = {}
  Mutations = {}
  ServedProtocols <- SameProtocol
  ClientProtocol = 1
  MaxEpoch = 1
  Foreground = {1, 2}
  MaxTries = 1
  MaxSeq = 0
  Faults = {"cut", "openFails", "retry"}
  Traffic = {}
INVARIANTS
  ConnectedIsAlive
CHECK_DEADLOCK FALSE
