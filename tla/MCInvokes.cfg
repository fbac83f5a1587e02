SPECIFICATION MCSpec
CONSTANTS
  MaxMessages = 2
  MaxBytes = 100
  FrameSizes = {1}
  Events = {"output"}
  MaxResponses = 2
  MaxChannels = 2
  NInvokes = 2
  Invokes = {1, 2}
  Mutations = {1}
  ServedProtocols <- SameProtocol
  ClientProtocol = 1
  MaxEpoch = 2
  Foreground = {1}
  MaxTries = 1
  MaxSeq = 0
  Faults = {"cut", "crash", "age"}
  Traffic = {}
INVARIANTS
  MutationAtMostOnce
  WaitIsAnswerable
PROPERTIES
  KeepsContract
CHECK_DEADLOCK FALSE
