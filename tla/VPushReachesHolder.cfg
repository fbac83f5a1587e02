SPECIFICATION MCSpec
CONSTANTS
  MaxMessages = 2
  MaxBytes = 100
  FrameSizes = {1}
  Events = {"output"}
  MaxResponses = 2
  MaxChannels = 2
  NInvokes = 1
  Invokes = {1}
  Mutations = {1}
  ServedProtocols <- SameProtocol
  ClientProtocol = 1
  MaxEpoch = 1
  Foreground = {1}
  MaxTries = 1
  MaxSeq = 1
  Faults = {"cut"}
  Traffic = {"handler"}
PROPERTIES
  PushReachesHolder
CHECK_DEADLOCK FALSE
