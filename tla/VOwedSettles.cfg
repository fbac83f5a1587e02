SPECIFICATION MCFairSpec
CONSTANTS
  MaxMessages = 2
  MaxBytes = 100
  FrameSizes = {1}
  Events = {"output"}
  MaxResponses = 2
  MaxChannels = 1
  NInvokes = 1
  Invokes = {1}
  Mutations = {1}
  ServedProtocols <- SameProtocol
  ClientProtocol = 1
  MaxEpoch = 1
  Foreground = {1}
  MaxTries = 1
  MaxSeq = 0
  Faults = {"cut", "ttl", "openFails"}
  Traffic = {}
PROPERTIES
  OwedSettles
CHECK_DEADLOCK FALSE
