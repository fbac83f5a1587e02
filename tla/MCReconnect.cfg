SPECIFICATION MCFairSpec
CONSTANTS
  MaxMessages = 2
  MaxBytes = 100
  FrameSizes = {1}
  Events = {"output"}
  MaxResponses = 2
  MaxChannels = 2
  NInvokes = 1
  Invokes = {1}
  Mutations = {1}
  ServedProtocols <- Upgraded
  ClientProtocol = 1
  MaxEpoch = 2
  Foreground = {1}
  MaxTries = 2
  MaxSeq = 0
  Faults = {"cut", "crash", "openFails", "ttl", "retry", "deadline", "unresponsive"}
  Traffic = {}
PROPERTIES
  ChaseEnds
  OwedExpires
CHECK_DEADLOCK FALSE
