SPECIFICATION MCSilentSpec
CONSTANTS
  MaxMessages = 2
  MaxBytes = 100
  FrameSizes = {1}
  Events = {"output"}
  MaxResponses = 2
  MaxChannels = 2
  NInvokes = 0
  Invokes = {}
  Mutations = {}
  ServedProtocols <- SameProtocol
  ClientProtocol = 1
  MaxEpoch = 1
  Foreground = {1}
  MaxTries = 1
  MaxSeq = 0
  Faults = {"cut", "unresponsive", "openFails"}
  Traffic = {}
PROPERTIES
  AttachEnds
CHECK_DEADLOCK FALSE
